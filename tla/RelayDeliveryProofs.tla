------------------------ MODULE RelayDeliveryProofs ------------------------
(***************************************************************************)
(* What a guest and the host see of a forward, for any set of guests and   *)
(* channels and any bounds: InOrder, EndedIsToldToHost and StoppedIsFlushed *)
(* of RelayForwards.  Four invariants are proved one upon the other.       *)
(* Begins: a forward is silent until its OPEN was told.  Delivery: what is  *)
(* delivered, queued, held by the host's reader and on the wire is one run  *)
(* of frames.  Telling: who took a forward off the map is about to tell the *)
(* host.  Flushing: the writer of a stopped forward leaves nothing behind.  *)
(***************************************************************************)
EXTENDS RelayForwardsProofs

USE ForwardsAssumption

-----------------------------------------------------------------------------
(* What each step does, forward by forward. *)

\* Nothing of a family of values changes but at f.
OnlyAt(f, x, y) == \A k \in Fwd : k # f => y[k] = x[k]
OnlyOf(g, x, y) == \A k \in Guests : k # g => y[k] = x[k]

\* closeForward, and the frame that tells the host.
Removes(h, why) ==
  /\ \A k \in Fwd : forwards'[k] = IF k = h THEN 0 ELSE forwards[k]
  /\ \A k \in Fwd : cause'[k] = IF k = h /\ forwards[h] # 0 THEN why ELSE cause[k]
  /\ \A k \in Fwd : stops'[k] = IF k = h /\ forwards[h] # 0 THEN stops[k] + 1 ELSE stops[k]
Tells(h) ==
  /\ \A k \in Fwd : hostEnd'[k] = IF k = h /\ host = "up" THEN 0 ELSE hostEnd[k]
  /\ dialing' = dialing
  /\ missed' = IF host = "up" THEN missed \cup (dialing \cap {h}) ELSE missed

LEMMA Numbers ==
  ASSUME TypeOK
  PROVE  /\ HostChans = Fwd /\ Fwd \subseteq Nat \ {0}
         /\ made \in Nat /\ made <= MaxForwards
         /\ \A f \in Fwd : f <= made <=> f \in 1..made
<1>1. made \in 0..MaxForwards
  BY DEF TypeOK
<1>. QED BY <1>1 DEF Fwd, HostChans

LEMMA CloseForwardDoes ==
  ASSUME TypeOK, IInv, NEW h \in Fwd, NEW why, CloseForward(h, why)
  PROVE  Removes(h, why)
<1>1. h \in HostChans /\ (forwards[h] # 0 => forwards[h] = h)
  BY Numbers DEF IInv, Numbering
<1>2. CASE forwards[h] = 0
  BY <1>1, <1>2, Numbers DEF CloseForward, Removes, TypeOK
<1>3. CASE forwards[h] # 0
  <2>1. /\ forwards' = [forwards EXCEPT ![h] = 0]
        /\ stops' = [stops EXCEPT ![h] = @ + 1]
        /\ cause' = [cause EXCEPT ![h] = why]
    BY <1>1, <1>3 DEF CloseForward
  <2>. QED BY <1>1, <1>3, <2>1, Numbers DEF Removes, TypeOK
<1>. QED BY <1>2, <1>3

\* The forwards the host dials are known by their own number.
LEMMA Dials ==
  ASSUME TypeOK, IInv
  PROVE  /\ dialing \subseteq Fwd
         /\ \A f \in dialing : fwd[f].hostChan = f
BY DEF TypeOK, IInv, Streams, EndsOwn

LEMMA TellHostEndedDoes ==
  ASSUME TypeOK, IInv, NEW h \in Fwd, TellHostEnded(h)
  PROVE  Tells(h)
<1>1. CASE host = "up"
  <2>1. /\ hostEnd' = [hostEnd EXCEPT ![h] = 0] /\ dialing' = dialing
        /\ missed' = missed \cup {d \in dialing : fwd[d].hostChan = h}
    BY <1>1 DEF TellHostEnded, HostTakes
  <2>2. {d \in dialing : fwd[d].hostChan = h} = dialing \cap {h}
    BY Dials
  <2>3. \A k \in Fwd : hostEnd'[k] = IF k = h THEN 0 ELSE hostEnd[k]
    BY <2>1, Numbers DEF TypeOK
  <2>. QED BY <1>1, <2>1, <2>2, <2>3 DEF Tells
<1>2. CASE host # "up"
  BY <1>2 DEF TellHostEnded, Tells, sockets
<1>. QED BY <1>1, <1>2

LEMMA GuestOpenDoes ==
  ASSUME TypeOK, IInv, NEW g \in Guests, NEW c \in Channels, GuestOpen(g, c)
  PROVE  /\ made + 1 \in Fwd /\ made' = made + 1
         /\ reader[g].pc = "recv"
         /\ fwd'[made + 1].guest = g /\ OnlyAt(made + 1, fwd, fwd')
         /\ forwards'[made + 1] # 0 /\ OnlyAt(made + 1, forwards, forwards')
         /\ writer[made + 1] = "none" /\ writer'[made + 1] = "running"
         /\ OnlyAt(made + 1, writer, writer')
         /\ reader'[g] = [pc |-> "tell", host |-> made + 1, f |-> made + 1, kind |-> "open"]
         /\ OnlyOf(g, reader, reader')
         /\ UNCHANGED <<out, last, stops, conn, toTell, hostReader, cause, host,
                        hostEnd, dialing, missed, hostSent, wire, delivered>>
<1>. DEFINE f == made + 1
<1>1. /\ f \in Fwd /\ f \in HostChans /\ f \in Nat /\ made \in Nat
      /\ made' = f
      /\ fwd' = [fwd EXCEPT ![f] = [guest |-> g, guestChan |-> c, hostChan |-> f]]
      /\ forwards' = [forwards EXCEPT ![f] = f]
      /\ writer' = [writer EXCEPT ![f] = "running"]
      /\ reader[g].pc = "recv"
      /\ reader' = [reader EXCEPT ![g] = [pc |-> "tell", host |-> f, f |-> f, kind |-> "open"]]
      /\ UNCHANGED <<out, last, stops, conn, toTell, hostReader, cause, host,
                     hostEnd, dialing, missed, hostSent, wire, delivered>>
  BY DEF GuestOpen, NextHostChan, IInv, Numbering, TypeOK, Fwd, HostChans, ends, sockets
<1>2. f # 0 /\ ~(f <= made)
  BY <1>1
<1>. HIDE DEF f
<1>3. writer[f] = "none"
  BY <1>1, <1>2 DEF IInv, WritersMade
<1>4. /\ fwd'[f].guest = g /\ OnlyAt(f, fwd, fwd')
      /\ forwards'[f] # 0 /\ OnlyAt(f, forwards, forwards')
      /\ writer'[f] = "running" /\ OnlyAt(f, writer, writer')
      /\ OnlyOf(g, reader, reader')
      /\ reader'[g] = [pc |-> "tell", host |-> f, f |-> f, kind |-> "open"]
  <2>1. fwd'[f].guest = g /\ OnlyAt(f, fwd, fwd')
    BY <1>1, Numbers DEF OnlyAt, TypeOK
  <2>2. forwards'[f] # 0 /\ OnlyAt(f, forwards, forwards')
    BY <1>1, <1>2, Numbers DEF OnlyAt, TypeOK
  <2>3. writer'[f] = "running" /\ OnlyAt(f, writer, writer')
    BY <1>1 DEF OnlyAt, TypeOK
  <2>4. /\ OnlyOf(g, reader, reader')
        /\ reader'[g] = [pc |-> "tell", host |-> f, f |-> f, kind |-> "open"]
    BY <1>1 DEF OnlyOf, TypeOK
  <2>. QED BY <2>1, <2>2, <2>3, <2>4
<1>. QED BY <1>1, <1>3, <1>4 DEF f

LEMMA GuestFrameDoes ==
  ASSUME TypeOK, IInv, NEW g \in Guests, NEW c \in Channels,
         NEW k \in {"data", "close"}, GuestFrame(g, c, k)
  PROVE  /\ reader[g].pc = "recv"
         /\ reader'[g].pc = IF k = "close" THEN "close" ELSE "tell"
         /\ reader'[g].kind = k
         /\ reader'[g].f \in 1..made /\ fwd[reader'[g].f].guest = g
         /\ OnlyOf(g, reader, reader')
         /\ UNCHANGED <<forwards, made, fwd, out, last, stops, writer, conn, toTell,
                        hostReader, cause, host, hostEnd, dialing, missed, hostSent, wire, delivered>>
<1>. DEFINE h == channels[g][c]
<1>1. /\ reader[g].pc = "recv" /\ h # 0
      /\ reader' = [reader EXCEPT ![g] =
                      [pc |-> IF k = "close" THEN "close" ELSE "tell",
                       host |-> h, f |-> forwards[h], kind |-> k]]
      /\ UNCHANGED <<forwards, made, fwd, out, last, stops, writer, conn, toTell,
                     hostReader, cause, host, hostEnd, dialing, missed, hostSent, wire, delivered>>
  BY DEF GuestFrame, relay, queues, ends, sockets
<1>2. h \in HostChans
  BY <1>1 DEF TypeOK, HostChans
<1>3. forwards[h] # 0 /\ fwd[h].guest = g
  BY <1>1 DEF IInv, Routes
<1>4. forwards[h] = h /\ h \in 1..made
  BY <1>2, <1>3, Numbers DEF IInv, Numbering
<1>. HIDE DEF h
<1>. QED BY <1>1, <1>3, <1>4 DEF OnlyOf, TypeOK

LEMMA ReaderCloseDoes ==
  ASSUME TypeOK, IInv, NEW g \in Guests, ReaderClose(g)
  PROVE  /\ reader[g].pc = "close"
         /\ reader[g].f \in Fwd /\ Removes(reader[g].f, "guest")
         /\ reader'[g].pc = "tell" /\ reader'[g].f = reader[g].f
         /\ reader'[g].kind = reader[g].kind
         /\ OnlyOf(g, reader, reader')
         /\ UNCHANGED <<made, fwd, out, last, writer, conn, toTell, hostReader, host,
                        hostEnd, dialing, missed, hostSent, wire, delivered>>
<1>1. /\ reader[g].pc = "close"
      /\ CloseForward(reader[g].host, "guest")
      /\ reader' = [reader EXCEPT ![g] = [reader[g] EXCEPT !.pc = "tell"]]
      /\ UNCHANGED <<made, fwd, out, last, writer, conn, toTell, hostReader, host,
                     hostEnd, dialing, missed, hostSent, wire, delivered>>
  BY DEF ReaderClose, ends, sockets
<1>2. reader[g] \in ReaderRec
  BY DEF TypeOK
<1>3. reader[g].f = reader[g].host /\ reader[g].f \in Fwd
  BY <1>1, <1>2, ReaderRecords, Numbers DEF IInv, Streams, ReadersOwn
<1>4. Removes(reader[g].f, "guest")
  BY <1>1, <1>3, CloseForwardDoes
<1>5. reader'[g] = [reader[g] EXCEPT !.pc = "tell"]
  BY <1>1 DEF TypeOK
<1>6. reader[g] \in [pc : {"close", "tell"}, host : HostChans, f : 0..MaxForwards,
                     kind : {"open", "data", "close"}]
  BY <1>1, <1>2 DEF ReaderRec, Idle, Ended, Fwd
<1>7. /\ reader'[g].pc = "tell" /\ reader'[g].f = reader[g].f
      /\ reader'[g].kind = reader[g].kind
  BY <1>5, <1>6
<1>. QED BY <1>1, <1>3, <1>4, <1>7 DEF OnlyOf, TypeOK

LEMMA ReaderTellDoes ==
  ASSUME TypeOK, IInv, NEW g \in Guests, ReaderTell(g)
  PROVE  /\ reader[g].pc = "tell" /\ reader[g].f \in Fwd
         /\ reader[g].kind \in {"open", "data", "close"}
         /\ hostEnd'[reader[g].f] = IF reader[g].kind = "close" THEN 0 ELSE hostEnd[reader[g].f]
         /\ OnlyAt(reader[g].f, hostEnd, hostEnd')
         /\ dialing' = IF reader[g].kind = "open" THEN dialing \cup {reader[g].f} ELSE dialing
         /\ missed' = IF reader[g].kind = "close" THEN missed \cup (dialing \cap {reader[g].f})
                                                  ELSE missed
         /\ reader'[g].pc \in {"recv", "done"} /\ OnlyOf(g, reader, reader')
         /\ UNCHANGED <<forwards, made, fwd, out, last, stops, writer, conn, toTell,
                        hostReader, cause, host, hostSent, wire, delivered>>
<1>1. /\ reader[g].pc = "tell"
      /\ HostTakes(reader[g].host, reader[g].kind, reader[g].f)
      /\ reader' = [reader EXCEPT ![g] = IF conn[g] = "attached" THEN Idle ELSE Ended]
      /\ UNCHANGED <<forwards, made, fwd, out, last, stops, writer, conn, toTell,
                     hostReader, cause, host, hostSent, wire, delivered>>
  BY DEF ReaderTell, ReaderNext, relay, queues, sockets
<1>2. reader[g] \in ReaderRec
  BY DEF TypeOK
<1>3. reader[g].f = reader[g].host /\ reader[g].f \in Fwd
  BY <1>1, <1>2, ReaderRecords, Numbers DEF IInv, Streams, ReadersOwn
<1>. DEFINE f == reader[g].f
            v == IF reader[g].kind = "close" THEN 0 ELSE hostEnd[f]
<1>4. hostEnd' = [hostEnd EXCEPT ![f] = v]
  BY <1>1, <1>3 DEF HostTakes
<1>5. hostEnd'[f] = v /\ OnlyAt(f, hostEnd, hostEnd')
  <2>. HIDE DEF f, v
  <2>. QED BY <1>3, <1>4, Numbers DEF OnlyAt, TypeOK, f
<1>8. dialing' = IF reader[g].kind = "open" THEN dialing \cup {f} ELSE dialing
  BY <1>1 DEF HostTakes
<1>9. missed' = IF reader[g].kind = "close" THEN missed \cup (dialing \cap {f}) ELSE missed
  <2>1. \A d \in dialing : fwd[d].hostChan = d
    BY Dials
  <2>. QED BY <1>1, <1>3, <2>1 DEF HostTakes
<1>6. reader'[g].pc \in {"recv", "done"} /\ OnlyOf(g, reader, reader')
  BY <1>1 DEF OnlyOf, TypeOK, Idle, Ended
<1>7. reader[g].kind \in {"open", "data", "close"}
  BY <1>1, <1>2, ReaderRecords
<1>. QED BY <1>1, <1>3, <1>5, <1>6, <1>7, <1>8, <1>9

\* A reader that ends: ReaderTellFails, ReaderExit.
LEMMA ReaderEndsDoes ==
  ASSUME TypeOK, NEW g \in Guests, ReaderTellFails(g) \/ ReaderExit(g)
  PROVE  /\ reader'[g].pc = "done" /\ OnlyOf(g, reader, reader')
         /\ reader[g].pc = "recv" \/ host # "up" \/ conn[g] # "attached"
         /\ UNCHANGED <<forwards, made, fwd, out, last, stops, writer, conn, toTell,
                        hostReader, cause, host, hostEnd, dialing, missed, hostSent, wire, delivered>>
BY DEF ReaderTellFails, ReaderExit, TypeOK, OnlyOf, Ended, relay, queues, ends, sockets

LEMMA GuestLeaveDoes ==
  ASSUME TypeOK, NEW g \in Guests, GuestLeave(g)
  PROVE  /\ conn'[g] = "cancelled" /\ OnlyOf(g, conn, conn')
         /\ UNCHANGED <<forwards, made, fwd, out, last, stops, writer, reader, toTell,
                        hostReader, cause, host, hostEnd, dialing, missed, hostSent, wire, delivered>>
BY DEF GuestLeave, TypeOK, OnlyOf, relay, queues, ends, sockets

LEMMA GuestCleanupDoes ==
  ASSUME TypeOK, IInv, NEW g \in Guests, GuestCleanup(g)
  PROVE  /\ conn[g] = "cancelled" /\ conn'[g] = "cleaning" /\ OnlyOf(g, conn, conn')
         /\ \A k \in Fwd : /\ forwards'[k] \in {0, forwards[k]}
                           /\ fwd[k].guest # g => forwards'[k] = forwards[k]
                           /\ cause'[k] = cause[k] \/ (cause'[k] = "left" /\ forwards[k] # 0)
                           /\ forwards'[k] # 0 => cause'[k] = cause[k]
         /\ UNCHANGED <<made, fwd, out, last, stops, writer, reader, hostReader, host,
                        hostEnd, dialing, missed, hostSent, wire, delivered>>
<1>1. /\ conn[g] = "cancelled"
      /\ conn' = [conn EXCEPT ![g] = "cleaning"]
      /\ forwards' = [h \in HostChans |-> IF forwards[h] \in Owned(g) THEN 0 ELSE forwards[h]]
      /\ cause' = [f \in Fwd |-> IF f \in Owned(g) THEN "left" ELSE cause[f]]
      /\ UNCHANGED <<made, fwd, out, last, stops, writer, reader, hostReader, host,
                     hostEnd, dialing, missed, hostSent, wire, delivered>>
  BY DEF GuestCleanup, queues, ends, sockets
<1>2. \A f \in Fwd : f \in Owned(g) <=> forwards[f] # 0 /\ fwd[f].guest = g
  BY OwnedByGuest DEF IInv
<1>3. \A k \in Fwd : /\ forwards[k] \in {0, k} /\ k # 0
                     /\ forwards'[k] = IF forwards[k] \in Owned(g) THEN 0 ELSE forwards[k]
                     /\ cause'[k] = IF k \in Owned(g) THEN "left" ELSE cause[k]
  BY <1>1, Numbers DEF IInv, Numbering
<1>4. 0 \notin Owned(g)
  BY Numbers DEF Owned
<1>5. conn'[g] = "cleaning" /\ OnlyOf(g, conn, conn')
  BY <1>1 DEF OnlyOf, TypeOK
<1>. QED BY <1>1, <1>2, <1>3, <1>4, <1>5

LEMMA GuestTellDoes ==
  ASSUME TypeOK, IInv, NEW g \in Guests, NEW f \in Fwd, GuestTell(g, f)
  PROVE  /\ Tells(f) /\ forwards[f] = 0
         /\ stops'[f] = stops[f] + 1 /\ OnlyAt(f, stops, stops')
         /\ UNCHANGED <<forwards, made, fwd, out, last, writer, reader, conn, hostReader,
                        cause, host, hostSent, wire, delivered>>
<1>1. /\ f \in toTell[g] /\ TellHostEnded(fwd[f].hostChan)
      /\ stops' = [stops EXCEPT ![f] = @ + 1]
      /\ UNCHANGED <<forwards, made, fwd, out, last, writer, reader, conn, hostReader,
                     cause, host, hostSent, wire, delivered>>
  BY DEF GuestTell, relay, sockets
<1>2. f <= made /\ forwards[f] = 0
  BY <1>1 DEF IInv, StopState
<1>3. fwd[f].hostChan = f
  BY <1>2, Numbers DEF IInv, Numbering
<1>4. Tells(f)
  BY <1>1, <1>3, TellHostEndedDoes
<1>. QED BY <1>1, <1>2, <1>4 DEF OnlyAt, TypeOK

-----------------------------------------------------------------------------
(* The writers. *)

\* One frame goes from the head of one queue to the end of another.
LEMMA Pops ==
  ASSUME NEW S, NEW s \in Seq(S), s # <<>>
  PROVE  /\ Len(s) \in Nat \ {0} /\ DOMAIN s = 1..Len(s)
         /\ Head(s) = s[1] /\ s[1] \in S
         /\ Tail(s) \in Seq(S) /\ Len(Tail(s)) = Len(s) - 1
         /\ DOMAIN Tail(s) = 1..(Len(s) - 1)
         /\ \A i \in 1..(Len(s) - 1) : Tail(s)[i] = s[i + 1]
<1>1. Len(s) \in Nat \ {0} /\ DOMAIN s = 1..Len(s) /\ Head(s) = s[1] /\ s[1] \in S
  BY EmptySeq, LenProperties
<1>2. Tail(s) \in Seq(S) /\ Len(Tail(s)) = Len(s) - 1
  BY HeadTailProperties
<1>3. \A i \in 1..(Len(s) - 1) : Tail(s)[i] = s[i + 1]
  BY HeadTailProperties, <1>2
<1>4. DOMAIN Tail(s) = 1..(Len(s) - 1)
  <2>. DEFINE t == Tail(s)
  <2>. HIDE DEF t
  <2>1. t \in Seq(S) /\ Len(t) = Len(s) - 1
    BY <1>2 DEF t
  <2>2. DOMAIN t = 1..(Len(s) - 1)
    BY <2>1
  <2>. QED BY <2>2 DEF t
<1>. QED BY <1>1, <1>2, <1>3, <1>4

LEMMA Pushes ==
  ASSUME NEW S, NEW s \in Seq(S), NEW x \in S
  PROVE  /\ Len(s) \in Nat /\ DOMAIN s = 1..Len(s)
         /\ Append(s, x) \in Seq(S) /\ Len(Append(s, x)) = Len(s) + 1
         /\ DOMAIN Append(s, x) = 1..(Len(s) + 1)
         /\ \A i \in 1..Len(s) : Append(s, x)[i] = s[i]
         /\ Append(s, x)[Len(s) + 1] = x
BY AppendProperties, LenProperties

LEMMA Lines ==
  ASSUME TypeOK, NEW f \in Fwd
  PROVE  /\ out[f] \in Seq(Frame) /\ Len(out[f]) \in Nat
         /\ DOMAIN out[f] = 1..Len(out[f])
         /\ delivered[f] \in Seq(Frame) /\ Len(delivered[f]) \in Nat
         /\ DOMAIN delivered[f] = 1..Len(delivered[f])
         /\ out[f] = <<>> <=> Len(out[f]) = 0
BY EmptySeq, LenProperties DEF TypeOK

\* What a step does to one line, from the queue to the guest.
LineMoves(f) ==
  /\ Len(out[f]) \in Nat \ {0} /\ Len(out'[f]) = Len(out[f]) - 1
  /\ DOMAIN out[f] = 1..Len(out[f])
  /\ DOMAIN out'[f] = 1..(Len(out[f]) - 1)
  /\ out'[f] = <<>> <=> Len(out[f]) = 1
  /\ \A i \in 1..(Len(out[f]) - 1) : out'[f][i] = out[f][i + 1]
  /\ Len(delivered[f]) \in Nat /\ Len(delivered'[f]) = Len(delivered[f]) + 1
  /\ DOMAIN delivered[f] = 1..Len(delivered[f])
  /\ DOMAIN delivered'[f] = 1..(Len(delivered[f]) + 1)
  /\ \A i \in 1..Len(delivered[f]) : delivered'[f][i] = delivered[f][i]
  /\ delivered'[f][Len(delivered[f]) + 1] = out[f][1]

LEMMA DeliverHeadDoes ==
  ASSUME TypeOK, NEW f \in Fwd, DeliverHead(f)
  PROVE  /\ out[f] # <<>> /\ LineMoves(f)
         /\ OnlyAt(f, out, out') /\ OnlyAt(f, delivered, delivered')
<1>1. /\ out[f] # <<>>
      /\ out' = [out EXCEPT ![f] = Tail(out[f])]
      /\ delivered' = [delivered EXCEPT ![f] = Append(delivered[f], Head(out[f]))]
  BY DEF DeliverHead
<1>2. /\ out'[f] = Tail(out[f])
      /\ delivered'[f] = Append(delivered[f], Head(out[f]))
      /\ OnlyAt(f, out, out') /\ OnlyAt(f, delivered, delivered')
  BY <1>1 DEF TypeOK, OnlyAt
<1>3. out[f] \in Seq(Frame) /\ delivered[f] \in Seq(Frame)
  BY Lines
<1>. DEFINE t == Tail(out[f])
            d == Append(delivered[f], Head(out[f]))
<1>4. /\ Len(out[f]) \in Nat \ {0} /\ DOMAIN out[f] = 1..Len(out[f])
      /\ Head(out[f]) = out[f][1] /\ out[f][1] \in Frame
      /\ t \in Seq(Frame) /\ Len(t) = Len(out[f]) - 1
      /\ DOMAIN t = 1..(Len(out[f]) - 1)
      /\ \A i \in 1..(Len(out[f]) - 1) : t[i] = out[f][i + 1]
  BY <1>1, <1>3, Pops
<1>5. /\ Len(delivered[f]) \in Nat /\ DOMAIN delivered[f] = 1..Len(delivered[f])
      /\ Len(d) = Len(delivered[f]) + 1
      /\ DOMAIN d = 1..(Len(delivered[f]) + 1)
      /\ \A i \in 1..Len(delivered[f]) : d[i] = delivered[f][i]
      /\ d[Len(delivered[f]) + 1] = Head(out[f])
  BY <1>3, <1>4, Pushes
<1>6. out'[f] = t /\ delivered'[f] = d
  BY <1>2
<1>. HIDE DEF t, d
<1>7. t = <<>> <=> Len(out[f]) = 1
  <2>1. t = <<>> <=> Len(t) = 0
    BY <1>4, EmptySeq
  <2>. QED BY <1>4, <2>1
<1>. QED BY <1>1, <1>2, <1>4, <1>5, <1>6, <1>7 DEF LineMoves

LEMMA SendDoes ==
  ASSUME TypeOK, NEW f \in Fwd, WriterSend(f) \/ FlushSend(f)
  PROVE  /\ writer[f] \in {"running", "flushing"}
         /\ out[f] # <<>> /\ LineMoves(f)
         /\ OnlyAt(f, out, out') /\ OnlyAt(f, delivered, delivered')
         /\ UNCHANGED <<forwards, made, fwd, last, stops, writer, reader, conn, toTell,
                        hostReader, cause, host, hostEnd, dialing, missed, hostSent, wire>>
<1>1. DeliverHead(f)
  BY DEF WriterSend, FlushSend
<1>. QED BY <1>1, DeliverHeadDoes DEF WriterSend, FlushSend, relay, sockets

LEMMA WriterSendFailsDoes ==
  ASSUME TypeOK, NEW f \in Fwd, WriterSendFails(f)
  PROVE  /\ writer[f] = "running" /\ writer'[f] = "failing"
         /\ OnlyAt(f, writer, writer') /\ out[f] # <<>> /\ OnlyAt(f, out, out')
         /\ UNCHANGED <<forwards, made, fwd, last, stops, reader, conn, toTell,
                        hostReader, cause, host, hostEnd, dialing, missed, hostSent, wire, delivered>>
BY DEF WriterSendFails, TypeOK, OnlyAt, relay, ends, sockets

LEMMA WriterFailCloseDoes ==
  ASSUME TypeOK, IInv, NEW f \in Fwd, WriterFailClose(f)
  PROVE  /\ Removes(f, "write")
         /\ writer[f] = "failing" /\ writer'[f] = "telling" /\ OnlyAt(f, writer, writer')
         /\ UNCHANGED <<made, fwd, out, last, reader, conn, toTell,
                        hostReader, host, hostEnd, dialing, missed, hostSent, wire, delivered>>
<1>1. /\ writer[f] = "failing" /\ CloseForward(fwd[f].hostChan, "write")
      /\ writer' = [writer EXCEPT ![f] = "telling"]
      /\ UNCHANGED <<made, fwd, out, last, reader, conn, toTell,
                     hostReader, host, hostEnd, dialing, missed, hostSent, wire, delivered>>
  BY DEF WriterFailClose, ends, sockets
<1>2. fwd[f].hostChan = f
  BY <1>1, Numbers DEF IInv, Numbering, WritersMade
<1>3. Removes(f, "write")
  BY <1>1, <1>2, CloseForwardDoes
<1>. QED BY <1>1, <1>3 DEF OnlyAt, TypeOK

LEMMA WriterFailTellDoes ==
  ASSUME TypeOK, IInv, NEW f \in Fwd, WriterFailTell(f)
  PROVE  /\ writer[f] = "telling" /\ writer'[f] = "broken" /\ OnlyAt(f, writer, writer')
         /\ Tells(f) \/ (conn[fwd[f].guest] # "attached" /\ UNCHANGED <<hostEnd, dialing, missed>>)
         /\ UNCHANGED <<forwards, made, fwd, out, last, stops, reader, conn, toTell,
                        hostReader, cause, host, hostSent, wire, delivered>>
<1>1. /\ writer[f] = "telling"
      /\ \/ TellHostEnded(fwd[f].hostChan)
         \/ conn[fwd[f].guest] # "attached" /\ UNCHANGED <<hostEnd, dialing, missed>>
      /\ writer' = [writer EXCEPT ![f] = "broken"]
      /\ UNCHANGED <<forwards, made, fwd, out, last, stops, reader, conn, toTell,
                     hostReader, cause, host, hostSent, wire, delivered>>
  BY DEF WriterFailTell, relay, sockets
<1>2. fwd[f].hostChan = f
  BY <1>1, Numbers DEF IInv, Numbering, WritersMade
<1>3. Tells(f) \/ (conn[fwd[f].guest] # "attached" /\ UNCHANGED <<hostEnd, dialing, missed>>)
  BY <1>1, <1>2, TellHostEndedDoes
<1>. QED BY <1>1, <1>3 DEF OnlyAt, TypeOK

\* A writer that only moves on: WriterStopped, WriterCancelled, FlushFails.
LEMMA WriterMovesDoes ==
  ASSUME TypeOK, NEW f \in Fwd, WriterStopped(f) \/ WriterCancelled(f) \/ FlushFails(f)
  PROVE  /\ \/ writer[f] = "running" /\ writer'[f] = "flushing" /\ stops[f] > 0
            \/ /\ writer[f] = "running" /\ writer'[f] = "done"
               /\ conn[fwd[f].guest] # "attached"
            \/ /\ writer[f] = "flushing" /\ writer'[f] = "broken"
               /\ out[f] # <<>> \/ last[f]
         /\ OnlyAt(f, writer, writer')
         /\ UNCHANGED <<forwards, made, fwd, out, last, stops, reader, conn, toTell,
                        hostReader, cause, host, hostEnd, dialing, missed, hostSent, wire, delivered>>
BY DEF WriterStopped, WriterCancelled, FlushFails, TypeOK, OnlyAt, relay, ends, sockets

\* The relay's own notice is one more frame on the line, the CLOSE.
Notice(f) ==
  /\ Len(delivered[f]) \in Nat /\ Len(delivered'[f]) = Len(delivered[f]) + 1
  /\ DOMAIN delivered[f] = 1..Len(delivered[f])
  /\ DOMAIN delivered'[f] = 1..(Len(delivered[f]) + 1)
  /\ \A i \in 1..Len(delivered[f]) : delivered'[f][i] = delivered[f][i]
  /\ delivered'[f][Len(delivered[f]) + 1].n = CLOSE
  /\ delivered'[f] # <<>>

LEMMA FlushLastDoes ==
  ASSUME TypeOK, NEW f \in Fwd, FlushLast(f)
  PROVE  /\ writer[f] = "flushing" /\ writer'[f] = "done" /\ OnlyAt(f, writer, writer')
         /\ out[f] = <<>>
         /\ last'[f] = FALSE /\ OnlyAt(f, last, last')
         /\ last[f] => Notice(f)
         /\ ~last[f] => delivered'[f] = delivered[f]
         /\ OnlyAt(f, delivered, delivered')
         /\ UNCHANGED <<forwards, made, fwd, out, stops, reader, conn, toTell,
                        hostReader, cause, host, hostEnd, dialing, missed, hostSent, wire>>
<1>0. [f |-> f, n |-> CLOSE] \in Frame
  BY DEF Frame, Fwd, Payload, CLOSE
<1>. DEFINE x == [f |-> f, n |-> CLOSE]
            d == Append(delivered[f], x)
<1>1. /\ writer[f] = "flushing" /\ out[f] = <<>>
      /\ last[f] => delivered' = [delivered EXCEPT ![f] = d]
      /\ ~last[f] => delivered' = delivered
      /\ last' = [last EXCEPT ![f] = FALSE]
      /\ writer' = [writer EXCEPT ![f] = "done"]
      /\ UNCHANGED <<forwards, made, fwd, out, stops, reader, conn, toTell,
                     hostReader, cause, host, hostEnd, dialing, missed, hostSent, wire>>
  BY DEF FlushLast, relay, sockets
<1>2. x \in Frame /\ x.n = CLOSE
  BY <1>0
<1>3. delivered[f] \in Seq(Frame)
  BY Lines
<1>. HIDE DEF x
<1>4. /\ Len(delivered[f]) \in Nat /\ DOMAIN delivered[f] = 1..Len(delivered[f])
      /\ d \in Seq(Frame) /\ Len(d) = Len(delivered[f]) + 1
      /\ DOMAIN d = 1..(Len(delivered[f]) + 1)
      /\ \A i \in 1..Len(delivered[f]) : d[i] = delivered[f][i]
      /\ d[Len(delivered[f]) + 1] = x
  BY <1>2, <1>3, Pushes
<1>. HIDE DEF d
<1>5. d # <<>>
  BY <1>4, EmptySeq
<1>6. last[f] => delivered'[f] = d
  BY <1>1 DEF TypeOK
<1>7. last[f] => Notice(f)
  BY <1>2, <1>4, <1>5, <1>6 DEF Notice
<1>. QED BY <1>1, <1>7 DEF OnlyAt, TypeOK

\* What a writer's step leaves alone, whichever it is.
LEMMA WriterOthers ==
  ASSUME TypeOK, IInv, NEW k \in Fwd, WriterStep(k)
  PROVE  /\ OnlyAt(k, writer, writer') /\ OnlyAt(k, out, out') /\ OnlyAt(k, last, last')
         /\ OnlyAt(k, delivered, delivered') /\ OnlyAt(k, hostEnd, hostEnd')
         /\ OnlyAt(k, forwards, forwards') /\ OnlyAt(k, cause, cause')
         /\ OnlyAt(k, stops, stops')
         /\ hostEnd'[k] \in {0, hostEnd[k]} /\ forwards'[k] \in {0, forwards[k]}
         /\ UNCHANGED <<made, fwd, reader, conn, toTell, hostReader, host, dialing, hostSent,
                        wire>>
<1>1. CASE WriterSend(k) \/ FlushSend(k)
  BY <1>1, SendDoes DEF OnlyAt
<1>2. CASE WriterSendFails(k)
  BY <1>2, WriterSendFailsDoes DEF OnlyAt
<1>3. CASE WriterFailClose(k)
  BY <1>3, WriterFailCloseDoes DEF OnlyAt, Removes
<1>4. CASE WriterFailTell(k)
  BY <1>4, WriterFailTellDoes DEF OnlyAt, Tells
<1>5. CASE WriterStopped(k) \/ WriterCancelled(k) \/ FlushFails(k)
  BY <1>5, WriterMovesDoes DEF OnlyAt
<1>6. CASE FlushLast(k)
  BY <1>6, FlushLastDoes DEF OnlyAt
<1>. QED BY <1>1, <1>2, <1>3, <1>4, <1>5, <1>6 DEF WriterStep

-----------------------------------------------------------------------------
(* The host and its reader. *)

\* The host's reader, with a frame in hand.
LEMMA Holding ==
  ASSUME TypeOK, IInv, hostReader.pc # "recv"
  PROVE  /\ hostReader.src \in Fwd /\ hostReader.f = hostReader.src
         /\ hostReader.chan = hostReader.src /\ hostReader.n \in Payload
         /\ hostReader \in [pc : {"queue", "retire", "last", "retireClose", "retireTell",
                                  "close"},
                            chan : HostChans, f : Fwd, src : Fwd, n : Payload]
<1>1. hostReader \in [pc : {"queue", "retire", "last", "retireClose", "retireTell", "close"},
                      chan : HostChans, f : Fwd, src : Fwd, n : Payload]
  BY DEF TypeOK, HostReaderRec, HIdle
<1>2. hostReader.src \in Fwd /\ hostReader.n \in Payload
  BY <1>1
<1>. QED BY <1>1, <1>2 DEF IInv, Streams, HostReaderOwn

LEMMA Waiting ==
  ASSUME TypeOK, hostReader.pc = "recv"
  PROVE  hostReader = HIdle
BY DEF TypeOK, HostReaderRec, HIdle

LEMMA Wire ==
  ASSUME TypeOK, IInv
  PROVE  /\ wire \in Seq(WireFrame) /\ Len(wire) \in Nat /\ DOMAIN wire = 1..Len(wire)
         /\ \A i \in DOMAIN wire : /\ wire[i].f \in Fwd /\ wire[i].chan = wire[i].f
                                   /\ wire[i].n \in Payload
<1>1. wire \in Seq(WireFrame) /\ Len(wire) \in Nat /\ DOMAIN wire = 1..Len(wire)
  BY LenProperties DEF TypeOK
<1>2. \A i \in DOMAIN wire : wire[i] \in WireFrame
  BY <1>1
<1>. QED BY <1>1, <1>2 DEF WireFrame, IInv, Streams, WireOwn

\* The wire gives up its head.
WireMoves ==
  /\ Len(wire) \in Nat \ {0}
  /\ DOMAIN wire = 1..Len(wire) /\ DOMAIN wire' = 1..(Len(wire) - 1)
  /\ \A i \in 1..(Len(wire) - 1) : wire'[i] = wire[i + 1]

LEMMA WireTail ==
  ASSUME WireMoves
  PROVE  /\ 1 \in DOMAIN wire
         /\ \A i \in DOMAIN wire' : i \in Nat /\ i + 1 \in DOMAIN wire /\ wire'[i] = wire[i + 1]
         /\ \A i \in DOMAIN wire : i # 1 => i - 1 \in DOMAIN wire' /\ wire'[i - 1] = wire[i]
<1>1. /\ Len(wire) \in Nat \ {0}
      /\ DOMAIN wire = 1..Len(wire) /\ DOMAIN wire' = 1..(Len(wire) - 1)
      /\ \A i \in 1..(Len(wire) - 1) : wire'[i] = wire[i + 1]
  BY DEF WireMoves
<1>2. ASSUME NEW i \in DOMAIN wire'
      PROVE  i \in Nat /\ i + 1 \in DOMAIN wire /\ wire'[i] = wire[i + 1]
  BY <1>1, <1>2
<1>3. ASSUME NEW i \in DOMAIN wire, i # 1
      PROVE  i - 1 \in DOMAIN wire' /\ wire'[i - 1] = wire[i]
  <2>1. i \in 1..Len(wire) /\ i - 1 \in 1..(Len(wire) - 1) /\ (i - 1) + 1 = i
    BY <1>1, <1>3
  <2>. QED BY <1>1, <2>1
<1>. QED BY <1>1, <1>2, <1>3

LEMMA HostRecvDoes ==
  ASSUME TypeOK, IInv, HostRecv
  PROVE  /\ hostReader.pc = "recv" /\ WireMoves
         /\ forwards[wire[1].f] = 0 => hostReader' = HIdle
         /\ forwards[wire[1].f] # 0 =>
              /\ hostReader'.pc = "queue" /\ hostReader'.src = wire[1].f
              /\ hostReader'.n = wire[1].n
         /\ UNCHANGED <<forwards, made, fwd, out, last, stops, writer, reader, conn, toTell,
                        cause, host, hostEnd, dialing, missed, hostSent, delivered>>
<1>1. /\ hostReader.pc = "recv" /\ wire # <<>> /\ wire' = Tail(wire)
      /\ hostReader' = IF forwards[Head(wire).chan] = 0
                       THEN HIdle
                       ELSE [pc |-> "queue", chan |-> Head(wire).chan,
                             f |-> forwards[Head(wire).chan],
                             src |-> Head(wire).f, n |-> Head(wire).n]
      /\ UNCHANGED <<forwards, made, fwd, out, last, stops, writer, reader, conn, toTell,
                     cause, host, hostEnd, dialing, missed, hostSent, delivered>>
  BY DEF HostRecv, relay, queues, sockets
<1>2. wire \in Seq(WireFrame)
  BY Wire
<1>. DEFINE t == Tail(wire)
<1>3. /\ Len(wire) \in Nat \ {0} /\ DOMAIN wire = 1..Len(wire) /\ Head(wire) = wire[1]
      /\ DOMAIN t = 1..(Len(wire) - 1)
      /\ \A i \in 1..(Len(wire) - 1) : t[i] = wire[i + 1]
  BY <1>1, <1>2, Pops
<1>4. wire' = t
  BY <1>1
<1>. HIDE DEF t
<1>5. WireMoves
  BY <1>3, <1>4 DEF WireMoves
<1>6. wire[1].chan = wire[1].f
  BY <1>3, Wire
<1>. QED BY <1>1, <1>3, <1>5, <1>6

\* The host's reader turns to another task with the same frame.
Turns(p) == hostReader'.pc = p /\ hostReader'.src = hostReader.src /\ hostReader'.n = hostReader.n
              /\ hostReader'.chan = hostReader.chan

LEMMA Turning ==
  ASSUME TypeOK, IInv, hostReader.pc # "recv"
  PROVE  \A p \in {"close", "retire", "retireClose", "retireTell"} :
           hostReader' = [hostReader EXCEPT !.pc = p] => Turns(p)
BY Holding DEF Turns

\* A line takes a frame from the host.
LineTakes(f, n) ==
  /\ Len(out[f]) \in Nat /\ Len(out'[f]) = Len(out[f]) + 1
  /\ DOMAIN out[f] = 1..Len(out[f]) /\ DOMAIN out'[f] = 1..(Len(out[f]) + 1)
  /\ out'[f] # <<>>
  /\ \A i \in 1..Len(out[f]) : out'[f][i] = out[f][i]
  /\ out'[f][Len(out[f]) + 1].n = n

LEMMA HostQueueDoes ==
  ASSUME TypeOK, IInv, HostQueue
  PROVE  /\ hostReader.pc = "queue" /\ hostReader.src \in Fwd
         /\ LineTakes(hostReader.src, hostReader.n) /\ OnlyAt(hostReader.src, out, out')
         /\ hostReader.n = CLOSE => Turns("close")
         /\ hostReader.n # CLOSE => hostReader' = HIdle
         /\ UNCHANGED <<forwards, made, fwd, last, stops, writer, reader, conn, toTell,
                        cause, host, hostEnd, dialing, missed, hostSent, wire, delivered>>
<1>. DEFINE f == hostReader.src
            x == [f |-> hostReader.src, n |-> hostReader.n]
            q == Append(out[f], x)
<1>1. hostReader.pc = "queue"
  BY DEF HostQueue
<1>2. /\ f \in Fwd /\ hostReader.f = f /\ x \in Frame
  BY <1>1, Holding DEF Frame
<1>3. /\ out' = [out EXCEPT ![f] = q]
      /\ hostReader.n = CLOSE => hostReader' = [hostReader EXCEPT !.pc = "close"]
      /\ hostReader.n # CLOSE => hostReader' = HIdle
      /\ UNCHANGED <<forwards, made, fwd, last, stops, writer, reader, conn, toTell,
                     cause, host, hostEnd, dialing, missed, hostSent, wire, delivered>>
  BY <1>2 DEF HostQueue, relay, ends, sockets
<1>4. hostReader.n = CLOSE => Turns("close")
  BY <1>1, <1>3, Turning
<1>5. x.n = hostReader.n
  OBVIOUS
<1>6. out[f] \in Seq(Frame)
  BY <1>2, Lines
<1>. HIDE DEF x
<1>7. /\ Len(out[f]) \in Nat /\ DOMAIN out[f] = 1..Len(out[f])
      /\ q \in Seq(Frame) /\ Len(q) = Len(out[f]) + 1
      /\ DOMAIN q = 1..(Len(out[f]) + 1)
      /\ \A i \in 1..Len(out[f]) : q[i] = out[f][i]
      /\ q[Len(out[f]) + 1] = x
  BY <1>2, <1>6, Pushes
<1>. HIDE DEF q
<1>8. q # <<>>
  BY <1>7, EmptySeq
<1>9. out'[f] = q /\ OnlyAt(f, out, out')
  <2>. HIDE DEF f
  <2>. QED BY <1>2, <1>3 DEF TypeOK, OnlyAt
<1>10. LineTakes(f, hostReader.n)
  BY <1>5, <1>7, <1>8, <1>9 DEF LineTakes
<1>. QED BY <1>1, <1>2, <1>3, <1>4, <1>9, <1>10

LEMMA HostQueueFullDoes ==
  ASSUME TypeOK, IInv, HostQueueFull
  PROVE  /\ hostReader.pc = "queue" /\ hostReader.src \in Fwd
         /\ hostReader.n = CLOSE => Turns("close")
         /\ hostReader.n # CLOSE => Turns("retire")
         /\ UNCHANGED <<forwards, made, fwd, out, last, stops, writer, reader, conn, toTell,
                        cause, host, hostEnd, dialing, missed, hostSent, wire, delivered>>
<1>1. /\ hostReader.pc = "queue"
      /\ hostReader.n = CLOSE => hostReader' = [hostReader EXCEPT !.pc = "close"]
      /\ hostReader.n # CLOSE => hostReader' = [hostReader EXCEPT !.pc = "retire"]
      /\ UNCHANGED <<forwards, made, fwd, out, last, stops, writer, reader, conn, toTell,
                     cause, host, hostEnd, dialing, missed, hostSent, wire, delivered>>
  BY DEF HostQueueFull, relay, queues, ends, sockets
<1>. QED BY <1>1, Turning, Holding

LEMMA HostRetireDoes ==
  ASSUME TypeOK, IInv, HostRetire
  PROVE  /\ hostReader.pc = "retire" /\ hostReader.src \in Fwd
         /\ forwards[hostReader.src] = 0 => hostReader' = HIdle
         /\ forwards[hostReader.src] # 0 => Turns("last")
         /\ UNCHANGED <<forwards, made, fwd, out, last, stops, writer, reader, conn, toTell,
                        cause, host, hostEnd, dialing, missed, hostSent, wire, delivered>>
<1>1. /\ hostReader.pc = "retire"
      /\ forwards[hostReader.chan] = 0 => hostReader' = HIdle
      /\ forwards[hostReader.chan] # 0 =>
           hostReader' = [hostReader EXCEPT !.pc = "last", !.f = forwards[hostReader.chan]]
      /\ UNCHANGED <<forwards, made, fwd, out, last, stops, writer, reader, conn, toTell,
                     cause, host, hostEnd, dialing, missed, hostSent, wire, delivered>>
  BY DEF HostRetire, relay, queues, ends, sockets
<1>2. /\ hostReader.chan = hostReader.src /\ hostReader.src \in Fwd
      /\ hostReader \in [pc : {"queue", "retire", "last", "retireClose", "retireTell",
                               "close"},
                         chan : HostChans, f : Fwd, src : Fwd, n : Payload]
  BY <1>1, Holding
<1>3. \A k : hostReader' = [hostReader EXCEPT !.pc = "last", !.f = k] => Turns("last")
  BY <1>2 DEF Turns
<1>. QED BY <1>1, <1>2, <1>3

LEMMA HostRetireLastDoes ==
  ASSUME TypeOK, IInv, HostRetireLast
  PROVE  /\ hostReader.pc = "last" /\ hostReader.src \in Fwd
         /\ Turns("retireClose")
         /\ last'[hostReader.src] = TRUE /\ OnlyAt(hostReader.src, last, last')
         /\ UNCHANGED <<forwards, made, fwd, out, stops, writer, reader, conn, toTell,
                        cause, host, hostEnd, dialing, missed, hostSent, wire, delivered>>
<1>1. /\ hostReader.pc = "last"
      /\ hostReader' = [hostReader EXCEPT !.pc = "retireClose"]
      /\ last' = [last EXCEPT ![hostReader.f] = TRUE]
      /\ UNCHANGED <<forwards, made, fwd, out, stops, writer, reader, conn, toTell,
                     cause, host, hostEnd, dialing, missed, hostSent, wire, delivered>>
  BY DEF HostRetireLast, relay, ends, sockets
<1>2. hostReader.f = hostReader.src /\ hostReader.src \in Fwd
  BY <1>1, Holding
<1>3. Turns("retireClose")
  BY <1>1, Turning
<1>. QED BY <1>1, <1>2, <1>3 DEF OnlyAt, TypeOK

\* closeForward by the host's reader: HostRetireClose and HostClose.
LEMMA HostRetireCloseDoes ==
  ASSUME TypeOK, IInv, HostRetireClose
  PROVE  /\ hostReader.pc = "retireClose" /\ hostReader.src \in Fwd
         /\ Turns("retireTell") /\ Removes(hostReader.src, "retired")
         /\ hostReader.chan = hostReader.src
         /\ UNCHANGED <<made, fwd, out, last, writer, reader, conn, toTell,
                        host, hostEnd, dialing, missed, hostSent, wire, delivered>>
<1>1. /\ hostReader.pc = "retireClose" /\ CloseForward(hostReader.chan, "retired")
      /\ hostReader' = [hostReader EXCEPT !.pc = "retireTell"]
      /\ UNCHANGED <<made, fwd, out, last, writer, reader, conn, toTell,
                     host, hostEnd, dialing, missed, hostSent, wire, delivered>>
  BY DEF HostRetireClose, ends, sockets
<1>2. hostReader.chan = hostReader.src /\ hostReader.src \in Fwd
  BY <1>1, Holding
<1>. QED BY <1>1, <1>2, Turning, CloseForwardDoes

LEMMA HostCloseDoes ==
  ASSUME TypeOK, IInv, HostClose
  PROVE  /\ hostReader.pc = "close" /\ hostReader.src \in Fwd
         /\ hostReader' = HIdle /\ Removes(hostReader.src, "host")
         /\ UNCHANGED <<made, fwd, out, last, writer, reader, conn, toTell,
                        host, hostEnd, dialing, missed, hostSent, wire, delivered>>
<1>1. /\ hostReader.pc = "close" /\ CloseForward(hostReader.chan, "host")
      /\ hostReader' = HIdle
      /\ UNCHANGED <<made, fwd, out, last, writer, reader, conn, toTell,
                     host, hostEnd, dialing, missed, hostSent, wire, delivered>>
  BY DEF HostClose, ends, sockets
<1>2. hostReader.chan = hostReader.src /\ hostReader.src \in Fwd
  BY <1>1, Holding
<1>. QED BY <1>1, <1>2, CloseForwardDoes

LEMMA HostRetireTellDoes ==
  ASSUME TypeOK, IInv, HostRetireTell
  PROVE  /\ hostReader.pc = "retireTell" /\ hostReader.src \in Fwd
         /\ hostReader.chan = hostReader.src
         /\ hostReader' = HIdle /\ Tells(hostReader.src)
         /\ UNCHANGED <<forwards, made, fwd, out, last, stops, writer, reader, conn, toTell,
                        cause, host, hostSent, wire, delivered>>
<1>1. /\ hostReader.pc = "retireTell" /\ TellHostEnded(hostReader.chan)
      /\ hostReader' = HIdle
      /\ UNCHANGED <<forwards, made, fwd, out, last, stops, writer, reader, conn, toTell,
                     cause, host, hostSent, wire, delivered>>
  BY DEF HostRetireTell, relay, queues, sockets
<1>2. hostReader.chan = hostReader.src /\ hostReader.src \in Fwd
  BY <1>1, Holding
<1>. QED BY <1>1, <1>2, TellHostEndedDoes

\* A frame n of forward h joins the wire.
WireTakes(h, n) ==
  /\ Len(wire) \in Nat
  /\ DOMAIN wire = 1..Len(wire) /\ DOMAIN wire' = 1..(Len(wire) + 1)
  /\ \A i \in 1..Len(wire) : wire'[i] = wire[i]
  /\ wire'[Len(wire) + 1].f = h /\ wire'[Len(wire) + 1].n = n

LEMMA Appended ==
  ASSUME TypeOK, IInv, NEW h \in Fwd, NEW n \in Payload,
         wire' = Append(wire, [chan |-> h, f |-> h, n |-> n])
  PROVE  WireTakes(h, n)
<1>. DEFINE w == [chan |-> h, f |-> h, n |-> n]
            t == Append(wire, w)
<1>1. w \in WireFrame /\ w.f = h /\ w.n = n
  BY Numbers DEF WireFrame
<1>2. wire \in Seq(WireFrame)
  BY Wire
<1>. HIDE DEF w
<1>3. /\ Len(wire) \in Nat /\ DOMAIN wire = 1..Len(wire)
      /\ DOMAIN t = 1..(Len(wire) + 1)
      /\ \A i \in 1..Len(wire) : t[i] = wire[i]
      /\ t[Len(wire) + 1] = w
  BY <1>1, <1>2, Pushes
<1>4. wire' = t
  BY DEF w
<1>. HIDE DEF t
<1>. QED BY <1>1, <1>3, <1>4 DEF WireTakes

LEMMA HostSendsDoes ==
  ASSUME TypeOK, IInv, NEW h \in Fwd, HostSends(h)
  PROVE  /\ hostEnd[h] = h
         /\ hostSent[h] \in Nat /\ hostSent'[h] = hostSent[h] + 1
         /\ OnlyAt(h, hostSent, hostSent')
         /\ WireTakes(h, hostSent[h] + 1)
         /\ UNCHANGED <<forwards, made, fwd, out, last, stops, writer, reader, conn, toTell,
                        hostReader, cause, host, hostEnd, dialing, missed, delivered>>
<1>1. hostEnd[h] = h
  BY Numbers DEF HostSends, IInv, Streams, EndsOwn
<1>2. hostSent[h] \in 0..MaxData
  BY DEF TypeOK
<1>3. /\ hostSent[h] < MaxData
      /\ hostSent' = [hostSent EXCEPT ![h] = hostSent[h] + 1]
      /\ wire' = Append(wire, [chan |-> h, f |-> h, n |-> hostSent[h] + 1])
      /\ UNCHANGED <<forwards, made, fwd, out, last, stops, writer, reader, conn, toTell,
                     hostReader, cause, host, hostEnd, dialing, missed, delivered>>
  BY <1>1 DEF HostSends, relay, queues, sockets
<1>4. hostSent[h] + 1 \in Payload
  BY <1>2, <1>3 DEF Payload
<1>5. WireTakes(h, hostSent[h] + 1)
  BY <1>3, <1>4, Appended
<1>. QED BY <1>1, <1>2, <1>3, <1>5 DEF OnlyAt, TypeOK

LEMMA HostSendsCloseDoes ==
  ASSUME TypeOK, IInv, NEW h \in Fwd, HostSendsClose(h)
  PROVE  /\ hostEnd[h] = h /\ hostEnd'[h] = 0 /\ OnlyAt(h, hostEnd, hostEnd')
         /\ WireTakes(h, CLOSE)
         /\ UNCHANGED <<forwards, made, fwd, out, last, stops, writer, reader, conn, toTell,
                        hostReader, cause, host, dialing, missed, hostSent, delivered>>
<1>1. hostEnd[h] = h
  BY Numbers DEF HostSendsClose, IInv, Streams, EndsOwn
<1>2. /\ hostEnd' = [hostEnd EXCEPT ![h] = 0]
      /\ wire' = Append(wire, [chan |-> h, f |-> h, n |-> CLOSE])
      /\ UNCHANGED <<forwards, made, fwd, out, last, stops, writer, reader, conn, toTell,
                     hostReader, cause, host, dialing, missed, hostSent, delivered>>
  BY <1>1 DEF HostSendsClose, relay, queues
<1>3. CLOSE \in Payload
  BY DEF CLOSE, Payload
<1>4. WireTakes(h, CLOSE)
  BY <1>2, <1>3, Appended
<1>. QED BY <1>1, <1>2, <1>4, Numbers DEF OnlyAt, TypeOK

LEMMA DialSucceedsDoes ==
  ASSUME TypeOK, IInv, NEW f \in Fwd, DialSucceeds(f)
  PROVE  /\ f \in dialing /\ dialing' = dialing \ {f}
         /\ hostEnd[f] = 0 /\ hostEnd'[f] = f /\ OnlyAt(f, hostEnd, hostEnd')
         /\ UNCHANGED <<forwards, made, fwd, out, last, stops, writer, reader, conn, toTell,
                        hostReader, cause, host, missed, hostSent, wire, delivered>>
<1>1. fwd[f].hostChan = f
  BY Dials DEF DialSucceeds
<1>. QED BY <1>1, Numbers DEF DialSucceeds, OnlyAt, TypeOK, relay, queues

\* The host says its last word on a forward: HostSendsClose and DialFails.
HostFinishes(h) == HostSendsClose(h) \/ DialFails(h)

LEMMA HostFinishesDoes ==
  ASSUME TypeOK, IInv, Begins, NEW h \in Fwd, HostFinishes(h)
  PROVE  /\ hostEnd[h] = h \/ h \in dialing
         /\ hostEnd'[h] = 0 /\ OnlyAt(h, hostEnd, hostEnd')
         /\ dialing' = dialing \ {h}
         /\ WireTakes(h, CLOSE)
         /\ UNCHANGED <<forwards, made, fwd, out, last, stops, writer, reader, conn, toTell,
                        hostReader, cause, host, missed, hostSent, delivered>>
<1>1. CASE HostSendsClose(h)
  <2>1. h \notin dialing
    BY <1>1, HostSendsCloseDoes, Numbers DEF Begins, Silent
  <2>. QED BY <1>1, <2>1, HostSendsCloseDoes
<1>2. CASE DialFails(h)
  <2>1. /\ h \in dialing /\ dialing' = dialing \ {h}
        /\ wire' = Append(wire, [chan |-> fwd[h].hostChan, f |-> h, n |-> CLOSE])
        /\ UNCHANGED <<forwards, made, fwd, out, last, stops, writer, reader, conn, toTell,
                       hostReader, cause, host, hostEnd, missed, hostSent, delivered>>
    BY <1>2 DEF DialFails, relay, queues
  <2>2. fwd[h].hostChan = h /\ hostEnd[h] = 0
    BY <2>1, Dials DEF Begins, Silent
  <2>3. CLOSE \in Payload
    BY DEF CLOSE, Payload
  <2>4. WireTakes(h, CLOSE)
    BY <2>1, <2>2, <2>3, Appended
  <2>. QED BY <2>1, <2>2, <2>4 DEF OnlyAt
<1>. QED BY <1>1, <1>2 DEF HostFinishes

\* HostBreaks and BridgeClose: the host is up no longer.
LEMMA HostGoesDoes ==
  ASSUME HostBreaks \/ BridgeClose
  PROVE  /\ host' # "up"
         /\ UNCHANGED <<forwards, made, fwd, out, last, stops, writer, reader, conn, toTell,
                        hostReader, cause, hostEnd, dialing, missed, hostSent, wire, delivered>>
BY DEF HostBreaks, BridgeClose, relay, queues, sockets

-----------------------------------------------------------------------------
(* Begins: a forward is silent until its OPEN was told.                      *)

\* The steps of the system, one disjunct for each.
LEMMA Steps ==
  ASSUME TypeOK, Next
  PROVE  \/ \E g \in Guests, c \in Channels : GuestOpen(g, c)
         \/ \E g \in Guests, c \in Channels, k \in {"data", "close"} : GuestFrame(g, c, k)
         \/ \E g \in Guests : ReaderClose(g)
         \/ \E g \in Guests : ReaderTell(g)
         \/ \E g \in Guests : ReaderTellFails(g) \/ ReaderExit(g)
         \/ \E g \in Guests : GuestLeave(g)
         \/ \E g \in Guests : GuestCleanup(g)
         \/ \E g \in Guests, f \in Fwd : GuestTell(g, f)
         \/ \E f \in Fwd : WriterStep(f)
         \/ HostRecv \/ HostQueue \/ HostQueueFull \/ HostRetire \/ HostRetireLast
         \/ HostRetireClose \/ HostRetireTell \/ HostClose
         \/ \E h \in Fwd : HostSends(h)
         \/ \E h \in Fwd : HostFinishes(h)
         \/ HostBreaks \/ BridgeClose
         \/ \E f \in Fwd : DialSucceeds(f)
BY Numbers DEF Next, ReaderStep, TeardownStep, HostRouteStep, HostFinishes

\* A silent forward stays silent while the host does not dial its target.
LEMMA SilentKept ==
  ASSUME TypeOK, IInv, Begins, Next, NEW f \in Fwd, Silent(f), f \in dialing => f \in dialing'
  PROVE  Silent(f)'
<1>. /\ hostEnd[f] = 0 /\ hostSent[f] = 0 /\ ~HostHolds(f)
     /\ \A i \in DOMAIN wire : wire[i].f # f
     /\ out[f] = <<>> /\ delivered[f] = <<>> /\ last[f] = FALSE
     /\ writer[f] \notin {"failing", "telling", "broken"}
  <2>1. last[f] \in BOOLEAN
    BY DEF TypeOK
  <2>. QED BY <2>1 DEF Silent
<1>1. ASSUME NEW g \in Guests, NEW c \in Channels, GuestOpen(g, c)
      PROVE  Silent(f)'
  BY <1>1, GuestOpenDoes DEF Silent, HostHolds, OnlyAt
<1>2. ASSUME NEW g \in Guests, NEW c \in Channels, NEW k \in {"data", "close"},
             GuestFrame(g, c, k)
      PROVE  Silent(f)'
  BY <1>2, GuestFrameDoes DEF Silent, HostHolds
<1>3. ASSUME NEW g \in Guests, ReaderClose(g)
      PROVE  Silent(f)'
  BY <1>3, ReaderCloseDoes DEF Silent, HostHolds
<1>4. ASSUME NEW g \in Guests, ReaderTell(g)
      PROVE  Silent(f)'
  <2>1. hostEnd'[f] = 0
    BY <1>4, ReaderTellDoes DEF OnlyAt
  <2>. QED BY <1>4, <2>1, ReaderTellDoes DEF Silent, HostHolds
<1>5. ASSUME NEW g \in Guests, ReaderTellFails(g) \/ ReaderExit(g)
      PROVE  Silent(f)'
  BY <1>5, ReaderEndsDoes DEF Silent, HostHolds
<1>6. ASSUME NEW g \in Guests, GuestLeave(g)
      PROVE  Silent(f)'
  BY <1>6, GuestLeaveDoes DEF Silent, HostHolds
<1>7. ASSUME NEW g \in Guests, GuestCleanup(g)
      PROVE  Silent(f)'
  BY <1>7, GuestCleanupDoes DEF Silent, HostHolds
<1>8. ASSUME NEW g \in Guests, NEW k \in Fwd, GuestTell(g, k)
      PROVE  Silent(f)'
  BY <1>8, GuestTellDoes DEF Silent, HostHolds, Tells
<1>9. ASSUME NEW k \in Fwd, WriterStep(k)
      PROVE  Silent(f)'
  <2>1. CASE k # f
    BY <1>9, <2>1, WriterOthers DEF Silent, HostHolds, OnlyAt
  <2>2. CASE WriterSend(f) \/ FlushSend(f)
    BY <2>2, SendDoes
  <2>3. CASE WriterSendFails(f)
    BY <2>3, WriterSendFailsDoes
  <2>4. CASE WriterFailClose(f)
    BY <2>4, WriterFailCloseDoes
  <2>5. CASE WriterFailTell(f)
    BY <2>5, WriterFailTellDoes
  <2>6. CASE WriterStopped(f) \/ WriterCancelled(f) \/ FlushFails(f)
    BY <2>6, WriterMovesDoes DEF Silent, HostHolds
  <2>7. CASE FlushLast(f)
    BY <2>7, FlushLastDoes DEF Silent, HostHolds
  <2>. QED BY <1>9, <2>1, <2>2, <2>3, <2>4, <2>5, <2>6, <2>7 DEF WriterStep
<1>10. CASE HostRecv
  <2>1. \A i \in DOMAIN wire' : wire'[i].f # f
    BY <1>10, HostRecvDoes, WireTail
  <2>2. ~HostHolds(f)'
    BY <1>10, HostRecvDoes DEF WireMoves, HostHolds, HIdle
  <2>. QED BY <1>10, <2>1, <2>2, HostRecvDoes DEF Silent
<1>11. CASE HostQueue
  BY <1>11, HostQueueDoes DEF Silent, HostHolds, OnlyAt, Turns, HIdle
<1>12. CASE HostQueueFull
  BY <1>12, HostQueueFullDoes DEF Silent, HostHolds, Turns
<1>13. CASE HostRetire
  BY <1>13, HostRetireDoes DEF Silent, HostHolds, Turns, HIdle
<1>14. CASE HostRetireLast
  BY <1>14, HostRetireLastDoes DEF Silent, HostHolds, OnlyAt, Turns
<1>15. CASE HostRetireClose
  BY <1>15, HostRetireCloseDoes DEF Silent, HostHolds, Turns
<1>16. CASE HostRetireTell
  BY <1>16, HostRetireTellDoes DEF Silent, HostHolds, HIdle, Tells
<1>17. CASE HostClose
  BY <1>17, HostCloseDoes DEF Silent, HostHolds, HIdle
<1>18. ASSUME NEW h \in Fwd, HostSends(h)
       PROVE  Silent(f)'
  <2>1. h # f
    BY <1>18, HostSendsDoes, Numbers
  <2>2. \A i \in DOMAIN wire' : wire'[i].f # f
    BY <1>18, <2>1, HostSendsDoes DEF WireTakes
  <2>. QED BY <1>18, <2>1, <2>2, HostSendsDoes DEF Silent, HostHolds, OnlyAt
<1>19. ASSUME NEW h \in Fwd, HostFinishes(h)
       PROVE  Silent(f)'
  <2>1. h # f
    BY <1>19, HostFinishesDoes, Numbers
  <2>2. \A i \in DOMAIN wire' : wire'[i].f # f
    BY <1>19, <2>1, HostFinishesDoes DEF WireTakes
  <2>. QED BY <1>19, <2>1, <2>2, HostFinishesDoes DEF Silent, HostHolds, OnlyAt
<1>20. CASE HostBreaks \/ BridgeClose
  BY <1>20, HostGoesDoes DEF Silent, HostHolds
<1>21. ASSUME NEW k \in Fwd, DialSucceeds(k)
       PROVE  Silent(f)'
  <2>1. k # f
    BY <1>21, DialSucceedsDoes
  <2>. QED BY <1>21, <2>1, DialSucceedsDoes DEF Silent, HostHolds, OnlyAt
<1>. QED BY Steps, <1>1, <1>2, <1>3, <1>4, <1>5, <1>6, <1>7, <1>8, <1>9, <1>10, <1>11,
            <1>12, <1>13, <1>14, <1>15, <1>16, <1>17, <1>18, <1>19, <1>20, <1>21

\* What no step takes back.
LEMMA Grows ==
  ASSUME TypeOK, IInv, Begins, Next
  PROVE  /\ made' \in Nat /\ made <= made'
         /\ \A f \in Fwd : f <= made => fwd'[f] = fwd[f]
         /\ \A f \in Fwd : f <= made /\ forwards'[f] # 0 => forwards[f] # 0
         /\ \A f \in Fwd : f > made => cause'[f] = cause[f]
         /\ \A f \in Fwd : stops'[f] >= stops[f]
         /\ \A g \in Guests : conn'[g] = "attached" => conn[g] = "attached"
<1>. DEFINE Goal == /\ made' \in Nat /\ made <= made'
                    /\ \A f \in Fwd : f <= made => fwd'[f] = fwd[f]
                    /\ \A f \in Fwd : f <= made /\ forwards'[f] # 0 => forwards[f] # 0
                    /\ \A f \in Fwd : f > made => cause'[f] = cause[f]
                    /\ \A f \in Fwd : stops'[f] >= stops[f]
                    /\ \A g \in Guests : conn'[g] = "attached" => conn[g] = "attached"
<1>a. /\ made \in Nat /\ \A f \in Fwd : f \in Nat /\ stops[f] \in Nat
      /\ \A f \in Fwd : forwards[f] # 0 => f <= made
  BY Numbers DEF TypeOK, IInv, Numbering
<1>. USE <1>a DEF OnlyAt, OnlyOf
<1>1. ASSUME NEW g \in Guests, NEW c \in Channels, GuestOpen(g, c)
      PROVE  Goal
  BY <1>1, GuestOpenDoes
<1>2. ASSUME NEW g \in Guests, NEW c \in Channels, NEW k \in {"data", "close"},
             GuestFrame(g, c, k)
      PROVE  Goal
  BY <1>2, GuestFrameDoes
<1>3. ASSUME NEW g \in Guests, ReaderClose(g)
      PROVE  Goal
  BY <1>3, ReaderCloseDoes DEF Removes
<1>4. ASSUME NEW g \in Guests, ReaderTell(g)
      PROVE  Goal
  BY <1>4, ReaderTellDoes
<1>5. ASSUME NEW g \in Guests, ReaderTellFails(g) \/ ReaderExit(g)
      PROVE  Goal
  BY <1>5, ReaderEndsDoes
<1>6. ASSUME NEW g \in Guests, GuestLeave(g)
      PROVE  Goal
  BY <1>6, GuestLeaveDoes
<1>7. ASSUME NEW g \in Guests, GuestCleanup(g)
      PROVE  Goal
  BY <1>7, GuestCleanupDoes
<1>8. ASSUME NEW g \in Guests, NEW k \in Fwd, GuestTell(g, k)
      PROVE  Goal
  BY <1>8, GuestTellDoes
<1>9. ASSUME NEW k \in Fwd, WriterStep(k)
      PROVE  Goal
  <2>1. CASE WriterFailClose(k)
    BY <2>1, WriterFailCloseDoes DEF Removes
  <2>2. CASE WriterSend(k) \/ FlushSend(k)
    BY <2>2, SendDoes
  <2>3. CASE WriterSendFails(k)
    BY <2>3, WriterSendFailsDoes
  <2>5. CASE WriterFailTell(k)
    BY <2>5, WriterFailTellDoes
  <2>6. CASE WriterStopped(k) \/ WriterCancelled(k) \/ FlushFails(k)
    BY <2>6, WriterMovesDoes
  <2>7. CASE FlushLast(k)
    <3>1. UNCHANGED <<made, fwd, forwards, cause, stops, conn>>
      BY <2>7, FlushLastDoes
    <3>. QED BY <3>1
  <2>. QED BY <1>9, <2>1, <2>2, <2>3, <2>5, <2>6, <2>7 DEF WriterStep
<1>10. ASSUME HostRecv PROVE Goal
  BY <1>10, HostRecvDoes
<1>11. ASSUME HostQueue PROVE Goal
  BY <1>11, HostQueueDoes
<1>12. ASSUME HostQueueFull PROVE Goal
  BY <1>12, HostQueueFullDoes
<1>13. ASSUME HostRetire PROVE Goal
  BY <1>13, HostRetireDoes
<1>14. ASSUME HostRetireLast PROVE Goal
  BY <1>14, HostRetireLastDoes
<1>15. ASSUME HostRetireClose PROVE Goal
  BY <1>15, HostRetireCloseDoes DEF Removes
<1>16. ASSUME HostRetireTell PROVE Goal
  BY <1>16, HostRetireTellDoes
<1>17. ASSUME HostClose PROVE Goal
  BY <1>17, HostCloseDoes DEF Removes
<1>18. ASSUME NEW h \in Fwd, HostSends(h)
       PROVE  Goal
  BY <1>18, HostSendsDoes
<1>19. ASSUME NEW h \in Fwd, HostFinishes(h)
       PROVE  Goal
  BY <1>19, HostFinishesDoes
<1>20. ASSUME HostBreaks \/ BridgeClose PROVE Goal
  BY <1>20, HostGoesDoes
<1>21. ASSUME NEW k \in Fwd, DialSucceeds(k)
       PROVE  Goal
  BY <1>21, DialSucceedsDoes
<1>. HIDE <1>a DEF Goal, OnlyAt, OnlyOf
<1>22. Goal
  BY Steps, <1>1, <1>2, <1>3, <1>4, <1>5, <1>6, <1>7, <1>8, <1>9, <1>10, <1>11,
     <1>12, <1>13, <1>14, <1>15, <1>16, <1>17, <1>18, <1>19, <1>20, <1>21
<1>. QED BY <1>22 DEF Goal

\* An OPEN is told by the reader that created the forward, and by no other.
LEMMA OpensComeFrom ==
  ASSUME TypeOK, IInv, Begins, Next, NEW g \in Guests, NEW f \in Fwd, Opens(g, f)'
  PROVE  \/ Opens(g, f) /\ reader'[g] = reader[g]
         \/ f = made + 1 /\ made' = made + 1 /\ forwards'[f] # 0 /\ fwd'[f].guest = g
<1>. DEFINE Goal == \/ Opens(g, f) /\ reader'[g] = reader[g]
                    \/ /\ f = made + 1 /\ made' = made + 1 /\ forwards'[f] # 0
                       /\ fwd'[f].guest = g
<1>0. CASE reader'[g] = reader[g]
  BY <1>0 DEF Opens
<1>. USE DEF OnlyAt, OnlyOf, Opens
<1>1. ASSUME NEW x \in Guests, NEW c \in Channels, GuestOpen(x, c)
      PROVE  Goal
  <2>1. CASE x = g
    BY <1>1, <2>1, GuestOpenDoes
  <2>2. CASE x # g
    BY <1>0, <1>1, <2>2, GuestOpenDoes
  <2>. QED BY <2>1, <2>2
<1>2. ASSUME NEW x \in Guests, NEW c \in Channels, NEW k \in {"data", "close"},
             GuestFrame(x, c, k)
      PROVE  Goal
  BY <1>0, <1>2, GuestFrameDoes
<1>3. ASSUME NEW x \in Guests, ReaderClose(x)
      PROVE  Goal
  <2>1. reader[x].kind = "close"
    BY <1>3, ReaderCloseDoes DEF Begins
  <2>. QED BY <1>0, <1>3, <2>1, ReaderCloseDoes
<1>4. ASSUME NEW x \in Guests, ReaderTell(x)
      PROVE  Goal
  BY <1>0, <1>4, ReaderTellDoes
<1>5. ASSUME NEW x \in Guests, ReaderTellFails(x) \/ ReaderExit(x)
      PROVE  Goal
  BY <1>0, <1>5, ReaderEndsDoes
<1>6. ASSUME NEW x \in Guests, GuestLeave(x)
      PROVE  Goal
  BY <1>0, <1>6, GuestLeaveDoes
<1>7. ASSUME NEW x \in Guests, GuestCleanup(x)
      PROVE  Goal
  BY <1>0, <1>7, GuestCleanupDoes
<1>8. ASSUME NEW x \in Guests, NEW k \in Fwd, GuestTell(x, k)
      PROVE  Goal
  BY <1>0, <1>8, GuestTellDoes
<1>9. ASSUME NEW k \in Fwd, WriterStep(k)
      PROVE  Goal
  BY <1>0, <1>9, WriterOthers
<1>10. ASSUME \/ HostRecv \/ HostQueue \/ HostQueueFull \/ HostRetire \/ HostRetireLast
              \/ HostRetireClose \/ HostRetireTell \/ HostClose
              \/ HostBreaks \/ BridgeClose
       PROVE  Goal
  BY <1>0, <1>10, HostRecvDoes, HostQueueDoes, HostQueueFullDoes, HostRetireDoes,
     HostRetireLastDoes, HostRetireCloseDoes, HostRetireTellDoes, HostCloseDoes, HostGoesDoes
<1>11. ASSUME NEW h \in Fwd, HostSends(h) \/ HostFinishes(h)
       PROVE  Goal
  BY <1>0, <1>11, HostSendsDoes, HostFinishesDoes
<1>12. ASSUME NEW k \in Fwd, DialSucceeds(k)
       PROVE  Goal
  BY <1>0, <1>12, DialSucceedsDoes
<1>. HIDE DEF Goal, Opens
<1>13. Goal
  BY Steps, <1>1, <1>2, <1>3, <1>4, <1>5, <1>6, <1>7, <1>8, <1>9, <1>10, <1>11, <1>12
<1>. QED BY <1>13 DEF Goal

\* A reader that routes a frame has looked its forward up in its own guest's map.
LEMMA ReadersKept ==
  ASSUME TypeOK, IInv, Begins, Next, NEW g \in Guests, reader'[g].pc \in {"close", "tell"}
  PROVE  /\ reader'[g].f \in 1..made' /\ fwd'[reader'[g].f].guest = g
         /\ reader'[g].pc = "close" => reader'[g].kind = "close"
<1>. DEFINE Goal == /\ reader'[g].f \in 1..made' /\ fwd'[reader'[g].f].guest = g
                    /\ reader'[g].pc = "close" => reader'[g].kind = "close"
<1>a. /\ \A k \in 1..made : k \in 1..made' /\ k \in Fwd /\ fwd'[k] = fwd[k]
      /\ made \in Nat
  BY Grows, Numbers DEF Fwd
<1>0. CASE reader'[g] = reader[g]
  BY <1>0, <1>a DEF Begins
<1>. USE DEF OnlyAt, OnlyOf
<1>1. ASSUME NEW x \in Guests, NEW c \in Channels, GuestOpen(x, c)
      PROVE  Goal
  <2>1. CASE x = g
    BY <1>1, <1>a, <2>1, GuestOpenDoes
  <2>2. CASE x # g
    BY <1>0, <1>1, <2>2, GuestOpenDoes
  <2>. QED BY <2>1, <2>2
<1>2. ASSUME NEW x \in Guests, NEW c \in Channels, NEW k \in {"data", "close"},
             GuestFrame(x, c, k)
      PROVE  Goal
  BY <1>0, <1>2, <1>a, GuestFrameDoes
<1>3. ASSUME NEW x \in Guests, ReaderClose(x)
      PROVE  Goal
  <2>1. reader[x].f \in 1..made /\ fwd[reader[x].f].guest = x
    BY <1>3, ReaderCloseDoes DEF Begins
  <2>. QED BY <1>0, <1>3, <1>a, <2>1, ReaderCloseDoes
<1>4. ASSUME NEW x \in Guests, ReaderTell(x)
      PROVE  Goal
  BY <1>0, <1>4, ReaderTellDoes
<1>5. ASSUME NEW x \in Guests, ReaderTellFails(x) \/ ReaderExit(x)
      PROVE  Goal
  BY <1>0, <1>5, ReaderEndsDoes
<1>6. ASSUME NEW x \in Guests, GuestLeave(x)
      PROVE  Goal
  BY <1>0, <1>6, GuestLeaveDoes
<1>7. ASSUME NEW x \in Guests, GuestCleanup(x)
      PROVE  Goal
  BY <1>0, <1>7, GuestCleanupDoes
<1>8. ASSUME NEW x \in Guests, NEW k \in Fwd, GuestTell(x, k)
      PROVE  Goal
  BY <1>0, <1>8, GuestTellDoes
<1>9. ASSUME NEW k \in Fwd, WriterStep(k)
      PROVE  Goal
  BY <1>0, <1>9, WriterOthers
<1>10. ASSUME \/ HostRecv \/ HostQueue \/ HostQueueFull \/ HostRetire \/ HostRetireLast
              \/ HostRetireClose \/ HostRetireTell \/ HostClose
              \/ HostBreaks \/ BridgeClose
       PROVE  Goal
  BY <1>0, <1>10, HostRecvDoes, HostQueueDoes, HostQueueFullDoes, HostRetireDoes,
     HostRetireLastDoes, HostRetireCloseDoes, HostRetireTellDoes, HostCloseDoes, HostGoesDoes
<1>11. ASSUME NEW h \in Fwd, HostSends(h) \/ HostFinishes(h)
       PROVE  Goal
  BY <1>0, <1>11, HostSendsDoes, HostFinishesDoes
<1>12. ASSUME NEW k \in Fwd, DialSucceeds(k)
       PROVE  Goal
  BY <1>0, <1>12, DialSucceedsDoes
<1>. HIDE DEF Goal
<1>13. Goal
  BY Steps, <1>1, <1>2, <1>3, <1>4, <1>5, <1>6, <1>7, <1>8, <1>9, <1>10, <1>11, <1>12
<1>. QED BY <1>13 DEF Goal

\* What is on the wire, and in the hands of the host's reader, was sent on a forward that
\* exists.
LEMMA WireKnown ==
  ASSUME TypeOK, IInv, Begins, Next
  PROVE  (\A i \in DOMAIN wire' : wire'[i].f <= made') /\ hostReader'.src <= made'
<1>. DEFINE Goal == (\A i \in DOMAIN wire' : wire'[i].f <= made) /\ hostReader'.src <= made
<1>a. /\ made \in Nat /\ \A i \in DOMAIN wire : wire[i].f <= made /\ wire[i].f \in Fwd
      /\ hostReader.src <= made
  BY Numbers, Wire DEF Begins
<1>b. \A h \in Fwd : hostEnd[h] = h \/ h \in dialing => h <= made /\ h \in Nat
  BY Numbers DEF Begins, Silent
<1>c. HIdle.src <= made
  BY <1>a DEF HIdle
<1>1. ASSUME NEW g \in Guests, NEW c \in Channels, GuestOpen(g, c)
      PROVE  Goal
  BY <1>1, <1>a, GuestOpenDoes
<1>2. ASSUME NEW g \in Guests, NEW c \in Channels, NEW k \in {"data", "close"},
             GuestFrame(g, c, k)
      PROVE  Goal
  BY <1>2, <1>a, GuestFrameDoes
<1>3. ASSUME NEW g \in Guests,
             \/ ReaderClose(g) \/ ReaderTell(g) \/ ReaderTellFails(g) \/ ReaderExit(g)
             \/ GuestLeave(g) \/ GuestCleanup(g)
      PROVE  Goal
  BY <1>3, <1>a, ReaderCloseDoes, ReaderTellDoes, ReaderEndsDoes, GuestLeaveDoes,
     GuestCleanupDoes
<1>4. ASSUME NEW g \in Guests, NEW k \in Fwd, GuestTell(g, k)
      PROVE  Goal
  BY <1>4, <1>a, GuestTellDoes
<1>5. ASSUME NEW k \in Fwd, WriterStep(k)
      PROVE  Goal
  BY <1>5, <1>a, WriterOthers
<1>6. ASSUME HostRecv
      PROVE  Goal
  <2>1. \A i \in DOMAIN wire' : wire'[i].f <= made
    BY <1>6, <1>a, HostRecvDoes, WireTail
  <2>2. hostReader'.src <= made
    BY <1>6, <1>a, <1>c, HostRecvDoes, WireTail
  <2>. QED BY <2>1, <2>2
<1>7. ASSUME \/ HostQueue \/ HostQueueFull \/ HostRetire \/ HostRetireLast
             \/ HostRetireClose \/ HostRetireTell \/ HostClose
      PROVE  Goal
  BY <1>7, <1>a, <1>c, HostQueueDoes, HostQueueFullDoes, HostRetireDoes,
     HostRetireLastDoes, HostRetireCloseDoes, HostRetireTellDoes, HostCloseDoes DEF Turns
<1>8. ASSUME NEW h \in Fwd, HostSends(h) \/ HostFinishes(h)
      PROVE  Goal
  <2>1. /\ h <= made /\ hostReader' = hostReader
        /\ \E n : WireTakes(h, n)
    BY <1>8, <1>b, HostSendsDoes, HostFinishesDoes
  <2>2. \A i \in DOMAIN wire' : wire'[i].f <= made
    BY <2>1, <1>a DEF WireTakes
  <2>. QED BY <2>1, <2>2, <1>a
<1>9. ASSUME HostBreaks \/ BridgeClose \/ \E k \in Fwd : DialSucceeds(k)
      PROVE  Goal
  BY <1>9, <1>a, HostGoesDoes, DialSucceedsDoes
<1>10. Goal
  BY Steps, <1>1, <1>2, <1>3, <1>4, <1>5, <1>6, <1>7, <1>8, <1>9
<1>11. wire' \in Seq(WireFrame) /\ hostReader' \in HostReaderRec
  BY NextType DEF TypeOK
<1>12. /\ \A i \in DOMAIN wire' : wire'[i].f \in Nat
       /\ hostReader'.src \in Nat
  <2>1. \A i \in DOMAIN wire' : wire'[i] \in WireFrame
    BY <1>11
  <2>2. \A i \in DOMAIN wire' : wire'[i].f \in Nat
    BY <2>1, Numbers DEF WireFrame
  <2>3. hostReader'.src \in Fwd \cup {0}
    BY <1>11 DEF HostReaderRec, HIdle
  <2>. QED BY <2>2, <2>3, Numbers
<1>. QED BY <1>10, <1>12, <1>a, Grows

\* While its guest stays, nothing takes a forward off the map before its OPEN was told.
LEMMA OpenStays ==
  ASSUME TypeOK, IInv, Begins, Next, NEW g \in Guests, NEW f \in Fwd, Opens(g, f),
         conn'[g] = "attached"
  PROVE  forwards'[f] # 0
<1>a. /\ forwards[f] # 0 /\ fwd[f].guest = g /\ f <= made
      /\ ~HostHolds(f) /\ writer[f] # "failing" /\ reader[g].pc = "tell"
  <2>1. conn[g] = "attached"
    BY Grows
  <2>. QED BY <2>1, Numbers DEF Begins, Opens, Silent
<1>. DEFINE Goal == forwards'[f] # 0
<1>1. ASSUME NEW x \in Guests, NEW c \in Channels, GuestOpen(x, c)
      PROVE  Goal
  BY <1>1, <1>a, GuestOpenDoes, Numbers DEF OnlyAt
<1>2. ASSUME NEW x \in Guests, NEW c \in Channels, NEW k \in {"data", "close"},
             GuestFrame(x, c, k)
      PROVE  Goal
  BY <1>2, <1>a, GuestFrameDoes
<1>3. ASSUME NEW x \in Guests, ReaderClose(x)
      PROVE  Goal
  <2>1. reader[x].f # f
    BY <1>3, <1>a, ReaderCloseDoes DEF Begins
  <2>. QED BY <1>3, <1>a, <2>1, ReaderCloseDoes DEF Removes
<1>4. ASSUME NEW x \in Guests,
             ReaderTell(x) \/ ReaderTellFails(x) \/ ReaderExit(x) \/ GuestLeave(x)
      PROVE  Goal
  BY <1>4, <1>a, ReaderTellDoes, ReaderEndsDoes, GuestLeaveDoes
<1>5. ASSUME NEW x \in Guests, GuestCleanup(x)
      PROVE  Goal
  BY <1>5, <1>a, GuestCleanupDoes
<1>6. ASSUME NEW x \in Guests, NEW k \in Fwd, GuestTell(x, k)
      PROVE  Goal
  BY <1>6, <1>a, GuestTellDoes
<1>7. ASSUME NEW k \in Fwd, WriterStep(k)
      PROVE  Goal
  <2>1. CASE WriterFailClose(f)
    BY <2>1, <1>a, WriterFailCloseDoes
  <2>2. CASE k # f
    BY <2>2, <1>7, <1>a, WriterOthers DEF OnlyAt
  <2>3. CASE k = f /\ ~WriterFailClose(f)
    BY <2>3, <1>7, <1>a, SendDoes, WriterSendFailsDoes, WriterFailTellDoes, WriterMovesDoes,
       FlushLastDoes DEF WriterStep
  <2>. QED BY <2>1, <2>2, <2>3
<1>8. ASSUME HostRetireClose \/ HostClose
      PROVE  Goal
  BY <1>8, <1>a, HostRetireCloseDoes, HostCloseDoes DEF HostHolds, Removes
<1>9. ASSUME HostRecv \/ HostQueue \/ HostQueueFull \/ HostRetire \/ HostRetireLast
             \/ HostRetireTell \/ HostBreaks \/ BridgeClose
      PROVE  Goal
  BY <1>9, <1>a, HostRecvDoes, HostQueueDoes, HostQueueFullDoes, HostRetireDoes,
     HostRetireLastDoes, HostRetireTellDoes, HostGoesDoes
<1>10. ASSUME NEW h \in Fwd, HostSends(h) \/ HostFinishes(h)
       PROVE  Goal
  BY <1>10, <1>a, HostSendsDoes, HostFinishesDoes
<1>11. ASSUME NEW k \in Fwd, DialSucceeds(k)
       PROVE  Goal
  BY <1>11, <1>a, DialSucceedsDoes
<1>. QED BY Steps, <1>1, <1>2, <1>3, <1>4, <1>5, <1>6, <1>7, <1>8, <1>9, <1>10, <1>11

\* The host dials a target once it is told the OPEN, and not after the dial has ended.
LEMMA DialsComeFrom ==
  ASSUME TypeOK, IInv, Begins, Next, NEW f \in dialing'
  PROVE  f \in dialing \/ \E g \in Guests : ReaderTell(g) /\ Opens(g, f)
<1>1. ASSUME NEW g \in Guests, NEW c \in Channels, GuestOpen(g, c)
      PROVE  f \in dialing
  BY <1>1, GuestOpenDoes
<1>2. ASSUME NEW g \in Guests, NEW c \in Channels, NEW k \in {"data", "close"},
             GuestFrame(g, c, k)
      PROVE  f \in dialing
  BY <1>2, GuestFrameDoes
<1>3. ASSUME NEW g \in Guests, ReaderTell(g)
      PROVE  f \in dialing \/ Opens(g, f)
  BY <1>3, ReaderTellDoes DEF Opens
<1>4. ASSUME NEW g \in Guests,
             \/ ReaderClose(g) \/ ReaderTellFails(g) \/ ReaderExit(g)
             \/ GuestLeave(g) \/ GuestCleanup(g)
      PROVE  f \in dialing
  BY <1>4, ReaderCloseDoes, ReaderEndsDoes, GuestLeaveDoes, GuestCleanupDoes
<1>5. ASSUME NEW g \in Guests, NEW k \in Fwd, GuestTell(g, k)
      PROVE  f \in dialing
  BY <1>5, GuestTellDoes DEF Tells
<1>6. ASSUME NEW k \in Fwd, WriterStep(k)
      PROVE  f \in dialing
  BY <1>6, WriterOthers
<1>7. ASSUME \/ HostRecv \/ HostQueue \/ HostQueueFull \/ HostRetire \/ HostRetireLast
             \/ HostRetireClose \/ HostClose \/ HostBreaks \/ BridgeClose
      PROVE  f \in dialing
  BY <1>7, HostRecvDoes, HostQueueDoes, HostQueueFullDoes, HostRetireDoes,
     HostRetireLastDoes, HostRetireCloseDoes, HostCloseDoes, HostGoesDoes
<1>8. ASSUME HostRetireTell
      PROVE  f \in dialing
  BY <1>8, HostRetireTellDoes DEF Tells
<1>9. ASSUME NEW h \in Fwd, HostSends(h) \/ HostFinishes(h) \/ DialSucceeds(h)
      PROVE  f \in dialing
  BY <1>9, HostSendsDoes, HostFinishesDoes, DialSucceedsDoes
<1>. QED BY Steps, <1>1, <1>2, <1>3, <1>4, <1>5, <1>6, <1>7, <1>8, <1>9

LEMMA BeginsKept ==
  ASSUME TypeOK, IInv, Begins, Next
  PROVE  Begins'
<1>a. /\ made \in Nat /\ made' \in Nat /\ made <= made'
      /\ \A f \in Fwd : f \in Nat
  BY Grows, Numbers
<1>1. ASSUME NEW f \in Fwd, f > made
      PROVE  Silent(f)' /\ cause'[f] = "none"
  <2>1. Silent(f) /\ cause[f] = "none" /\ f \notin dialing
    BY <1>1, <1>a DEF Begins
  <2>. QED BY <1>1, <2>1, Grows, SilentKept
<1>2. ASSUME NEW g \in Guests, NEW f \in Fwd, Opens(g, f)'
      PROVE  Silent(f)' /\ f \notin dialing' /\ (conn'[g] = "attached" => forwards'[f] # 0)
  <2>1. CASE Opens(g, f) /\ reader'[g] = reader[g]
    <3>1. Silent(f) /\ f \notin dialing
      BY <2>1 DEF Begins
    <3>2. \A x \in Guests : Opens(x, f) => ~ReaderTell(x)
      <4>. SUFFICES ASSUME NEW x \in Guests, Opens(x, f), ReaderTell(x) PROVE FALSE
        OBVIOUS
      <4>1. x = g
        BY <2>1 DEF Begins, Opens
      <4>. QED BY <2>1, <4>1, ReaderTellDoes DEF Opens
    <3>3. f \notin dialing'
      BY <3>1, <3>2, DialsComeFrom
    <3>. QED BY <2>1, <3>1, <3>3, SilentKept, OpenStays
  <2>2. CASE f = made + 1 /\ forwards'[f] # 0
    <3>1. f \notin dialing /\ \A x \in Guests : ~Opens(x, f)
      BY <2>2, <1>a DEF Begins, Opens
    <3>. QED BY <2>2, <3>1, <1>1, <1>a, DialsComeFrom
  <2>. QED BY <1>2, <2>1, <2>2, OpensComeFrom
<1>3. \A f \in Fwd : f > made' => Silent(f)' /\ cause'[f] = "none"
  BY <1>1, <1>a
<1>4. ASSUME NEW f \in dialing'
      PROVE  f <= made' /\ Silent(f)'
  <2>1. CASE f \in dialing
    <3>1. f \in Fwd /\ f <= made /\ Silent(f)
      BY <2>1, Dials DEF Begins
    <3>. QED BY <3>1, <1>a, SilentKept
  <2>2. CASE \E g \in Guests : ReaderTell(g) /\ Opens(g, f)
    <3>1. PICK g \in Guests : ReaderTell(g) /\ Opens(g, f)
      BY <2>2
    <3>2. f \in Fwd /\ f <= made /\ reader[g].f = f
      BY <3>1, ReaderTellDoes, Numbers DEF Begins, Opens
    <3>3. Silent(f)
      BY <3>1, <3>2 DEF Begins
    <3>. QED BY <3>2, <3>3, <1>a, SilentKept
  <2>. QED BY <2>1, <2>2, DialsComeFrom
<1>. QED BY <1>2, <1>3, <1>4, WireKnown, ReadersKept DEF Begins

LEMMA BeginsInit == Init => Begins
<1>. SUFFICES ASSUME Init PROVE Begins
  OBVIOUS
<1>1. /\ hostReader.pc = "recv" /\ hostReader.src = 0 /\ made = 0
      /\ \A g \in Guests : reader[g].pc = "recv"
  BY DEF Init, HIdle, Idle
<1>2. wire = <<>> /\ DOMAIN wire = {}
  BY DEF Init
<1>3. \A f \in Fwd : Silent(f) /\ cause[f] = "none"
  BY <1>1, <1>2 DEF Init, Silent, HostHolds, Fwd, HostChans
<1>4. dialing = {} /\ \A g \in Guests, f \in Fwd : ~Opens(g, f)
  BY <1>1 DEF Init, Opens
<1>. QED BY <1>1, <1>2, <1>3, <1>4 DEF Begins

LEMMA BeginsStuttering == Begins /\ UNCHANGED vars => Begins'
BY DEF Begins, Silent, HostHolds, Opens, vars

\* Until its OPEN was told, nothing is said on a forward in either direction, and while its
\* guest stays nobody takes it off the map (openGuestChannel tells the host last).
THEOREM BeginsHolds == Spec => []Begins
<1>1. TypeOK /\ IInv /\ Begins /\ [Next]_vars => Begins'
  BY BeginsKept, BeginsStuttering
<1>. QED BY <1>1, BeginsInit, TypeInvariance, IndInvariance, PTL DEF Spec

-----------------------------------------------------------------------------
(* Delivery: delivered, queued, held and on the wire, one run of frames.     *)

\* The host opens a socket only when it has dialled its target.
LEMMA EndOpened ==
  ASSUME TypeOK, IInv, Begins, Next, NEW f \in Fwd, hostEnd[f] = 0, hostEnd'[f] # 0
  PROVE  DialSucceeds(f)
<1>1. ASSUME NEW g \in Guests, NEW c \in Channels, GuestOpen(g, c)
      PROVE  FALSE
  BY <1>1, GuestOpenDoes
<1>2. ASSUME NEW g \in Guests, NEW c \in Channels, NEW k \in {"data", "close"},
             GuestFrame(g, c, k)
      PROVE  FALSE
  BY <1>2, GuestFrameDoes
<1>3. ASSUME NEW g \in Guests, ReaderTell(g)
      PROVE  FALSE
  BY <1>3, ReaderTellDoes DEF OnlyAt
<1>4. ASSUME NEW g \in Guests,
             \/ ReaderClose(g) \/ ReaderTellFails(g) \/ ReaderExit(g)
             \/ GuestLeave(g) \/ GuestCleanup(g)
      PROVE  FALSE
  BY <1>4, ReaderCloseDoes, ReaderEndsDoes, GuestLeaveDoes, GuestCleanupDoes
<1>5. ASSUME NEW g \in Guests, NEW k \in Fwd, GuestTell(g, k)
      PROVE  FALSE
  BY <1>5, GuestTellDoes DEF Tells
<1>6. ASSUME NEW k \in Fwd, WriterStep(k)
      PROVE  FALSE
  BY <1>6, WriterOthers DEF OnlyAt
<1>7. ASSUME \/ HostRecv \/ HostQueue \/ HostQueueFull \/ HostRetire \/ HostRetireLast
             \/ HostRetireClose \/ HostClose \/ HostBreaks \/ BridgeClose
      PROVE  FALSE
  BY <1>7, HostRecvDoes, HostQueueDoes, HostQueueFullDoes, HostRetireDoes,
     HostRetireLastDoes, HostRetireCloseDoes, HostCloseDoes, HostGoesDoes
<1>8. ASSUME HostRetireTell
      PROVE  FALSE
  BY <1>8, HostRetireTellDoes DEF Tells
<1>9. ASSUME NEW h \in Fwd, HostSends(h) \/ HostFinishes(h)
      PROVE  FALSE
  BY <1>9, HostSendsDoes, HostFinishesDoes DEF OnlyAt
<1>10. ASSUME NEW k \in Fwd, DialSucceeds(k)
       PROVE  DialSucceeds(f)
  BY <1>10, DialSucceedsDoes DEF OnlyAt
<1>. QED BY Steps, <1>1, <1>2, <1>3, <1>4, <1>5, <1>6, <1>7, <1>8, <1>9, <1>10

\* What the host is done with it is done with for good: a number is opened once.
LEMMA ShutKept ==
  ASSUME TypeOK, IInv, Begins, Next, NEW f \in Fwd, Shut(f)
  PROVE  Shut(f)'
<1>1. f <= made /\ hostEnd[f] = 0 /\ f \notin dialing /\ \A g \in Guests : ~Opens(g, f)
  BY DEF Shut
<1>2. made \in Nat /\ made' \in Nat /\ made <= made' /\ f \in Nat
  BY Grows, Numbers
<1>3. hostEnd'[f] = 0
  BY <1>1, EndOpened, DialSucceedsDoes
<1>4. \A g \in Guests : ~Opens(g, f)'
  BY <1>1, <1>2, OpensComeFrom
<1>5. f \notin dialing'
  BY <1>1, DialsComeFrom
<1>. QED BY <1>1, <1>2, <1>3, <1>4, <1>5 DEF Shut

\* What a host that still holds a socket, or dials, has said is not its last word.
LEMMA OpenEnd ==
  ASSUME TypeOK, Begins, NEW f \in Fwd, hostEnd[f] # 0 \/ f \in dialing
  PROVE  f <= made /\ (\A g \in Guests : ~Opens(g, f)) /\ ~Shut(f)
BY Numbers DEF Begins, Silent, Shut

LEMMA WireInOrderKept ==
  ASSUME TypeOK, IInv, Begins, WireInOrder, Next
  PROVE  WireInOrder'
<1>. DEFINE Ordered == \A i, j \in DOMAIN wire : i < j /\ wire[i].f = wire[j].f =>
                         wire[i].n # CLOSE /\ (wire[j].n = CLOSE \/ wire[i].n < wire[j].n)
            Sent == \A i \in DOMAIN wire, f \in Fwd : wire[i].f = f =>
                      wire[i].n <= hostSent[f] /\ (wire[i].n = CLOSE => Shut(f))
            Closing == \A f \in Fwd :
                         /\ hostReader.pc \in {"queue", "close"}
                         /\ hostReader.n = CLOSE /\ hostReader.src = f
                         => Shut(f) /\ \A i \in DOMAIN wire : wire[i].f # f
            ClosePc == hostReader.pc = "close" => hostReader.n = CLOSE
<1>a. Ordered /\ Sent /\ Closing /\ ClosePc
  BY DEF WireInOrder
<1>b. /\ Len(wire) \in Nat /\ DOMAIN wire = 1..Len(wire)
      /\ \A i \in DOMAIN wire : wire[i].f \in Fwd
  BY Wire
<1>c. \A f \in Fwd : Shut(f) => Shut(f)'
  BY ShutKept
<1>d. hostReader.pc # "recv" => hostReader.src \in Fwd
  BY Holding
<1>e. Ordered' /\ Sent' /\ Closing' /\ ClosePc' => WireInOrder'
  <2>1. wire' \in Seq(WireFrame) /\ hostReader' \in HostReaderRec
    BY NextType DEF TypeOK
  <2>2. \A i \in DOMAIN wire' : wire'[i] \in WireFrame
    BY <2>1
  <2>3. \A i \in DOMAIN wire' : wire'[i].f \in Fwd
    BY <2>2 DEF WireFrame
  <2>4. hostReader'.pc # "recv" => hostReader'.src \in Fwd
    BY <2>1 DEF HostReaderRec, HIdle
  <2>. QED BY <2>3, <2>4 DEF WireInOrder, Shut, Opens
<1>1. ASSUME UNCHANGED <<wire, hostSent>>,
             \/ hostReader' = hostReader
             \/ hostReader'.pc \notin {"queue", "close"}
             \/ hostReader.pc = "queue" /\ Turns("close") /\ hostReader.n = CLOSE
      PROVE  WireInOrder'
  <2>1. Ordered' /\ Sent'
    BY <1>1, <1>a, <1>b, <1>c
  <2>2. Closing' /\ ClosePc'
    <3>1. CASE hostReader' = hostReader
      BY <1>1, <3>1, <1>a, <1>c, <1>d
    <3>2. CASE hostReader'.pc \notin {"queue", "close"}
      BY <3>2
    <3>3. CASE hostReader.pc = "queue" /\ Turns("close") /\ hostReader.n = CLOSE
      BY <1>1, <3>3, <1>a, <1>c, <1>d DEF Turns
    <3>. QED BY <1>1, <3>1, <3>2, <3>3
  <2>. QED BY <2>1, <2>2, <1>e
<1>2. ASSUME HostRecv
      PROVE  WireInOrder'
  <2>1. /\ 1 \in DOMAIN wire
        /\ \A i \in DOMAIN wire' : i \in Nat /\ i + 1 \in DOMAIN wire /\ wire'[i] = wire[i + 1]
    BY <1>2, HostRecvDoes, WireTail
  <2>2. hostSent' = hostSent
    BY <1>2, HostRecvDoes
  <2>3. Ordered'
    <3>. SUFFICES ASSUME NEW i \in DOMAIN wire', NEW j \in DOMAIN wire', i < j,
                         wire'[i].f = wire'[j].f
                  PROVE  /\ wire'[i].n # CLOSE
                         /\ wire'[j].n = CLOSE \/ wire'[i].n < wire'[j].n
      OBVIOUS
    <3>1. i + 1 < j + 1 /\ i + 1 \in DOMAIN wire /\ j + 1 \in DOMAIN wire
      BY <2>1
    <3>. QED BY <1>a, <2>1, <3>1
  <2>4. Sent'
    <3>. SUFFICES ASSUME NEW i \in DOMAIN wire', NEW f \in Fwd, wire'[i].f = f
                  PROVE  wire'[i].n <= hostSent'[f] /\ (wire'[i].n = CLOSE => Shut(f)')
      OBVIOUS
    <3>1. i + 1 \in DOMAIN wire /\ wire'[i] = wire[i + 1]
      BY <2>1
    <3>2. wire[i + 1].n <= hostSent[f] /\ (wire[i + 1].n = CLOSE => Shut(f)')
      BY <1>a, <1>c, <3>1
    <3>. QED BY <2>2, <3>1, <3>2
  <2>5. Closing' /\ ClosePc'
    <3>1. CASE forwards[wire[1].f] = 0
      BY <1>2, <3>1, HostRecvDoes DEF HIdle
    <3>2. CASE forwards[wire[1].f] # 0
      <4>1. /\ hostReader'.pc = "queue" /\ hostReader'.src = wire[1].f
            /\ hostReader'.n = wire[1].n
        BY <1>2, <3>2, HostRecvDoes
      <4>2. ASSUME wire[1].n = CLOSE, NEW f \in Fwd, wire[1].f = f
            PROVE  Shut(f)' /\ \A i \in DOMAIN wire' : wire'[i].f # f
        <5>1. Shut(f)'
          BY <4>2, <1>a, <1>c, <2>1
        <5>2. ASSUME NEW i \in DOMAIN wire'
              PROVE  wire'[i].f # f
          <6>1. i + 1 \in DOMAIN wire /\ wire'[i] = wire[i + 1] /\ 1 < i + 1
            <7>1. i + 1 \in DOMAIN wire /\ wire'[i] = wire[i + 1] /\ i \in Nat
              BY <2>1
            <7>2. i # 0
              BY <1>2, HostRecvDoes DEF WireMoves
            <7>. QED BY <7>1, <7>2
          <6>. QED BY <1>a, <2>1, <4>2, <6>1
        <5>. QED BY <5>1, <5>2
      <4>. QED BY <4>1, <4>2
    <3>. QED BY <3>1, <3>2
  <2>. QED BY <2>3, <2>4, <2>5, <1>e
<1>3. ASSUME NEW h \in Fwd, NEW n, WireTakes(h, n), hostEnd[h] # 0 \/ h \in dialing,
             hostReader' = hostReader,
             \/ n = hostSent[h] + 1 /\ hostSent'[h] = n /\ hostSent[h] \in Nat
             \/ n = CLOSE /\ Shut(h)' /\ hostSent'[h] = hostSent[h]
                  /\ hostSent[h] \in Nat,
             OnlyAt(h, hostSent, hostSent')
      PROVE  WireInOrder'
  <2>1. /\ DOMAIN wire' = 1..(Len(wire) + 1)
        /\ \A i \in 1..Len(wire) : wire'[i] = wire[i]
        /\ wire'[Len(wire) + 1].f = h /\ wire'[Len(wire) + 1].n = n
    BY <1>3 DEF WireTakes
  <2>2. ~Shut(h)
    BY <1>3, OpenEnd
  <2>3. \A i \in DOMAIN wire : wire[i].f = h => /\ wire[i].n # CLOSE
                                                /\ wire[i].n <= hostSent[h]
                                                /\ wire[i].n \in Nat
    <3>1. \A i \in DOMAIN wire : wire[i].n \in Nat
      BY Wire DEF Payload
    <3>. QED BY <1>a, <2>2, <3>1
  <2>4. Ordered'
    <3>. SUFFICES ASSUME NEW i \in DOMAIN wire', NEW j \in DOMAIN wire', i < j,
                         wire'[i].f = wire'[j].f
                  PROVE  /\ wire'[i].n # CLOSE
                         /\ wire'[j].n = CLOSE \/ wire'[i].n < wire'[j].n
      OBVIOUS
    <3>1. i \in 1..Len(wire) /\ i \in DOMAIN wire /\ wire'[i] = wire[i]
      BY <1>b, <2>1
    <3>2. CASE j \in 1..Len(wire)
      BY <1>a, <1>b, <2>1, <3>1, <3>2
    <3>3. CASE j = Len(wire) + 1
      <4>1. wire[i].f = h /\ wire'[j].n = n
        BY <2>1, <3>1, <3>3
      <4>. QED BY <1>3, <2>3, <3>1, <4>1
    <3>. QED BY <1>b, <2>1, <3>2, <3>3
  <2>5. Sent'
    <3>. SUFFICES ASSUME NEW i \in DOMAIN wire', NEW f \in Fwd, wire'[i].f = f
                  PROVE  wire'[i].n <= hostSent'[f] /\ (wire'[i].n = CLOSE => Shut(f)')
      OBVIOUS
    <3>1. CASE i = Len(wire) + 1
      <4>1. h = f /\ wire'[i].n = n
        BY <2>1, <3>1
      <4>2. n <= hostSent'[h] /\ (n = CLOSE => Shut(h)')
        BY <1>3 DEF CLOSE
      <4>. QED BY <4>1, <4>2
    <3>2. CASE i \in 1..Len(wire)
      <4>1. /\ wire'[i] = wire[i] /\ i \in DOMAIN wire
            /\ wire[i].n <= hostSent[f] /\ (wire[i].n = CLOSE => Shut(f)')
        BY <1>a, <1>b, <1>c, <2>1, <3>2
      <4>2. CASE f = h
        BY <1>3, <2>3, <4>1, <4>2
      <4>3. CASE f # h
        BY <1>3, <4>1, <4>3 DEF OnlyAt
      <4>. QED BY <4>2, <4>3
    <3>. QED BY <1>b, <2>1, <3>1, <3>2
  <2>6. Closing' /\ ClosePc'
    <3>1. ASSUME hostReader.pc \in {"queue", "close"}, hostReader.n = CLOSE,
                 NEW f \in Fwd, hostReader.src = f
          PROVE  Shut(f)' /\ \A i \in DOMAIN wire' : wire'[i].f # f
      <4>1. Shut(f) /\ \A i \in DOMAIN wire : wire[i].f # f
        BY <1>a, <3>1
      <4>2. f # h
        BY <2>2, <4>1
      <4>3. \A i \in DOMAIN wire' : i = Len(wire) + 1 \/ i \in 1..Len(wire)
        BY <1>b, <2>1
      <4>. QED BY <1>b, <1>c, <2>1, <4>1, <4>2, <4>3
    <3>. QED BY <1>3, <1>a, <3>1
  <2>. QED BY <2>4, <2>5, <2>6, <1>e
<1>. HIDE DEF Ordered, Sent, Closing, ClosePc
<1>4. ASSUME NEW g \in Guests, NEW c \in Channels, GuestOpen(g, c)
      PROVE  WireInOrder'
  BY <1>4, <1>1, GuestOpenDoes
<1>5. ASSUME NEW g \in Guests, NEW c \in Channels, NEW k \in {"data", "close"},
             GuestFrame(g, c, k)
      PROVE  WireInOrder'
  BY <1>5, <1>1, GuestFrameDoes
<1>6. ASSUME NEW g \in Guests,
             \/ ReaderClose(g) \/ ReaderTell(g) \/ ReaderTellFails(g) \/ ReaderExit(g)
             \/ GuestLeave(g) \/ GuestCleanup(g)
      PROVE  WireInOrder'
  BY <1>6, <1>1, ReaderCloseDoes, ReaderTellDoes, ReaderEndsDoes, GuestLeaveDoes,
     GuestCleanupDoes
<1>7. ASSUME NEW g \in Guests, NEW k \in Fwd, GuestTell(g, k)
      PROVE  WireInOrder'
  BY <1>7, <1>1, GuestTellDoes
<1>8. ASSUME NEW k \in Fwd, WriterStep(k)
      PROVE  WireInOrder'
  BY <1>8, <1>1, WriterOthers
<1>9. ASSUME HostQueue \/ HostQueueFull
      PROVE  WireInOrder'
  BY <1>9, <1>1, HostQueueDoes, HostQueueFullDoes DEF Turns, HIdle
<1>10. ASSUME \/ HostRetire \/ HostRetireLast \/ HostRetireClose \/ HostRetireTell
              \/ HostClose \/ HostBreaks \/ BridgeClose
       PROVE  WireInOrder'
  <2>1. CASE HostRetire
    BY <2>1, <1>1, HostRetireDoes DEF Turns, HIdle
  <2>2. CASE HostRetireLast
    BY <2>2, <1>1, HostRetireLastDoes DEF Turns
  <2>3. CASE HostRetireClose
    BY <2>3, <1>1, HostRetireCloseDoes DEF Turns
  <2>4. CASE HostRetireTell
    BY <2>4, <1>1, HostRetireTellDoes DEF HIdle
  <2>5. CASE HostClose
    BY <2>5, <1>1, HostCloseDoes DEF HIdle
  <2>6. CASE HostBreaks \/ BridgeClose
    BY <2>6, <1>1, HostGoesDoes
  <2>. QED BY <1>10, <2>1, <2>2, <2>3, <2>4, <2>5, <2>6
<1>11. ASSUME NEW h \in Fwd, HostSends(h)
       PROVE  WireInOrder'
  <2>1. hostEnd[h] # 0
    BY <1>11, HostSendsDoes, Numbers
  <2>. QED BY <2>1, <1>11, <1>3, HostSendsDoes
<1>12. ASSUME NEW h \in Fwd, HostFinishes(h)
       PROVE  WireInOrder'
  <2>1. /\ hostEnd[h] # 0 \/ h \in dialing
        /\ hostEnd'[h] = 0 /\ h \notin dialing'
        /\ UNCHANGED <<made, reader, hostSent, hostReader>>
    BY <1>12, HostFinishesDoes, Numbers
  <2>2. Shut(h)'
    BY <2>1, OpenEnd DEF Shut, Opens
  <2>3. hostSent[h] \in Nat /\ OnlyAt(h, hostSent, hostSent') /\ hostSent'[h] = hostSent[h]
    BY <2>1 DEF TypeOK, OnlyAt
  <2>. QED BY <2>1, <2>2, <2>3, <1>12, <1>3, HostFinishesDoes
<1>13. ASSUME NEW k \in Fwd, DialSucceeds(k)
       PROVE  WireInOrder'
  BY <1>13, <1>1, DialSucceedsDoes
<1>. QED BY Steps, <1>2, <1>4, <1>5, <1>6, <1>7, <1>8, <1>9, <1>10, <1>11, <1>12, <1>13

\* A step that moves no frame of forward f.
LineUntouched(f) ==
  /\ UNCHANGED <<wire, hostSent, hostReader>>
  /\ Going(f)' => Going(f) /\ out'[f] = out[f]
  /\ delivered'[f] = delivered[f] /\ last'[f] = last[f]

LEMMA Touches ==
  ASSUME TypeOK, IInv, Next, NEW f \in Fwd
  PROVE  \/ LineUntouched(f)
         \/ WriterSend(f) \/ FlushSend(f) \/ FlushLast(f)
         \/ HostRecv \/ HostQueue \/ HostQueueFull \/ HostRetire \/ HostRetireLast
         \/ HostRetireClose \/ HostRetireTell \/ HostClose
         \/ \E h \in Fwd : HostSends(h)
         \/ \E h \in Fwd : HostFinishes(h)
<1>. USE DEF LineUntouched, Going
<1>1. ASSUME NEW g \in Guests, NEW c \in Channels, GuestOpen(g, c)
      PROVE  LineUntouched(f)
  BY <1>1, GuestOpenDoes DEF OnlyAt
<1>2. ASSUME NEW g \in Guests, NEW c \in Channels, NEW k \in {"data", "close"},
             GuestFrame(g, c, k)
      PROVE  LineUntouched(f)
  BY <1>2, GuestFrameDoes
<1>3. ASSUME NEW g \in Guests,
             \/ ReaderClose(g) \/ ReaderTell(g) \/ ReaderTellFails(g) \/ ReaderExit(g)
             \/ GuestLeave(g) \/ GuestCleanup(g)
      PROVE  LineUntouched(f)
  BY <1>3, ReaderCloseDoes, ReaderTellDoes, ReaderEndsDoes, GuestLeaveDoes, GuestCleanupDoes
<1>4. ASSUME NEW g \in Guests, NEW k \in Fwd, GuestTell(g, k)
      PROVE  LineUntouched(f)
  BY <1>4, GuestTellDoes
<1>5. ASSUME NEW k \in Fwd, WriterStep(k)
      PROVE  LineUntouched(f) \/ WriterSend(f) \/ FlushSend(f) \/ FlushLast(f)
  <2>1. CASE k # f
    BY <1>5, <2>1, WriterOthers DEF OnlyAt
  <2>2. CASE WriterSendFails(f)
    BY <2>2, WriterSendFailsDoes
  <2>3. CASE WriterFailClose(f)
    BY <2>3, WriterFailCloseDoes
  <2>4. CASE WriterFailTell(f)
    BY <2>4, WriterFailTellDoes
  <2>5. CASE WriterStopped(f) \/ WriterCancelled(f) \/ FlushFails(f)
    BY <2>5, WriterMovesDoes
  <2>. QED BY <1>5, <2>1, <2>2, <2>3, <2>4, <2>5 DEF WriterStep
<1>6. ASSUME HostBreaks \/ BridgeClose \/ \E k \in Fwd : DialSucceeds(k)
      PROVE  LineUntouched(f)
  BY <1>6, HostGoesDoes, DialSucceedsDoes
<1>. HIDE DEF LineUntouched, Going
<1>. QED BY Steps, <1>1, <1>2, <1>3, <1>4, <1>5, <1>6

\* A line that keeps its frames stays in order if the host's reader and the relay's notice
\* respect its end.
LEMMA LineKeeps ==
  ASSUME TypeOK, IInv, Begins, Next, NEW f \in Fwd, LineInOrder(f),
         Going(f)' => Going(f) /\ out'[f] = out[f],
         delivered'[f] = delivered[f],
         last'[f] => ~Queueing(f)' /\ (forwards'[f] # 0 => Retiring(f)'),
         Going(f)' /\ (Ends(delivered[f]) \/ Ends(out[f])) =>
           /\ ~Queueing(f)' /\ ~Retiring(f)' /\ ~last'[f]
           /\ \A i \in DOMAIN wire' : wire'[i].f # f
  PROVE  LineInOrder(f)'
<1>1. Shut(f) => Shut(f)'
  BY ShutKept
<1>2. Going(f)' => /\ Ends(out[f])' <=> Ends(out[f])
                   /\ Numbered(out[f], Len(delivered[f]))' <=> Numbered(out[f], Len(delivered[f]))
  BY DEF Ends, Numbered
<1>3. /\ Ends(delivered[f])' <=> Ends(delivered[f])
      /\ Numbered(delivered[f], 0)' <=> Numbered(delivered[f], 0)
  BY DEF Ends, Numbered
<1>. QED BY <1>1, <1>2, <1>3 DEF LineInOrder

\* Writing one queued frame to the guest.
LEMMA LineSends ==
  ASSUME TypeOK, IInv, Begins, Next, NEW f \in Fwd, LineInOrder(f),
         WriterSend(f) \/ FlushSend(f)
  PROVE  LineInOrder(f)'
<1>. DEFINE d == Len(delivered[f])
<1>1. /\ writer[f] \in {"running", "flushing"} /\ out[f] # <<>> /\ LineMoves(f)
      /\ UNCHANGED <<forwards, last, writer, hostReader, wire>>
  BY SendDoes
<1>2. Going(f)
  BY <1>1 DEF Going
<1>3. /\ Numbered(delivered[f], 0) /\ Numbered(out[f], d) /\ ~Ends(delivered[f])
      /\ last[f] => ~Queueing(f) /\ (forwards[f] # 0 => Retiring(f))
      /\ Ends(out[f]) => /\ Shut(f) /\ ~Queueing(f) /\ ~Retiring(f) /\ ~last[f]
                         /\ \A i \in DOMAIN wire : wire[i].f # f
  BY <1>1, <1>2 DEF LineInOrder
<1>4. /\ d \in Nat /\ Len(out[f]) \in Nat \ {0}
      /\ DOMAIN out[f] = 1..Len(out[f]) /\ DOMAIN delivered[f] = 1..d
      /\ DOMAIN out'[f] = 1..(Len(out[f]) - 1) /\ DOMAIN delivered'[f] = 1..(d + 1)
      /\ Len(out'[f]) = Len(out[f]) - 1 /\ Len(delivered'[f]) = d + 1
      /\ \A i \in 1..(Len(out[f]) - 1) : out'[f][i] = out[f][i + 1]
      /\ \A i \in 1..d : delivered'[f][i] = delivered[f][i]
      /\ delivered'[f][d + 1] = out[f][1]
      /\ out'[f] = <<>> <=> Len(out[f]) = 1
  BY <1>1 DEF LineMoves
<1>. HIDE DEF d
<1>5. \A i \in 1..d : delivered'[f][i].n = i /\ delivered'[f][i].n # CLOSE
  <2>. SUFFICES ASSUME NEW i \in 1..d PROVE delivered[f][i].n = i /\ i # CLOSE
    BY <1>4
  <2>1. i \in DOMAIN delivered[f] /\ i \in Nat \ {0}
    BY <1>4
  <2>2. delivered[f][i].n # CLOSE
    BY <1>3, <2>1 DEF Ends
  <2>3. delivered[f][i].n = 0 + i
    BY <1>3, <2>1, <2>2 DEF Numbered
  <2>. QED BY <2>1, <2>3 DEF CLOSE
<1>6. /\ out[f][1].n = d + 1 \/ (out[f][1].n = CLOSE /\ Len(out[f]) = 1)
      /\ 1 \in DOMAIN out[f]
  <2>1. 1 \in DOMAIN out[f]
    BY <1>4
  <2>2. Numbered(out[f], d)
    BY <1>3
  <2>3. out[f][1].n = d + 1 \/ (out[f][1].n = CLOSE /\ 1 = Len(out[f]))
    BY <2>1, <2>2 DEF Numbered
  <2>. QED BY <2>1, <2>3
<1>7. Numbered(delivered[f], 0)'
  <2>. SUFFICES ASSUME NEW i \in 1..(d + 1)
                PROVE  \/ delivered'[f][i].n = 0 + i
                       \/ delivered'[f][i].n = CLOSE /\ i = d + 1
    BY <1>4 DEF Numbered
  <2>. QED BY <1>4, <1>5, <1>6
<1>8. Numbered(out[f], Len(delivered[f]))'
  <2>. SUFFICES ASSUME NEW i \in 1..(Len(out[f]) - 1)
                PROVE  \/ out'[f][i].n = (d + 1) + i
                       \/ out'[f][i].n = CLOSE /\ i = Len(out[f]) - 1
    BY <1>4 DEF Numbered
  <2>1. i + 1 \in DOMAIN out[f] /\ out'[f][i] = out[f][i + 1]
    BY <1>4
  <2>2. out[f][i + 1].n = d + (i + 1) \/ (out[f][i + 1].n = CLOSE /\ i + 1 = Len(out[f]))
    BY <1>3, <2>1 DEF Numbered
  <2>3. i \in Nat /\ d + (i + 1) = (d + 1) + i
    BY <1>4
  <2>4. i + 1 = Len(out[f]) => i = Len(out[f]) - 1
    BY <1>4
  <2>. QED BY <2>1, <2>2, <2>3, <2>4
<1>9. Ends(delivered[f])' => out'[f] = <<>> /\ Ends(out[f])
  <2>. SUFFICES ASSUME NEW i \in 1..(d + 1), delivered'[f][i].n = CLOSE
                PROVE  out'[f] = <<>> /\ Ends(out[f])
    BY <1>4 DEF Ends
  <2>1. i = d + 1
    BY <1>4, <1>5
  <2>2. out[f][1].n = CLOSE
    BY <1>4, <2>1
  <2>3. Len(out[f]) = 1
    BY <1>4, <1>6, <2>2 DEF CLOSE
  <2>. QED BY <1>4, <1>6, <2>2, <2>3 DEF Ends
<1>10. Ends(out[f])' => Ends(out[f])
  <2>. SUFFICES ASSUME NEW i \in 1..(Len(out[f]) - 1), out'[f][i].n = CLOSE
                PROVE  Ends(out[f])
    BY <1>4 DEF Ends
  <2>1. i + 1 \in DOMAIN out[f] /\ out'[f][i] = out[f][i + 1]
    BY <1>4
  <2>. QED BY <2>1 DEF Ends
<1>11. Shut(f) => Shut(f)'
  BY ShutKept
<1>12. UNCHANGED <<Queueing(f), Retiring(f), last[f], forwards[f], Going(f)>>
  BY <1>1 DEF Queueing, Retiring, Going
<1>. QED BY <1>1, <1>3, <1>7, <1>8, <1>9, <1>10, <1>11, <1>12 DEF LineInOrder

\* The relay's own notice goes last.
LEMMA LineEnds ==
  ASSUME TypeOK, IInv, NEW f \in Fwd, LineInOrder(f), FlushLast(f)
  PROVE  LineInOrder(f)'
<1>1. /\ writer[f] = "flushing" /\ writer'[f] = "done" /\ last'[f] = FALSE
      /\ last[f] => Notice(f)
      /\ ~last[f] => delivered'[f] = delivered[f]
  BY FlushLastDoes
<1>2. Going(f) /\ ~Going(f)'
  BY <1>1 DEF Going
<1>3. Numbered(delivered[f], 0)'
  <2>1. CASE ~last[f]
    BY <1>1, <2>1 DEF LineInOrder, Numbered
  <2>2. CASE last[f]
    <3>1. ~Ends(delivered[f]) /\ Numbered(delivered[f], 0)
      BY <1>2, <2>2 DEF LineInOrder
    <3>2. Notice(f)
      BY <1>1, <2>2
    <3>3. \A i \in DOMAIN delivered[f] : delivered[f][i].n = 0 + i
      BY <3>1 DEF Numbered, Ends
    <3>. QED BY <3>2, <3>3 DEF Notice, Numbered
  <2>. QED BY <2>1, <2>2
<1>. QED BY <1>1, <1>2, <1>3 DEF LineInOrder

\* The host's reader queues the frame in its hand: the CLOSE, or the one the line waits for.
LEMMA LineReceives ==
  ASSUME TypeOK, IInv, Begins, WireInOrder, Next, NEW f \in Fwd, LineInOrder(f),
         NoneMissing(f), HostQueue, hostReader.src = f
  PROVE  LineInOrder(f)'
<1>. DEFINE d == Len(delivered[f])
            q == Len(out[f])
            n == hostReader.n
<1>1. /\ hostReader.pc = "queue" /\ LineTakes(f, n)
      /\ n = CLOSE => hostReader'.pc = "close" /\ hostReader'.src = f
      /\ n # CLOSE => hostReader' = HIdle
      /\ UNCHANGED <<forwards, last, writer, delivered, wire>>
  BY HostQueueDoes DEF Turns
<1>2. Queueing(f) /\ ~Queueing(f)' /\ ~Retiring(f)'
  BY <1>1, Numbers DEF Queueing, Retiring, HIdle
<1>3. /\ Numbered(delivered[f], 0) /\ ~last[f]
      /\ Going(f) => Numbered(out[f], d) /\ ~Ends(delivered[f]) /\ ~Ends(out[f])
  BY <1>2 DEF LineInOrder
<1>4. f <= made
  BY <1>1, Numbers DEF Begins
<1>5. Going(f) /\ n # CLOSE => n = d + q + 1
  BY <1>1, <1>2, <1>4 DEF NoneMissing, Tracked, Retiring
<1>6. n = CLOSE => Shut(f)' /\ \A i \in DOMAIN wire : wire[i].f # f
  <2>1. n = CLOSE => Shut(f) /\ \A i \in DOMAIN wire : wire[i].f # f
    BY <1>1 DEF WireInOrder
  <2>. QED BY <2>1, ShutKept
<1>7. /\ d \in Nat /\ q \in Nat /\ Len(out'[f]) = q + 1
      /\ DOMAIN out[f] = 1..q /\ DOMAIN out'[f] = 1..(q + 1)
      /\ \A i \in 1..q : out'[f][i] = out[f][i]
      /\ out'[f][q + 1].n = n
  BY <1>1, Lines DEF LineTakes
<1>8. Going(f)' <=> Going(f)
  BY <1>1 DEF Going
<1>. HIDE DEF d, q, n
<1>9. ASSUME Going(f)
      PROVE  Numbered(out[f], Len(delivered[f]))'
  <2>. SUFFICES ASSUME NEW i \in 1..(q + 1)
                PROVE  \/ out'[f][i].n = d + i
                       \/ out'[f][i].n = CLOSE /\ i = q + 1
    BY <1>1, <1>7 DEF Numbered, d
  <2>1. CASE i = q + 1
    BY <1>5, <1>7, <1>9, <2>1
  <2>2. CASE i \in 1..q
    <3>1. out[f][i].n # CLOSE /\ (out[f][i].n = d + i \/ out[f][i].n = CLOSE)
      BY <1>3, <1>7, <1>9, <2>2 DEF Ends, Numbered
    <3>. QED BY <1>7, <2>2, <3>1
  <2>. QED BY <1>7, <2>1, <2>2
<1>10. ASSUME Going(f), Ends(out[f])'
       PROVE  Shut(f)' /\ \A i \in DOMAIN wire : wire[i].f # f
  <2>1. PICK i \in 1..(q + 1) : out'[f][i].n = CLOSE
    BY <1>7, <1>10 DEF Ends
  <2>2. i = q + 1
    <3>1. i \in 1..q => out[f][i].n # CLOSE
      BY <1>3, <1>7, <1>10 DEF Ends
    <3>. QED BY <1>7, <2>1, <3>1
  <2>. QED BY <1>6, <1>7, <2>1, <2>2
<1>11. /\ Numbered(delivered[f], 0)' /\ ~last'[f]
       /\ Going(f) => ~Ends(delivered[f])'
  BY <1>1, <1>3 DEF Numbered, Ends
<1>. QED BY <1>1, <1>2, <1>8, <1>9, <1>10, <1>11 DEF LineInOrder

LEMMA LineInOrderKept ==
  ASSUME TypeOK, IInv, Begins, WireInOrder, Next, NEW f \in Fwd, LineInOrder(f),
         NoneMissing(f)
  PROVE  LineInOrder(f)'
<1>. DEFINE First == last'[f] => ~Queueing(f)' /\ (forwards'[f] # 0 => Retiring(f)')
            Second == Going(f)' /\ (Ends(delivered[f]) \/ Ends(out[f])) =>
                        /\ ~Queueing(f)' /\ ~Retiring(f)' /\ ~last'[f]
                        /\ \A i \in DOMAIN wire' : wire'[i].f # f
<1>a. /\ last[f] => ~Queueing(f) /\ (forwards[f] # 0 => Retiring(f))
      /\ Going(f) /\ (Ends(delivered[f]) \/ Ends(out[f])) =>
           /\ Shut(f) /\ ~Queueing(f) /\ ~Retiring(f) /\ ~last[f]
           /\ \A i \in DOMAIN wire : wire[i].f # f
  BY DEF LineInOrder
<1>b. last[f] => f <= made /\ (forwards'[f] # 0 => forwards[f] # 0)
  <2>1. last[f] => f <= made
    BY Numbers DEF Begins, Silent
  <2>. QED BY <2>1, Grows
<1>0. ASSUME Going(f)' => Going(f) /\ out'[f] = out[f],
             delivered'[f] = delivered[f], First, Second
      PROVE  LineInOrder(f)'
  BY <1>0, LineKeeps
<1>1. CASE LineUntouched(f)
  <2>1. UNCHANGED <<Queueing(f), Retiring(f), wire>> /\ last'[f] = last[f]
    BY <1>1 DEF LineUntouched, Queueing, Retiring
  <2>2. First /\ Second
    BY <1>1, <1>a, <1>b, <2>1 DEF LineUntouched
  <2>. QED BY <1>0, <1>1, <2>2 DEF LineUntouched
<1>2. CASE WriterSend(f) \/ FlushSend(f)
  BY <1>2, LineSends
<1>3. CASE FlushLast(f)
  BY <1>3, LineEnds
<1>4. CASE HostRecv
  <2>1. /\ hostReader.pc = "recv" /\ WireMoves
        /\ forwards[wire[1].f] = 0 => hostReader' = HIdle
        /\ forwards[wire[1].f] # 0 => hostReader'.pc = "queue" /\ hostReader'.src = wire[1].f
        /\ UNCHANGED <<forwards, writer, out, last, delivered>>
    BY <1>4, HostRecvDoes
  <2>2. ~Retiring(f) /\ ~Retiring(f)' /\ (Going(f)' <=> Going(f))
    BY <2>1 DEF Retiring, Going, HIdle
  <2>3. Queueing(f)' => forwards[f] # 0 /\ wire[1].f = f
    BY <2>1 DEF Queueing, HIdle
  <2>4. First
    BY <1>a, <2>1, <2>2, <2>3
  <2>5. Second
    BY <1>a, <2>1, <2>2, <2>3, WireTail
  <2>. QED BY <1>0, <2>1, <2>2, <2>4, <2>5
<1>5. CASE HostQueue
  <2>1. CASE hostReader.src = f
    BY <1>5, <2>1, LineReceives
  <2>2. CASE hostReader.src # f
    <3>1. /\ out'[f] = out[f] /\ UNCHANGED <<forwards, writer, last, delivered, wire>>
          /\ hostReader'.pc \in {"close", "recv"}
      BY <1>5, <2>2, HostQueueDoes DEF OnlyAt, Turns, HIdle
    <3>2. /\ ~Queueing(f)' /\ ~Retiring(f)' /\ ~Retiring(f) /\ (Going(f)' <=> Going(f))
      BY <2>2, <3>1 DEF Queueing, Retiring, Going
    <3>3. First /\ Second
      BY <1>a, <3>1, <3>2
    <3>. QED BY <1>0, <3>1, <3>2, <3>3
  <2>. QED BY <2>1, <2>2
<1>6. CASE HostQueueFull
  <2>1. /\ UNCHANGED <<forwards, writer, last, out, delivered, wire>>
        /\ hostReader.pc = "queue" /\ hostReader'.src = hostReader.src
        /\ hostReader'.pc \in {"close", "retire"}
    BY <1>6, HostQueueFullDoes DEF Turns
  <2>2. /\ ~Queueing(f)' /\ (Retiring(f)' => Queueing(f)) /\ (Going(f)' <=> Going(f))
        /\ ~Retiring(f)
    BY <2>1 DEF Queueing, Retiring, Going
  <2>3. First /\ Second
    BY <1>a, <2>1, <2>2
  <2>. QED BY <1>0, <2>1, <2>2, <2>3
<1>7. CASE HostRetire
  <2>1. /\ UNCHANGED <<forwards, writer, last, out, delivered, wire>>
        /\ hostReader.pc = "retire"
        /\ forwards[hostReader.src] = 0 => hostReader' = HIdle
        /\ forwards[hostReader.src] # 0 =>
             hostReader'.pc = "last" /\ hostReader'.src = hostReader.src
    BY <1>7, HostRetireDoes DEF Turns
  <2>2. /\ ~Queueing(f)' /\ (Going(f)' <=> Going(f))
        /\ Retiring(f)' => Retiring(f)
        /\ Retiring(f) /\ forwards[f] # 0 => Retiring(f)'
    BY <2>1, Numbers DEF Queueing, Retiring, Going, HIdle
  <2>3. First /\ Second
    BY <1>a, <2>1, <2>2
  <2>. QED BY <1>0, <2>1, <2>2, <2>3
<1>8. CASE HostRetireLast
  <2>1. /\ UNCHANGED <<forwards, writer, out, delivered, wire>>
        /\ hostReader.pc = "last" /\ OnlyAt(hostReader.src, last, last')
        /\ hostReader'.pc = "retireClose" /\ hostReader'.src = hostReader.src
    BY <1>8, HostRetireLastDoes DEF Turns
  <2>2. /\ ~Queueing(f)' /\ (Going(f)' <=> Going(f))
        /\ Retiring(f)' <=> Retiring(f)
        /\ Retiring(f) \/ last'[f] = last[f]
    BY <2>1 DEF Queueing, Retiring, Going, OnlyAt
  <2>3. First /\ Second
    BY <1>a, <2>1, <2>2
  <2>. QED BY <1>0, <2>1, <2>2, <2>3
<1>9. CASE HostRetireClose
  <2>1. /\ UNCHANGED <<writer, last, out, delivered, wire>>
        /\ hostReader.pc = "retireClose" /\ Removes(hostReader.src, "retired")
        /\ hostReader'.pc = "retireTell"
    BY <1>9, HostRetireCloseDoes DEF Turns
  <2>2. /\ ~Queueing(f)' /\ (Going(f)' <=> Going(f)) /\ ~Retiring(f)'
        /\ Retiring(f) => forwards'[f] = 0
        /\ ~Retiring(f) => forwards'[f] = forwards[f]
    BY <2>1 DEF Queueing, Retiring, Going, Removes
  <2>3. First /\ Second
    BY <1>a, <2>1, <2>2
  <2>. QED BY <1>0, <2>1, <2>2, <2>3
<1>10. CASE HostRetireTell \/ HostClose
  <2>1. /\ UNCHANGED <<writer, last, out, delivered, wire>>
        /\ hostReader.pc \in {"retireTell", "close"} /\ hostReader' = HIdle
    BY <1>10, HostRetireTellDoes, HostCloseDoes
  <2>2. /\ ~Queueing(f)' /\ (Going(f)' <=> Going(f)) /\ ~Retiring(f)' /\ ~Retiring(f)
    BY <2>1 DEF Queueing, Retiring, Going, HIdle
  <2>3. First /\ Second
    BY <1>a, <1>b, <2>1, <2>2
  <2>. QED BY <1>0, <2>1, <2>2, <2>3
<1>11. ASSUME NEW h \in Fwd, HostSends(h) \/ HostFinishes(h)
       PROVE  LineInOrder(f)'
  <2>1. /\ UNCHANGED <<forwards, writer, last, out, delivered, hostReader>>
        /\ hostEnd[h] # 0 \/ h \in dialing
        /\ \E n : WireTakes(h, n)
    BY <1>11, HostSendsDoes, HostFinishesDoes, Numbers
  <2>2. ~Shut(h)
    BY <2>1, OpenEnd
  <2>3. UNCHANGED <<Queueing(f), Retiring(f), Going(f)>>
    BY <2>1 DEF Queueing, Retiring, Going
  <2>4. f # h /\ (\A i \in DOMAIN wire : wire[i].f # f) =>
          \A i \in DOMAIN wire' : wire'[i].f # f
    BY <2>1 DEF WireTakes
  <2>5. First /\ Second
    BY <1>a, <2>1, <2>2, <2>3, <2>4
  <2>. QED BY <1>0, <2>1, <2>3, <2>5
<1>. QED BY Touches, <1>1, <1>2, <1>3, <1>4, <1>5, <1>6, <1>7, <1>8, <1>9, <1>10, <1>11

\* How far forward f has come: the frames its guest has or will get.
Line(f) == Len(delivered[f]) + Len(out[f])

LEMMA TakenIsNumber ==
  ASSUME TypeOK, IInv, NEW f \in Fwd
  PROVE  Line(f) \in Nat /\ Taken(f) \in Nat /\ hostSent[f] \in Nat
<1>1. Line(f) \in Nat /\ hostSent[f] \in Nat
  BY Lines DEF Line, TypeOK
<1>2. Queueing(f) => hostReader.n \in Nat
  BY Holding DEF Queueing, Payload
<1>. QED BY <1>1, <1>2 DEF Taken, Line

\* Nothing is missing on a forward on which nothing was said.
LEMMA NothingMissing ==
  ASSUME NEW f \in Fwd, hostSent'[f] = 0, ~Queueing(f)',
         Going(f)' => out'[f] = <<>> /\ delivered'[f] = <<>>,
         \A i \in DOMAIN wire' : wire'[i].f # f
  PROVE  NoneMissing(f)'
<1>. SUFFICES ASSUME Tracked(f)' PROVE NoneMissing(f)'
  BY DEF NoneMissing
<1>1. out'[f] = <<>> /\ delivered'[f] = <<>>
  BY DEF Tracked
<1>2. Len(out'[f]) = 0 /\ Len(delivered'[f]) = 0
  BY <1>1, EmptySeq
<1>3. Taken(f)' = Len(delivered'[f]) + Len(out'[f])
  BY DEF Taken
<1>4. Taken(f)' = 0
  BY <1>2, <1>3
<1>5. (Taken(f)' + 1)..hostSent'[f] = {}
  BY <1>4
<1>6. Taken(f)' <= hostSent'[f]
  BY <1>4
<1>. HIDE <1>4
<1>. QED BY <1>5, <1>6 DEF NoneMissing

\* A step that adds nothing to the line, and takes nothing of the forward from the wire.
LEMMA RunKeeps ==
  ASSUME TypeOK, IInv, NEW f \in Fwd, NoneMissing(f),
         Tracked(f)' => Tracked(f) /\ Taken(f)' = Taken(f) /\ Line(f)' = Line(f),
         Queueing(f)' => Queueing(f) /\ hostReader'.n = hostReader.n,
         hostSent'[f] = hostSent[f], hostEnd'[f] # 0 => hostEnd[f] # 0,
         \A i \in DOMAIN wire' : wire'[i].f = f /\ wire'[i].n # CLOSE =>
            \E j \in DOMAIN wire : wire[j] = wire'[i],
         \A i \in DOMAIN wire : wire[i].f = f /\ wire[i].n # CLOSE =>
            \E j \in DOMAIN wire' : wire'[j] = wire[i]
  PROVE  NoneMissing(f)'
<1>. SUFFICES ASSUME Tracked(f)' PROVE NoneMissing(f)'
  BY DEF NoneMissing
<1>1. Taken(f) \in Nat /\ hostSent[f] \in Nat
  BY TakenIsNumber
<1>2. /\ hostEnd[f] # 0 => Taken(f) <= hostSent[f]
      /\ Queueing(f) /\ hostReader.n # CLOSE => hostReader.n = Line(f) + 1
      /\ \A i \in DOMAIN wire : wire[i].f = f /\ wire[i].n # CLOSE => wire[i].n > Taken(f)
      /\ \A n \in (Taken(f) + 1)..hostSent[f] :
           \E i \in DOMAIN wire : wire[i].f = f /\ wire[i].n = n
  BY DEF NoneMissing, Line
<1>3. \A i \in DOMAIN wire' : wire'[i].f = f /\ wire'[i].n # CLOSE => wire'[i].n > Taken(f)
  BY <1>2
<1>4. \A n \in (Taken(f) + 1)..hostSent[f] :
         \E i \in DOMAIN wire' : wire'[i].f = f /\ wire'[i].n = n
  <2>. SUFFICES ASSUME NEW n \in (Taken(f) + 1)..hostSent[f]
                PROVE  \E i \in DOMAIN wire' : wire'[i].f = f /\ wire'[i].n = n
    OBVIOUS
  <2>1. n # CLOSE
    BY <1>1 DEF CLOSE
  <2>2. PICK i \in DOMAIN wire : wire[i].f = f /\ wire[i].n = n
    BY <1>2
  <2>. QED BY <2>1, <2>2
<1>. QED BY <1>2, <1>3, <1>4 DEF NoneMissing, Line

\* Recv: the frame the host's reader takes up is the one the line waits for.
LEMMA RunAdvances ==
  ASSUME TypeOK, IInv, WireInOrder, NEW f \in Fwd, NoneMissing(f), HostRecv
  PROVE  NoneMissing(f)'
<1>1. /\ hostReader.pc = "recv" /\ WireMoves
      /\ forwards[wire[1].f] = 0 => hostReader' = HIdle
      /\ forwards[wire[1].f] # 0 =>
           /\ hostReader'.pc = "queue" /\ hostReader'.src = wire[1].f
           /\ hostReader'.n = wire[1].n
      /\ UNCHANGED <<forwards, made, writer, out, delivered, hostEnd, dialing, missed, hostSent>>
  BY HostRecvDoes
<1>2. /\ 1 \in DOMAIN wire
      /\ \A i \in DOMAIN wire' : i \in Nat \ {0} /\ i + 1 \in DOMAIN wire /\ wire'[i] = wire[i + 1]
      /\ \A i \in DOMAIN wire : i # 1 => i - 1 \in DOMAIN wire' /\ wire'[i - 1] = wire[i]
      /\ \A i \in DOMAIN wire : i \in Nat \ {0}
  <2>1. /\ \A i \in DOMAIN wire' : i \in Nat \ {0}
        /\ \A i \in DOMAIN wire : i \in Nat \ {0}
    BY <1>1 DEF WireMoves
  <2>. QED BY <1>1, <2>1, WireTail
<1>3. ~Queueing(f) /\ ~Retiring(f) /\ ~Retiring(f)' /\ Taken(f) = Line(f)
  BY <1>1 DEF Queueing, Retiring, HIdle, Taken, Line
<1>4. Line(f) \in Nat /\ hostSent[f] \in Nat
  BY TakenIsNumber
<1>5. CASE wire[1].f # f
  <2>1. ~Queueing(f)'
    BY <1>1, <1>5, Numbers DEF Queueing, HIdle
  <2>2. Taken(f)' = Taken(f) /\ Line(f)' = Line(f)
    BY <1>1, <1>3, <2>1 DEF Taken, Line
  <2>3. Tracked(f)' => Tracked(f)
    BY <1>1, <1>3, <2>1 DEF Tracked, Going
  <2>4. \A i \in DOMAIN wire' : \E j \in DOMAIN wire : wire[j] = wire'[i]
    BY <1>2
  <2>5. \A i \in DOMAIN wire : wire[i].f = f => \E j \in DOMAIN wire' : wire'[j] = wire[i]
    BY <1>2, <1>5
  <2>. QED BY <1>1, <2>1, <2>2, <2>3, <2>4, <2>5, RunKeeps
<1>6. CASE wire[1].f = f /\ forwards[f] = 0
  <2>1. ~Queueing(f)'
    BY <1>1, <1>6, Numbers DEF Queueing, HIdle
  <2>2. ~Tracked(f)'
    BY <1>1, <1>6, <2>1 DEF Tracked
  <2>. QED BY <2>2 DEF NoneMissing
<1>7. CASE wire[1].f = f /\ forwards[f] # 0
  <2>. DEFINE n == wire[1].n
  <2>. SUFFICES ASSUME Tracked(f)' PROVE NoneMissing(f)'
    BY DEF NoneMissing
  <2>1. Queueing(f)' /\ hostReader'.n = n /\ Line(f)' = Line(f)
    BY <1>1, <1>7 DEF Queueing, Line
  <2>2. Tracked(f)
    BY <1>1, <1>3, <1>7 DEF Tracked, Going
  <2>3. /\ hostEnd[f] # 0 => Line(f) <= hostSent[f]
        /\ \A i \in DOMAIN wire : wire[i].f = f /\ wire[i].n # CLOSE => wire[i].n > Line(f)
        /\ \A m \in (Line(f) + 1)..hostSent[f] :
             \E i \in DOMAIN wire : wire[i].f = f /\ wire[i].n = m
    BY <1>3, <2>2 DEF NoneMissing
  <2>4. n \in Nat /\ n <= hostSent[f]
    BY <1>2, <1>7, Wire DEF WireInOrder, Payload
  <2>5. \A j \in DOMAIN wire : j # 1 /\ wire[j].f = f =>
          n # CLOSE /\ (wire[j].n = CLOSE \/ n < wire[j].n)
    <3>. SUFFICES ASSUME NEW j \in DOMAIN wire, j # 1, wire[j].f = f
                  PROVE  n # CLOSE /\ (wire[j].n = CLOSE \/ n < wire[j].n)
      OBVIOUS
    <3>1. 1 < j
      BY <1>2
    <3>. QED BY <1>2, <1>7, <3>1 DEF WireInOrder
  <2>. HIDE DEF n
  <2>6. n # CLOSE => n = Line(f) + 1
    <3>. SUFFICES ASSUME n # CLOSE PROVE n = Line(f) + 1
      OBVIOUS
    <3>1. n > Line(f)
      BY <1>2, <1>7, <2>3 DEF n
    <3>2. Line(f) + 1 \in (Line(f) + 1)..hostSent[f]
      BY <1>4, <2>4, <3>1
    <3>3. PICK i \in DOMAIN wire : wire[i].f = f /\ wire[i].n = Line(f) + 1
      BY <2>3, <3>2
    <3>4. i # 1 => n < Line(f) + 1
      BY <1>4, <2>5, <3>3 DEF CLOSE
    <3>. QED BY <1>4, <2>4, <3>1, <3>3, <3>4 DEF n
  <2>7. Taken(f)' = IF n # CLOSE THEN n ELSE Line(f)
    BY <2>1 DEF Taken, Line
  <2>8. \A i \in DOMAIN wire' : wire'[i].f = f /\ wire'[i].n # CLOSE => wire'[i].n > Taken(f)'
    <3>. SUFFICES ASSUME NEW i \in DOMAIN wire', wire'[i].f = f, wire'[i].n # CLOSE
                  PROVE  wire'[i].n > Taken(f)'
      OBVIOUS
    <3>1. i + 1 \in DOMAIN wire /\ wire[i + 1] = wire'[i] /\ i + 1 # 1
      BY <1>2
    <3>2. n # CLOSE /\ n < wire'[i].n
      BY <2>5, <3>1
    <3>3. wire'[i].n \in Nat
      BY <3>1, Wire DEF Payload
    <3>. QED BY <2>4, <2>7, <3>2, <3>3
  <2>9. \A m \in (Taken(f)' + 1)..hostSent[f] :
          \E i \in DOMAIN wire' : wire'[i].f = f /\ wire'[i].n = m
    <3>. SUFFICES ASSUME NEW m \in (Taken(f)' + 1)..hostSent[f]
                  PROVE  \E i \in DOMAIN wire' : wire'[i].f = f /\ wire'[i].n = m
      OBVIOUS
    <3>1. Line(f) <= Taken(f)' /\ Taken(f)' \in Nat
      BY <1>4, <2>4, <2>6, <2>7
    <3>2. m \in (Line(f) + 1)..hostSent[f] /\ m > Taken(f)'
      BY <1>4, <3>1
    <3>3. PICK i \in DOMAIN wire : wire[i].f = f /\ wire[i].n = m
      BY <2>3, <3>2
    <3>4. i # 1
      <4>1. CASE n # CLOSE
        BY <2>4, <2>7, <3>2, <3>3, <4>1 DEF n
      <4>2. CASE n = CLOSE
        BY <1>4, <3>2, <3>3, <4>2 DEF n, CLOSE
      <4>. QED BY <4>1, <4>2
    <3>. QED BY <1>2, <3>3, <3>4
  <2>10. hostEnd'[f] # 0 => Taken(f)' <= hostSent[f]
    BY <1>1, <1>4, <2>3, <2>4, <2>7
  <2>. QED BY <1>1, <2>1, <2>6, <2>8, <2>9, <2>10 DEF NoneMissing, Line
<1>. QED BY <1>5, <1>6, <1>7

\* Writing one queued frame moves it along the line.
LEMMA RunSends ==
  ASSUME TypeOK, IInv, NEW f \in Fwd, NoneMissing(f), WriterSend(f) \/ FlushSend(f)
  PROVE  NoneMissing(f)'
<1>1. /\ LineMoves(f) /\ writer[f] \in {"running", "flushing"}
      /\ UNCHANGED <<forwards, made, writer, hostReader, hostEnd, dialing, missed, hostSent, wire>>
  BY SendDoes
<1>2. Line(f)' = Line(f)
  <2>1. /\ Len(out'[f]) = Len(out[f]) - 1 /\ Len(delivered'[f]) = Len(delivered[f]) + 1
        /\ Len(out[f]) \in Nat /\ Len(delivered[f]) \in Nat
    BY <1>1, Lines DEF LineMoves
  <2>2. \A a, b \in Nat : (a + 1) + (b - 1) = a + b
    OBVIOUS
  <2>3. (Len(delivered[f]) + 1) + (Len(out[f]) - 1) = Len(delivered[f]) + Len(out[f])
    BY <2>1, <2>2
  <2>. QED BY <2>1, <2>3, Zenon DEF Line
<1>3. UNCHANGED <<Queueing(f), Retiring(f), Going(f)>>
  BY <1>1 DEF Queueing, Retiring, Going
<1>4. Tracked(f)' => Tracked(f)
  BY <1>1, <1>3 DEF Tracked
<1>5. Taken(f)' = Taken(f)
  <2>1. /\ Taken(f) = IF Queueing(f) /\ hostReader.n # CLOSE THEN hostReader.n ELSE Line(f)
        /\ Taken(f)' = IF Queueing(f)' /\ hostReader'.n # CLOSE THEN hostReader'.n ELSE Line(f)'
    BY DEF Taken, Line
  <2>. QED BY <1>1, <1>2, <1>3, <2>1
<1>. QED BY <1>1, <1>2, <1>3, <1>4, <1>5, RunKeeps

\* The frame the host's reader holds joins the line.
LEMMA RunReceives ==
  ASSUME TypeOK, IInv, WireInOrder, NEW f \in Fwd, NoneMissing(f), HostQueue,
         hostReader.src = f
  PROVE  NoneMissing(f)'
<1>. DEFINE n == hostReader.n
<1>1. /\ hostReader.pc = "queue" /\ LineTakes(f, n)
      /\ n = CLOSE => hostReader'.pc = "close" /\ hostReader'.src = f
      /\ n # CLOSE => hostReader' = HIdle
      /\ UNCHANGED <<forwards, made, writer, delivered, hostEnd, dialing, missed, hostSent, wire>>
  BY HostQueueDoes DEF Turns
<1>2. Queueing(f) /\ ~Queueing(f)' /\ ~Retiring(f)' /\ ~Retiring(f)
  BY <1>1, Numbers DEF Queueing, Retiring, HIdle
<1>. SUFFICES ASSUME Tracked(f)' PROVE NoneMissing(f)'
  BY DEF NoneMissing
<1>3. Tracked(f)
  BY <1>1, <1>2 DEF Tracked, Going
<1>4. /\ Line(f) \in Nat /\ hostSent[f] \in Nat /\ Line(f)' = Line(f) + 1
  <2>1. /\ Len(out'[f]) = Len(out[f]) + 1 /\ Len(delivered'[f]) = Len(delivered[f])
        /\ Len(out[f]) \in Nat /\ Len(delivered[f]) \in Nat
    BY <1>1, Lines DEF LineTakes
  <2>2. \A a, b \in Nat : a + (b + 1) = (a + b) + 1
    OBVIOUS
  <2>3. Len(delivered[f]) + (Len(out[f]) + 1) = (Len(delivered[f]) + Len(out[f])) + 1
    BY <2>1, <2>2
  <2>4. Line(f)' = Line(f) + 1
    BY <2>1, <2>3, Zenon DEF Line
  <2>. QED BY <2>4, TakenIsNumber
<1>5. Taken(f)' = Line(f) + 1
  <2>1. Taken(f)' = Line(f)'
    BY <1>2 DEF Taken, Line
  <2>. QED BY <2>1, <1>4
<1>6. CASE n # CLOSE
  <2>1. n = Line(f) + 1 /\ Taken(f) = n
    BY <1>2, <1>3, <1>6 DEF NoneMissing, Taken, Line
  <2>2. Taken(f)' = Taken(f)
    BY <1>5, <2>1
  <2>3. /\ hostEnd[f] # 0 => Taken(f) <= hostSent[f]
        /\ \A i \in DOMAIN wire : wire[i].f = f /\ wire[i].n # CLOSE => wire[i].n > Taken(f)
        /\ \A m \in (Taken(f) + 1)..hostSent[f] :
             \E i \in DOMAIN wire : wire[i].f = f /\ wire[i].n = m
    BY <1>3 DEF NoneMissing
  <2>. QED BY <1>1, <1>2, <2>2, <2>3 DEF NoneMissing
<1>7. CASE n = CLOSE
  <2>1. Shut(f) /\ \A i \in DOMAIN wire : wire[i].f # f
    BY <1>1, <1>7 DEF WireInOrder
  <2>2. hostEnd[f] = 0
    BY <2>1 DEF Shut
  <2>3. Taken(f) = Line(f)
    BY <1>7 DEF Taken, Line
  <2>4. \A m \in (Line(f) + 1)..hostSent[f] : FALSE
    BY <1>3, <2>1, <2>3 DEF NoneMissing
  <2>5. \A m \in (Taken(f)' + 1)..hostSent[f] : FALSE
    BY <1>4, <1>5, <2>4
  <2>. QED BY <1>1, <1>2, <2>1, <2>2, <2>5 DEF NoneMissing
<1>. QED BY <1>6, <1>7

\* The host sends its next frame.
LEMMA RunSent ==
  ASSUME TypeOK, IInv, Begins, NEW f \in Fwd, NoneMissing(f), HostSends(f)
  PROVE  NoneMissing(f)'
<1>1. /\ hostEnd[f] # 0 /\ hostSent[f] \in Nat /\ hostSent'[f] = hostSent[f] + 1
      /\ WireTakes(f, hostSent[f] + 1)
      /\ UNCHANGED <<forwards, made, out, writer, hostReader, hostEnd, delivered>>
  BY HostSendsDoes, Numbers
<1>2. UNCHANGED <<Queueing(f), Retiring(f), Tracked(f), Taken(f), Line(f)>>
  BY <1>1 DEF Queueing, Retiring, Tracked, Going, Taken, Line
<1>. SUFFICES ASSUME Tracked(f)' PROVE NoneMissing(f)'
  BY DEF NoneMissing
<1>3. Taken(f) \in Nat
  BY TakenIsNumber
<1>4. /\ Taken(f) <= hostSent[f]
      /\ Queueing(f) /\ hostReader.n # CLOSE => hostReader.n = Line(f) + 1
      /\ \A i \in DOMAIN wire : wire[i].f = f /\ wire[i].n # CLOSE => wire[i].n > Taken(f)
      /\ \A m \in (Taken(f) + 1)..hostSent[f] :
           \E i \in DOMAIN wire : wire[i].f = f /\ wire[i].n = m
  BY <1>1, <1>2 DEF NoneMissing, Line
<1>5. \A i \in DOMAIN wire' : wire'[i].f = f /\ wire'[i].n # CLOSE => wire'[i].n > Taken(f)
  <2>. SUFFICES ASSUME NEW i \in DOMAIN wire', wire'[i].f = f, wire'[i].n # CLOSE
                PROVE  wire'[i].n > Taken(f)
    OBVIOUS
  <2>1. CASE i \in DOMAIN wire
    BY <1>1, <1>4, <2>1 DEF WireTakes
  <2>2. CASE i = Len(wire) + 1
    BY <1>1, <1>3, <1>4, <2>2 DEF WireTakes
  <2>. QED BY <1>1, <2>1, <2>2 DEF WireTakes
<1>6. \A m \in (Taken(f) + 1)..(hostSent[f] + 1) :
        \E i \in DOMAIN wire' : wire'[i].f = f /\ wire'[i].n = m
  <2>. SUFFICES ASSUME NEW m \in (Taken(f) + 1)..(hostSent[f] + 1)
                PROVE  \E i \in DOMAIN wire' : wire'[i].f = f /\ wire'[i].n = m
    OBVIOUS
  <2>1. CASE m = hostSent[f] + 1
    BY <1>1, <2>1 DEF WireTakes
  <2>2. CASE m # hostSent[f] + 1
    <3>1. m \in (Taken(f) + 1)..hostSent[f]
      BY <1>1, <1>3, <2>2
    <3>2. PICK i \in DOMAIN wire : wire[i].f = f /\ wire[i].n = m
      BY <1>4, <3>1
    <3>3. i \in DOMAIN wire' /\ wire'[i] = wire[i]
      BY <1>1 DEF WireTakes
    <3>. QED BY <3>2, <3>3
  <2>. QED BY <2>1, <2>2
<1>7. Taken(f) <= hostSent[f] + 1
  BY <1>1, <1>3, <1>4
<1>. QED BY <1>1, <1>2, <1>4, <1>5, <1>6, <1>7 DEF NoneMissing, Line

LEMMA NoneMissingKept ==
  ASSUME TypeOK, IInv, Begins, WireInOrder, Next, NEW f \in Fwd, NoneMissing(f)
  PROVE  NoneMissing(f)'
<1>1. CASE LineUntouched(f)
  <2>1. UNCHANGED <<wire, hostSent, hostReader, Queueing(f), Retiring(f)>>
    BY <1>1 DEF LineUntouched, Queueing, Retiring
  <2>2. Going(f)' => Going(f) /\ out'[f] = out[f] /\ delivered'[f] = delivered[f]
    BY <1>1 DEF LineUntouched
  <2>3. CASE Silent(f)
    BY <2>1, <2>2, <2>3, NothingMissing DEF Silent, HostHolds, Queueing
  <2>4. CASE ~Silent(f)
    <3>1. f <= made
      BY <2>4, Numbers DEF Begins
    <3>2. hostEnd'[f] # 0 => hostEnd[f] # 0
      BY <2>4, EndOpened, DialSucceedsDoes DEF Begins
    <3>3. Tracked(f)' => Tracked(f)
      BY <2>1, <2>2, <3>1, Grows DEF Tracked
    <3>4. Going(f)' => Taken(f)' = Taken(f) /\ Line(f)' = Line(f)
      BY <2>1, <2>2 DEF Taken, Line
    <3>5. Tracked(f)' => Going(f)'
      BY DEF Tracked
    <3>. QED BY <2>1, <3>2, <3>3, <3>4, <3>5, RunKeeps
  <2>. QED BY <2>3, <2>4
<1>2. CASE WriterSend(f) \/ FlushSend(f)
  BY <1>2, RunSends
<1>3. CASE FlushLast(f)
  BY <1>3, FlushLastDoes DEF NoneMissing, Tracked, Going
<1>4. CASE HostRecv
  BY <1>4, RunAdvances
<1>5. CASE HostQueue
  <2>1. CASE hostReader.src = f
    BY <1>5, <2>1, RunReceives
  <2>2. CASE hostReader.src # f
    <3>1. /\ out'[f] = out[f]
          /\ UNCHANGED <<forwards, made, writer, delivered, wire, hostEnd, dialing, missed, hostSent>>
          /\ hostReader'.pc \in {"close", "recv"}
      BY <1>5, <2>2, HostQueueDoes DEF OnlyAt, Turns, HIdle
    <3>2. /\ ~Queueing(f)' /\ ~Queueing(f) /\ ~Retiring(f)' /\ ~Retiring(f)
      BY <2>2, <3>1 DEF Queueing, Retiring
    <3>3. (Tracked(f)' => Tracked(f)) /\ Taken(f)' = Taken(f) /\ Line(f)' = Line(f)
      BY <3>1, <3>2 DEF Tracked, Going, Taken, Line
    <3>. QED BY <3>1, <3>2, <3>3, RunKeeps
  <2>. QED BY <2>1, <2>2
<1>6. CASE HostQueueFull
  <2>1. /\ UNCHANGED <<forwards, made, writer, out, delivered, wire, hostEnd, dialing, missed, hostSent>>
        /\ hostReader.pc = "queue" /\ hostReader'.src = hostReader.src
        /\ hostReader.n # CLOSE => hostReader'.pc = "retire"
        /\ hostReader'.pc \in {"close", "retire"}
    BY <1>6, HostQueueFullDoes DEF Turns
  <2>2. /\ ~Queueing(f)' /\ ~Retiring(f) /\ (Going(f)' <=> Going(f)) /\ Line(f)' = Line(f)
        /\ Queueing(f) /\ hostReader.n # CLOSE => Retiring(f)'
    BY <2>1 DEF Queueing, Retiring, Going, Line
  <2>3. Tracked(f)' => /\ forwards[f] # 0 /\ Going(f) /\ f <= made
                       /\ ~(Queueing(f) /\ hostReader.n # CLOSE)
    BY <2>1, <2>2 DEF Tracked
  <2>4. Tracked(f)' => Tracked(f) /\ Taken(f)' = Taken(f) /\ Line(f)' = Line(f)
    BY <2>1, <2>2, <2>3 DEF Tracked, Taken, Line
  <2>. QED BY <2>1, <2>2, <2>4, RunKeeps
<1>7. CASE HostRetire
  <2>1. /\ UNCHANGED <<forwards, made, writer, out, delivered, wire, hostEnd, dialing, missed, hostSent>>
        /\ hostReader.pc = "retire"
        /\ forwards[hostReader.src] = 0 => hostReader' = HIdle
        /\ forwards[hostReader.src] # 0 =>
             hostReader'.pc = "last" /\ hostReader'.src = hostReader.src
    BY <1>7, HostRetireDoes DEF Turns
  <2>2. /\ ~Queueing(f)' /\ ~Queueing(f) /\ (Going(f)' <=> Going(f)) /\ Line(f)' = Line(f)
        /\ Retiring(f) /\ forwards[f] # 0 => Retiring(f)'
    BY <2>1 DEF Queueing, Retiring, Going, HIdle, Line
  <2>3. Tracked(f)' => Tracked(f) /\ Taken(f)' = Taken(f) /\ Line(f)' = Line(f)
    BY <2>1, <2>2 DEF Tracked, Taken, Line
  <2>. QED BY <2>1, <2>2, <2>3, RunKeeps
<1>8. CASE HostRetireLast
  <2>1. /\ UNCHANGED <<forwards, made, writer, out, delivered, wire, hostEnd, dialing, missed, hostSent>>
        /\ hostReader.pc = "last"
        /\ hostReader'.pc = "retireClose" /\ hostReader'.src = hostReader.src
    BY <1>8, HostRetireLastDoes DEF Turns
  <2>2. /\ ~Queueing(f)' /\ ~Queueing(f) /\ (Going(f)' <=> Going(f)) /\ Line(f)' = Line(f)
        /\ Retiring(f)' <=> Retiring(f)
    BY <2>1 DEF Queueing, Retiring, Going, Line
  <2>3. Tracked(f)' => Tracked(f) /\ Taken(f)' = Taken(f) /\ Line(f)' = Line(f)
    BY <2>1, <2>2 DEF Tracked, Taken, Line
  <2>. QED BY <2>1, <2>2, <2>3, RunKeeps
<1>9. CASE HostRetireClose
  <2>1. /\ UNCHANGED <<made, writer, out, delivered, wire, hostEnd, dialing, missed, hostSent>>
        /\ hostReader.pc = "retireClose" /\ Removes(hostReader.src, "retired")
        /\ hostReader'.pc = "retireTell"
    BY <1>9, HostRetireCloseDoes DEF Turns
  <2>2. /\ ~Queueing(f)' /\ ~Queueing(f) /\ (Going(f)' <=> Going(f)) /\ Line(f)' = Line(f)
        /\ Retiring(f) => forwards'[f] = 0
        /\ ~Retiring(f) => forwards'[f] = forwards[f]
    BY <2>1 DEF Queueing, Retiring, Going, Removes, Line
  <2>3. Tracked(f)' => Tracked(f) /\ Taken(f)' = Taken(f) /\ Line(f)' = Line(f)
    BY <2>1, <2>2 DEF Tracked, Taken, Line
  <2>. QED BY <2>1, <2>2, <2>3, RunKeeps
<1>10. CASE HostRetireTell \/ HostClose
  <2>1. /\ UNCHANGED <<made, writer, out, delivered, wire, hostSent>>
        /\ hostReader.pc \in {"retireTell", "close"} /\ hostReader' = HIdle
        /\ forwards'[f] \in {0, forwards[f]} /\ hostEnd'[f] \in {0, hostEnd[f]}
    BY <1>10, HostRetireTellDoes, HostCloseDoes DEF Removes, Tells
  <2>2. /\ ~Queueing(f)' /\ ~Queueing(f) /\ (Going(f)' <=> Going(f)) /\ Line(f)' = Line(f)
        /\ ~Retiring(f)' /\ ~Retiring(f)
    BY <2>1 DEF Queueing, Retiring, Going, HIdle, Line
  <2>3. Tracked(f)' => Tracked(f) /\ Taken(f)' = Taken(f) /\ Line(f)' = Line(f)
    BY <2>1, <2>2 DEF Tracked, Taken, Line
  <2>. QED BY <2>1, <2>2, <2>3, RunKeeps
<1>11. ASSUME NEW h \in Fwd, HostSends(h)
       PROVE  NoneMissing(f)'
  <2>1. CASE h = f
    BY <1>11, <2>1, RunSent
  <2>2. CASE h # f
    <3>1. /\ UNCHANGED <<forwards, made, writer, out, delivered, hostReader, hostEnd>>
          /\ WireTakes(h, hostSent[h] + 1) /\ hostSent'[f] = hostSent[f]
      BY <1>11, <2>2, HostSendsDoes DEF OnlyAt
    <3>2. UNCHANGED <<Queueing(f), Tracked(f), Taken(f), Line(f)>>
      BY <3>1 DEF Queueing, Retiring, Tracked, Going, Taken, Line
    <3>3. /\ \A i \in DOMAIN wire : \E j \in DOMAIN wire' : wire'[j] = wire[i]
          /\ \A i \in DOMAIN wire' : wire'[i].f = f => \E j \in DOMAIN wire : wire[j] = wire'[i]
      BY <2>2, <3>1 DEF WireTakes
    <3>. QED BY <3>1, <3>2, <3>3, RunKeeps
  <2>. QED BY <2>1, <2>2
<1>12. ASSUME NEW h \in Fwd, HostFinishes(h)
       PROVE  NoneMissing(f)'
  <2>1. /\ UNCHANGED <<forwards, made, writer, out, delivered, hostReader, hostSent>>
        /\ WireTakes(h, CLOSE) /\ hostEnd'[f] \in {0, hostEnd[f]}
    BY <1>12, HostFinishesDoes DEF OnlyAt
  <2>2. UNCHANGED <<Queueing(f), Tracked(f), Taken(f), Line(f)>>
    BY <2>1 DEF Queueing, Retiring, Tracked, Going, Taken, Line
  <2>3. /\ \A i \in DOMAIN wire : \E j \in DOMAIN wire' : wire'[j] = wire[i]
        /\ \A i \in DOMAIN wire' : wire'[i].n # CLOSE => \E j \in DOMAIN wire : wire[j] = wire'[i]
    BY <2>1 DEF WireTakes
  <2>. QED BY <2>1, <2>2, <2>3, RunKeeps
<1>. QED BY Touches, <1>1, <1>2, <1>3, <1>4, <1>5, <1>6, <1>7, <1>8, <1>9, <1>10, <1>11, <1>12

LEMMA DeliveryInit == Init => Delivery
<1>. SUFFICES ASSUME Init PROVE Delivery
  OBVIOUS
<1>1. hostReader.pc = "recv" /\ wire = <<>> /\ DOMAIN wire = {}
  BY DEF Init, HIdle
<1>2. WireInOrder
  BY <1>1 DEF WireInOrder
<1>3. ASSUME NEW f \in Fwd
      PROVE  LineInOrder(f) /\ NoneMissing(f)
  <2>1. out[f] = <<>> /\ delivered[f] = <<>> /\ ~last[f] /\ made = 0 /\ f # 0
    BY <1>3, Numbers, InitType DEF Init
  <2>2. LineInOrder(f)
    BY <2>1 DEF LineInOrder, Numbered, Ends
  <2>3. ~Tracked(f)
    BY <2>1, Numbers, InitType DEF Tracked
  <2>. QED BY <2>2, <2>3 DEF NoneMissing
<1>. QED BY <1>2, <1>3 DEF Delivery

LEMMA DeliveryStuttering == Delivery /\ UNCHANGED vars => Delivery'
<1>. SUFFICES ASSUME Delivery, UNCHANGED vars PROVE Delivery'
  OBVIOUS
<1>1. UNCHANGED <<wire, hostSent, hostReader, made, hostEnd, dialing, reader, out, delivered,
                  last, writer, forwards>>
  BY DEF vars
<1>2. WireInOrder'
  BY <1>1 DEF Delivery, WireInOrder, Shut, Opens
<1>3. ASSUME NEW f \in Fwd
      PROVE  LineInOrder(f)' /\ NoneMissing(f)'
  <2>1. UNCHANGED <<Queueing(f), Retiring(f), Going(f), Shut(f), Numbered(delivered[f], 0),
                    Numbered(out[f], Len(delivered[f])), Ends(out[f]), Ends(delivered[f])>>
    BY <1>1 DEF Queueing, Retiring, Going, Shut, Opens, Numbered, Ends
  <2>2. LineInOrder(f)'
    BY <1>1, <2>1 DEF Delivery, LineInOrder
  <2>3. UNCHANGED <<Tracked(f), Taken(f)>>
    BY <1>1, <2>1 DEF Tracked, Taken
  <2>4. NoneMissing(f)'
    <3>1. NoneMissing(f)
      BY DEF Delivery
    <3>. HIDE DEF Queueing, Retiring, Going, Tracked, Taken
    <3>2. /\ (Tracked(f)' <=> Tracked(f)) /\ (Queueing(f)' <=> Queueing(f)) /\ Taken(f)' = Taken(f)
          /\ hostEnd'[f] = hostEnd[f] /\ hostSent'[f] = hostSent[f] /\ out'[f] = out[f]
          /\ delivered'[f] = delivered[f] /\ hostReader' = hostReader /\ wire' = wire
      BY <1>1, <2>1, <2>3
    <3>3. Tracked(f)' =>
            /\ hostEnd'[f] # 0 => Taken(f)' <= hostSent'[f]
            /\ Queueing(f)' /\ hostReader'.n # CLOSE =>
                 hostReader'.n = Len(delivered'[f]) + Len(out'[f]) + 1
            /\ \A i \in DOMAIN wire' :
                 wire'[i].f = f /\ wire'[i].n # CLOSE => wire'[i].n > Taken(f)'
      BY <3>1, <3>2 DEF NoneMissing
    <3>4. ASSUME Tracked(f)', NEW n \in (Taken(f)' + 1)..hostSent'[f]
          PROVE  \E i \in DOMAIN wire' : wire'[i].f = f /\ wire'[i].n = n
      BY <3>1, <3>2, <3>4 DEF NoneMissing
    <3>. QED BY <3>3, <3>4 DEF NoneMissing
  <2>. QED BY <2>2, <2>4
<1>. QED BY <1>2, <1>3 DEF Delivery

\* What a forward's guest was sent, what waits for it, what the host's reader holds and what
\* is on the wire is one run of frames, numbered as the host sent them, while the relay
\* routes the forward (fromHostChannel, forward.queue, runForwardWriter).
THEOREM DeliveryHolds == Spec => []Delivery
<1>1. TypeOK /\ IInv /\ Begins /\ Delivery /\ [Next]_vars => Delivery'
  <2>1. ASSUME TypeOK, IInv, Begins, Delivery, Next PROVE Delivery'
    BY <2>1, WireInOrderKept, LineInOrderKept, NoneMissingKept DEF Delivery
  <2>. QED BY <2>1, DeliveryStuttering
<1>. QED BY <1>1, DeliveryInit, TypeInvariance, IndInvariance, BeginsHolds, PTL DEF Spec

\* A guest sees a forward's frames without a gap, in the order the host sent them, and
\* nothing after a CLOSE, be it the host's or the relay's own notice (fromHostChannel retires
\* a forward rather than drop one of its frames).
THEOREM InOrderHolds == Spec => []InOrder
<1>1. ASSUME TypeOK, Delivery PROVE InOrder
  <2>1. \A f \in Fwd : \A i \in DOMAIN delivered[f] : 0 + i = i
    BY <1>1, Lines
  <2>2. \A f \in Fwd : \A i \in DOMAIN delivered[f] :
           \/ delivered[f][i].n = 0 + i
           \/ delivered[f][i].n = CLOSE /\ i = Len(delivered[f])
    BY <1>1 DEF Delivery, LineInOrder, Numbered
  <2>. QED BY <2>1, <2>2 DEF InOrder
<1>. QED BY <1>1, TypeInvariance, DeliveryHolds, PTL

-----------------------------------------------------------------------------
(* Telling: the host hears of a forward that ended.                          *)

\* What the host was told while it dialled stays told.
LEMMA MissedGrows ==
  ASSUME TypeOK, IInv, Begins, Next
  PROVE  missed \subseteq missed'
<1>. DEFINE Goal == missed \subseteq missed'
<1>1. ASSUME NEW g \in Guests, NEW c \in Channels, GuestOpen(g, c)
      PROVE  Goal
  BY <1>1, GuestOpenDoes
<1>2. ASSUME NEW g \in Guests, NEW c \in Channels, NEW k \in {"data", "close"},
             GuestFrame(g, c, k)
      PROVE  Goal
  BY <1>2, GuestFrameDoes
<1>3. ASSUME NEW g \in Guests, ReaderTell(g)
      PROVE  Goal
  BY <1>3, ReaderTellDoes
<1>4. ASSUME NEW g \in Guests,
             \/ ReaderClose(g) \/ ReaderTellFails(g) \/ ReaderExit(g)
             \/ GuestLeave(g) \/ GuestCleanup(g)
      PROVE  Goal
  BY <1>4, ReaderCloseDoes, ReaderEndsDoes, GuestLeaveDoes, GuestCleanupDoes
<1>5. ASSUME NEW g \in Guests, NEW k \in Fwd, GuestTell(g, k)
      PROVE  Goal
  BY <1>5, GuestTellDoes DEF Tells
<1>6. ASSUME NEW k \in Fwd, WriterStep(k)
      PROVE  Goal
  <2>1. CASE WriterSend(k) \/ FlushSend(k)
    BY <2>1, SendDoes
  <2>2. CASE WriterSendFails(k) \/ WriterFailClose(k)
    BY <2>2, WriterSendFailsDoes, WriterFailCloseDoes
  <2>3. CASE WriterFailTell(k)
    BY <2>3, WriterFailTellDoes DEF Tells
  <2>4. CASE WriterStopped(k) \/ WriterCancelled(k) \/ FlushFails(k)
    BY <2>4, WriterMovesDoes
  <2>5. CASE FlushLast(k)
    BY <2>5, FlushLastDoes
  <2>. QED BY <1>6, <2>1, <2>2, <2>3, <2>4, <2>5 DEF WriterStep
<1>7. ASSUME \/ HostRecv \/ HostQueue \/ HostQueueFull \/ HostRetire \/ HostRetireLast
             \/ HostRetireClose \/ HostClose \/ HostBreaks \/ BridgeClose
      PROVE  Goal
  BY <1>7, HostRecvDoes, HostQueueDoes, HostQueueFullDoes, HostRetireDoes,
     HostRetireLastDoes, HostRetireCloseDoes, HostCloseDoes, HostGoesDoes
<1>8. ASSUME HostRetireTell
      PROVE  Goal
  BY <1>8, HostRetireTellDoes DEF Tells
<1>9. ASSUME NEW h \in Fwd, HostSends(h) \/ HostFinishes(h) \/ DialSucceeds(h)
      PROVE  Goal
  BY <1>9, HostSendsDoes, HostFinishesDoes, DialSucceedsDoes
<1>. QED BY Steps, <1>1, <1>2, <1>3, <1>4, <1>5, <1>6, <1>7, <1>8, <1>9

LEMMA TellingKept ==
  ASSUME TypeOK, IInv, Begins, WireInOrder, Telling, Next
  PROVE  Telling'
<1>. DEFINE Has(f) == hostEnd[f] = f \/ f \in dialing
            Guard(f) == /\ f <= made /\ forwards[f] = 0 /\ host = "up"
                        /\ conn[fwd[f].guest] = "attached" /\ Has(f) /\ f \notin missed
            ByReader(f) == /\ reader[fwd[f].guest].pc = "tell"
                           /\ reader[fwd[f].guest].kind = "close"
                           /\ reader[fwd[f].guest].f = f
            ByHostReader(f) == hostReader.pc = "retireTell" /\ hostReader.chan = f
            Aware(f) == ByReader(f) \/ writer[f] = "telling" \/ ByHostReader(f)
<1>a. \A f \in Fwd : Guard(f) => Aware(f)
  BY DEF Telling
<1>. SUFFICES ASSUME NEW f \in Fwd, Guard(f)' PROVE Aware(f)'
  BY DEF Telling
<1>. DEFINE o == fwd[f].guest
<1>b. /\ f # 0 /\ f \in Nat /\ made \in Nat
      /\ \A g \in Guests : conn'[g] = "attached" => conn[g] = "attached"
      /\ f <= made => fwd'[f] = fwd[f] /\ o \in Guests /\ f \in 1..made
      /\ f \notin missed
  BY Numbers, Grows, MissedGrows DEF IInv, Numbering
<1>1. ASSUME NEW g \in Guests, NEW c \in Channels, GuestOpen(g, c)
      PROVE  Aware(f)'
  <2>1. f <= made /\ f # made + 1
    BY <1>1, <1>b, GuestOpenDoes
  <2>2. Guard(f) /\ UNCHANGED <<hostReader>> /\ writer'[f] = writer[f] /\ fwd'[f] = fwd[f]
    BY <1>1, <1>b, <2>1, GuestOpenDoes DEF OnlyAt
  <2>3. reader[g].pc = "recv" /\ OnlyOf(g, reader, reader')
    BY <1>1, GuestOpenDoes
  <2>4. ByReader(f) => reader'[o] = reader[o]
    BY <1>b, <2>1, <2>3 DEF OnlyOf
  <2>. QED BY <1>a, <2>2, <2>4
<1>2. ASSUME UNCHANGED made
      PROVE  f <= made /\ o \in Guests /\ fwd'[f] = fwd[f] /\ conn[o] = "attached"
  BY <1>2, <1>b
<1>3. ASSUME UNCHANGED <<made, host, hostReader, writer>>, forwards[f] = 0, Has(f),
             reader'[o] = reader[o] \/ ~ByReader(f)
      PROVE  Aware(f)'
  BY <1>3, <1>2, <1>a, <1>b
<1>4. ASSUME NEW g \in Guests, NEW c \in Channels, NEW k \in {"data", "close"},
             GuestFrame(g, c, k)
      PROVE  Aware(f)'
  <2>1. /\ reader[g].pc = "recv" /\ OnlyOf(g, reader, reader')
        /\ UNCHANGED <<made, host, hostReader, writer, forwards, hostEnd, dialing>>
    BY <1>4, GuestFrameDoes
  <2>2. reader'[o] = reader[o] \/ ~ByReader(f)
    BY <1>2, <2>1 DEF OnlyOf
  <2>. QED BY <2>1, <2>2, <1>3
<1>5. ASSUME NEW g \in Guests, ReaderClose(g)
      PROVE  Aware(f)'
  <2>1. /\ reader[g].pc = "close" /\ reader[g].f \in Fwd /\ Removes(reader[g].f, "guest")
        /\ reader'[g].pc = "tell" /\ reader'[g].f = reader[g].f
        /\ reader'[g].kind = reader[g].kind /\ OnlyOf(g, reader, reader')
        /\ UNCHANGED <<made, fwd, host, hostReader, writer, hostEnd, dialing>>
    BY <1>5, ReaderCloseDoes
  <2>2. reader[g].kind = "close" /\ fwd[reader[g].f].guest = g
    BY <2>1 DEF Begins
  <2>3. CASE reader[g].f = f
    BY <2>1, <2>2, <2>3
  <2>4. CASE reader[g].f # f
    <3>1. forwards[f] = 0
      BY <2>1, <2>4 DEF Removes
    <3>2. reader'[o] = reader[o] \/ ~ByReader(f)
      BY <1>2, <2>1 DEF OnlyOf
    <3>. QED BY <2>1, <3>1, <3>2, <1>3
  <2>. QED BY <2>3, <2>4
<1>6. ASSUME NEW g \in Guests, ReaderTell(g)
      PROVE  Aware(f)'
  <2>1. /\ reader[g].pc = "tell" /\ reader[g].f \in Fwd
        /\ reader[g].kind \in {"open", "data", "close"}
        /\ hostEnd'[reader[g].f] = IF reader[g].kind = "close" THEN 0 ELSE hostEnd[reader[g].f]
        /\ dialing' = IF reader[g].kind = "open" THEN dialing \cup {reader[g].f} ELSE dialing
        /\ missed' = IF reader[g].kind = "close" THEN missed \cup (dialing \cap {reader[g].f})
                                                 ELSE missed
        /\ OnlyAt(reader[g].f, hostEnd, hostEnd') /\ OnlyOf(g, reader, reader')
        /\ UNCHANGED <<made, host, hostReader, writer, forwards, conn, fwd>>
    BY <1>6, ReaderTellDoes
  <2>2. fwd[reader[g].f].guest = g
    BY <2>1 DEF Begins
  <2>3. CASE reader[g].f = f /\ reader[g].kind = "open"
    BY <2>1, <2>2, <2>3 DEF Begins, Opens
  <2>4. CASE reader[g].f = f /\ reader[g].kind = "close"
    BY <2>1, <2>4, <1>b
  <2>5. CASE reader[g].f # f \/ reader[g].kind = "data"
    <3>1. Has(f)
      BY <2>1, <2>5 DEF OnlyAt
    <3>2. reader'[o] = reader[o] \/ ~ByReader(f)
      BY <1>2, <2>1, <2>5 DEF OnlyOf
    <3>. QED BY <2>1, <3>1, <3>2, <1>3
  <2>. QED BY <2>1, <2>3, <2>4, <2>5
<1>7. ASSUME NEW g \in Guests, ReaderTellFails(g) \/ ReaderExit(g)
      PROVE  Aware(f)'
  <2>1. /\ OnlyOf(g, reader, reader')
        /\ reader[g].pc = "recv" \/ host # "up" \/ conn[g] # "attached"
        /\ UNCHANGED <<made, host, hostReader, writer, forwards, hostEnd, dialing, conn, fwd>>
    BY <1>7, ReaderEndsDoes
  <2>2. reader'[o] = reader[o] \/ ~ByReader(f)
    BY <1>2, <2>1 DEF OnlyOf
  <2>. QED BY <2>1, <2>2, <1>3
<1>8. ASSUME NEW g \in Guests, GuestLeave(g)
      PROVE  Aware(f)'
  <2>1. UNCHANGED <<made, host, hostReader, writer, forwards, hostEnd, dialing, reader>>
    BY <1>8, GuestLeaveDoes
  <2>. QED BY <2>1, <1>3
<1>9. ASSUME NEW g \in Guests, GuestCleanup(g)
      PROVE  Aware(f)'
  <2>1. /\ conn'[g] = "cleaning"
        /\ fwd[f].guest # g => forwards'[f] = forwards[f]
        /\ UNCHANGED <<made, fwd, host, hostReader, writer, hostEnd, dialing, reader>>
    BY <1>9, GuestCleanupDoes
  <2>2. o # g
    BY <2>1
  <2>. QED BY <2>1, <2>2, <1>3
<1>10. ASSUME NEW g \in Guests, NEW k \in Fwd, GuestTell(g, k)
       PROVE  Aware(f)'
  <2>1. /\ Tells(k) /\ UNCHANGED <<made, fwd, host, hostReader, writer, forwards, reader>>
    BY <1>10, GuestTellDoes
  <2>2. Has(f)
    BY <1>b, <2>1 DEF Tells
  <2>. QED BY <2>1, <2>2, <1>3
<1>11. ASSUME NEW k \in Fwd, WriterStep(k)
       PROVE  Aware(f)'
  <2>1. UNCHANGED <<made, fwd, reader, conn, hostReader, host, dialing>>
    BY <1>11, WriterOthers
  <2>2. ASSUME forwards'[f] = forwards[f], hostEnd'[f] = hostEnd[f],
               writer'[f] = writer[f] \/ writer[f] # "telling"
        PROVE  Aware(f)'
    BY <1>a, <1>b, <1>2, <2>1, <2>2
  <2>3. CASE k # f
    BY <1>11, <2>2, <2>3, WriterOthers DEF OnlyAt
  <2>4. CASE WriterSend(f) \/ FlushSend(f)
    BY <2>2, <2>4, SendDoes
  <2>5. CASE WriterSendFails(f)
    BY <2>2, <2>5, WriterSendFailsDoes
  <2>6. CASE WriterFailClose(f)
    BY <2>6, WriterFailCloseDoes
  <2>7. CASE WriterFailTell(f)
    BY <1>b, <2>1, <2>7, WriterFailTellDoes DEF Tells
  <2>8. CASE WriterStopped(f) \/ WriterCancelled(f) \/ FlushFails(f)
    BY <2>2, <2>8, WriterMovesDoes
  <2>9. CASE FlushLast(f)
    BY <2>2, <2>9, FlushLastDoes
  <2>. QED BY <1>11, <2>3, <2>4, <2>5, <2>6, <2>7, <2>8, <2>9 DEF WriterStep
<1>12. ASSUME UNCHANGED <<made, fwd, host, writer, reader, forwards, conn>>, Has(f),
              hostReader.pc # "retireTell" \/ UNCHANGED hostReader
       PROVE  Aware(f)'
  BY <1>a, <1>b, <1>2, <1>12
<1>13. ASSUME \/ HostRecv \/ HostQueue \/ HostQueueFull
       PROVE  Aware(f)'
  BY <1>12, <1>13, HostRecvDoes, HostQueueDoes, HostQueueFullDoes
<1>14. ASSUME HostRetire \/ HostRetireLast
       PROVE  Aware(f)'
  BY <1>12, <1>14, HostRetireDoes, HostRetireLastDoes
<1>15. ASSUME HostRetireClose
       PROVE  Aware(f)'
  <2>1. /\ hostReader.pc = "retireClose" /\ hostReader'.pc = "retireTell"
        /\ hostReader'.chan = hostReader.chan /\ hostReader.chan = hostReader.src
        /\ Removes(hostReader.src, "retired")
        /\ UNCHANGED <<made, fwd, host, writer, reader, hostEnd, dialing, conn>>
    BY <1>15, HostRetireCloseDoes DEF Turns
  <2>2. CASE hostReader.src = f
    BY <2>1, <2>2
  <2>3. CASE hostReader.src # f
    <3>1. forwards[f] = 0
      BY <2>1, <2>3 DEF Removes
    <3>. QED BY <1>a, <1>b, <1>2, <2>1, <3>1
  <2>. QED BY <2>2, <2>3
<1>16. ASSUME HostRetireTell
       PROVE  Aware(f)'
  <2>1. /\ hostReader.chan = hostReader.src /\ Tells(hostReader.src)
        /\ UNCHANGED <<made, fwd, host, writer, reader, forwards, conn>>
    BY <1>16, HostRetireTellDoes
  <2>2. Has(f) /\ hostReader.src # f
    BY <1>b, <2>1 DEF Tells
  <2>. QED BY <1>a, <1>b, <1>2, <2>1, <2>2
<1>17. ASSUME HostClose
       PROVE  Aware(f)'
  <2>1. /\ hostReader.pc = "close" /\ Removes(hostReader.src, "host")
        /\ UNCHANGED <<made, fwd, host, writer, reader, hostEnd, dialing, conn>>
    BY <1>17, HostCloseDoes
  <2>2. hostEnd[hostReader.src] = 0 /\ hostReader.src \notin dialing
    BY <2>1 DEF WireInOrder, Shut
  <2>3. hostReader.src # f /\ forwards[f] = 0
    BY <1>b, <2>1, <2>2 DEF Removes
  <2>. QED BY <1>a, <1>b, <1>2, <2>1, <2>3
<1>18. ASSUME NEW h \in Fwd, HostSends(h) \/ HostFinishes(h) \/ DialSucceeds(h)
       PROVE  Aware(f)'
  <2>1. CASE HostSends(h)
    BY <1>12, <2>1, HostSendsDoes
  <2>2. CASE HostFinishes(h)
    BY <1>12, <2>2, <1>b, HostFinishesDoes DEF OnlyAt
  <2>3. CASE DialSucceeds(h)
    BY <1>12, <2>3, <1>b, DialSucceedsDoes DEF OnlyAt
  <2>. QED BY <1>18, <2>1, <2>2, <2>3
<1>19. ASSUME HostBreaks \/ BridgeClose
       PROVE  Aware(f)'
  BY <1>19, HostGoesDoes
<1>. HIDE DEF Aware
<1>. QED BY Steps, <1>1, <1>4, <1>5, <1>6, <1>7, <1>8, <1>9, <1>10, <1>11, <1>13, <1>14, <1>15,
            <1>16, <1>17, <1>18, <1>19

\* Whatever takes a forward off the map while its guest stays tells the host by a CLOSE, or
\* is about to: the guest's own reader, the forward's writer, or the host's reader that
\* retires it (closeForward and tellHostForwardEnded).
THEOREM TellingHolds == Spec => []Telling
<1>1. Init => Telling
  <2>1. ASSUME Init, NEW f \in Fwd PROVE hostEnd[f] # f /\ f \notin dialing
    BY <2>1, Numbers, InitType DEF Init
  <2>. QED BY <2>1 DEF Telling
<1>2. TypeOK /\ IInv /\ Begins /\ Delivery /\ Telling /\ [Next]_vars => Telling'
  <2>1. Telling /\ UNCHANGED vars => Telling'
    BY DEF Telling, vars
  <2>. QED BY <2>1, TellingKept DEF Delivery
<1>. QED BY <1>1, <1>2, TypeInvariance, IndInvariance, BeginsHolds, DeliveryHolds, PTL DEF Spec

\* The host neither keeps nor dials a socket for a forward that ended while its guest stayed,
\* unless whoever ended it is about to tell the host, or told it while it was dialling, when
\* hostForwards.close finds nothing to drop (closeForward, tellHostForwardEnded).
THEOREM EndedIsToldToHostHolds == Spec => []EndedIsToldToHost
<1>1. ASSUME TypeOK, IInv, Telling PROVE EndedIsToldToHost
  <2>. SUFFICES ASSUME NEW f \in Fwd, f <= made, forwards[fwd[f].hostChan] # f, host = "up",
                       conn[fwd[f].guest] = "attached",
                       hostEnd[fwd[f].hostChan] = f \/ f \in dialing
                PROVE  \/ reader[fwd[f].guest].pc = "tell" /\ reader[fwd[f].guest].f = f
                       \/ writer[f] = "telling"
                       \/ hostReader.pc = "retireTell" /\ hostReader.chan = fwd[f].hostChan
                       \/ f \in missed
    BY DEF EndedIsToldToHost
  <2>1. fwd[f].hostChan = f
    BY <1>1, Numbers DEF IInv, Numbering
  <2>2. forwards[f] = 0
    BY <1>1, <2>1, Numbers DEF IInv, Numbering
  <2>. QED BY <1>1, <2>1, <2>2 DEF Telling
<1>. QED BY <1>1, TypeInvariance, IndInvariance, TellingHolds, PTL

-----------------------------------------------------------------------------
(* Flushing: what the writer of a stopped forward leaves.                    *)

\* A step that leaves the line of a forward and its writer alone.
LEMMA FlushedStays ==
  ASSUME NEW f \in Fwd, Flushed(f),
         forwards'[f] \in {0, forwards[f]},
         \/ cause'[f] = cause[f]
         \/ forwards'[f] = 0 /\ cause'[f] \notin {"host", "retired"},
         HostHolds(f)' => HostHolds(f) /\ hostReader' = hostReader,
         stops[f] \in Nat, stops'[f] \in Nat, stops'[f] >= stops[f],
         conn'[fwd[f].guest] = "attached" => conn[fwd[f].guest] = "attached",
         fwd'[f] = fwd[f], out'[f] = out[f], last'[f] = last[f],
         delivered'[f] = delivered[f], writer'[f] = writer[f]
  PROVE  Flushed(f)'
<1>1. forwards'[f] # 0 => forwards[f] # 0 /\ cause'[f] = cause[f]
  OBVIOUS
<1>2. cause'[f] \in {"host", "retired"} => cause'[f] = cause[f]
  OBVIOUS
<1>3. Told(f)' <=> Told(f)
  BY DEF Told
<1>4. /\ writer'[f] = "flushing" => stops'[f] > 0
      /\ writer'[f] = "done" => stops'[f] > 0 \/ conn'[fwd'[f].guest] # "attached"
  BY DEF Flushed
<1>5. /\ forwards'[f] # 0 => cause'[f] = "none"
      /\ cause'[f] \in {"host", "retired"} =>
           forwards'[f] = 0 /\ ~(HostHolds(f)' /\ hostReader'.pc # "retireTell")
      /\ HostHolds(f)' /\ hostReader'.pc = "retireClose" /\ forwards'[f] # 0 => last'[f]
  BY <1>1, <1>2 DEF Flushed
<1>6. /\ cause'[f] = "retired" => last'[f] \/ (writer'[f] = "done" /\ Told(f)')
      /\ (writer'[f] = "done" /\ cause'[f] \in {"host", "retired"}
            /\ conn'[fwd'[f].guest] = "attached") => out'[f] = <<>> /\ ~last'[f]
  BY <1>2, <1>3 DEF Flushed
<1>. QED BY <1>4, <1>5, <1>6 DEF Flushed

\* The steps of the forward's own writer.
LEMMA FlushedByWriter ==
  ASSUME TypeOK, IInv, NEW f \in Fwd, Flushed(f), WriterStep(f), stops'[f] >= stops[f],
         stops'[f] \in Nat
  PROVE  Flushed(f)'
<1>a. UNCHANGED <<fwd, conn, hostReader>> /\ (HostHolds(f)' <=> HostHolds(f))
  BY WriterOthers DEF HostHolds
<1>b. stops[f] \in Nat /\ (stops[f] > 0 => forwards[f] = 0)
  BY DEF TypeOK, IInv, StopState
<1>1. CASE WriterSend(f) \/ FlushSend(f)
  <2>1. /\ writer[f] \in {"running", "flushing"}
        /\ UNCHANGED <<forwards, last, stops, writer, cause>>
    BY <1>1, SendDoes
  <2>. QED BY <1>a, <2>1 DEF Flushed
<1>2. CASE WriterSendFails(f)
  <2>1. /\ writer[f] = "running" /\ writer'[f] = "failing"
        /\ UNCHANGED <<forwards, last, stops, cause>>
    BY <1>2, WriterSendFailsDoes
  <2>. QED BY <1>a, <2>1 DEF Flushed
<1>3. CASE WriterFailClose(f)
  <2>1. /\ writer[f] = "failing" /\ writer'[f] = "telling" /\ UNCHANGED last
        /\ forwards'[f] = 0 /\ cause'[f] \in {cause[f], "write"}
    BY <1>3, WriterFailCloseDoes DEF Removes
  <2>. QED BY <1>a, <2>1 DEF Flushed
<1>4. CASE WriterFailTell(f)
  <2>1. /\ writer[f] = "telling" /\ writer'[f] = "broken"
        /\ UNCHANGED <<forwards, last, stops, cause>>
    BY <1>4, WriterFailTellDoes
  <2>. QED BY <1>a, <2>1 DEF Flushed
<1>5. CASE WriterStopped(f) \/ WriterCancelled(f) \/ FlushFails(f)
  <2>1. /\ \/ writer[f] = "running" /\ writer'[f] = "flushing" /\ stops[f] > 0
           \/ /\ writer[f] = "running" /\ writer'[f] = "done"
              /\ conn[fwd[f].guest] # "attached"
           \/ writer[f] = "flushing" /\ writer'[f] = "broken"
        /\ UNCHANGED <<forwards, last, stops, cause>>
    BY <1>5, WriterMovesDoes
  <2>. QED BY <1>a, <2>1 DEF Flushed
<1>6. CASE FlushLast(f)
  <2>1. /\ writer[f] = "flushing" /\ writer'[f] = "done" /\ out[f] = <<>> /\ ~last'[f]
        /\ last[f] => Notice(f)
        /\ UNCHANGED <<forwards, out, stops, cause>>
    BY <1>6, FlushLastDoes
  <2>2. last[f] => Told(f)'
    BY <2>1 DEF Notice, Told
  <2>3. stops[f] > 0 /\ forwards[f] = 0
    BY <1>b, <2>1 DEF Flushed
  <2>. QED BY <1>a, <2>1, <2>2, <2>3 DEF Flushed
<1>. QED BY <1>1, <1>2, <1>3, <1>4, <1>5, <1>6 DEF WriterStep

LEMMA FlushedAtOpen ==
  ASSUME TypeOK, IInv, Begins, NEW g \in Guests, NEW c \in Channels, GuestOpen(g, c),
         NEW f \in Fwd, f = made + 1
  PROVE  Flushed(f)'
<1>1. /\ f > made
      /\ writer'[f] = "running" /\ cause'[f] = cause[f] /\ hostReader' = hostReader
  BY GuestOpenDoes, Numbers
<1>2. Silent(f) /\ cause[f] = "none"
  BY <1>1 DEF Begins
<1>3. ~HostHolds(f)'
  BY <1>1, <1>2 DEF Silent, HostHolds
<1>. QED BY <1>1, <1>2, <1>3 DEF Flushed

LEMMA FlushingKept ==
  ASSUME TypeOK, TypeOK', IInv, IInv', Begins, Begins', Flushing, Next
  PROVE  Flushing'
<1>. SUFFICES ASSUME NEW f \in Fwd PROVE Flushed(f)'
  BY DEF Flushing
<1>a. Flushed(f)
  BY DEF Flushing
<1>b. /\ stops[f] \in Nat /\ stops'[f] \in Nat /\ stops'[f] >= stops[f]
      /\ forwards[f] # 0 => stops[f] = 0
      /\ \A g \in Guests : conn'[g] = "attached" => conn[g] = "attached"
      /\ f \in Nat /\ made \in Nat /\ made' \in Nat
      /\ f <= made => fwd'[f] = fwd[f] /\ fwd[f].guest \in Guests
  BY Grows, Numbers DEF TypeOK, IInv, StopState, Numbering
<1>1. CASE f > made'
  <2>1. ~(f <= made')
    BY <1>1, <1>b
  <2>2. writer'[f] = "none" /\ cause'[f] = "none" /\ Silent(f)'
    BY <1>1, <2>1 DEF Begins, IInv, WritersMade
  <2>. QED BY <2>2 DEF Flushed, Silent
<1>2. ASSUME NEW g \in Guests, NEW c \in Channels, GuestOpen(g, c), f <= made'
      PROVE  Flushed(f)'
  <2>1. CASE f = made + 1
    BY <1>2, <2>1, FlushedAtOpen
  <2>2. CASE f # made + 1
    <3>1. /\ f <= made /\ forwards'[f] = forwards[f] /\ writer'[f] = writer[f]
          /\ UNCHANGED <<cause, hostReader, conn, out, last, delivered>>
      BY <1>2, <2>2, <1>b, GuestOpenDoes DEF OnlyAt
    <3>. QED BY <1>a, <1>b, <3>1, FlushedStays DEF HostHolds
  <2>. QED BY <2>1, <2>2
<1>. SUFFICES ASSUME f <= made', \A g \in Guests, c \in Channels : ~GuestOpen(g, c)
              PROVE  Flushed(f)'
  BY <1>1, <1>2, <1>b
<1>3. ASSUME UNCHANGED made,
             forwards'[f] \in {0, forwards[f]},
             \/ cause'[f] = cause[f]
             \/ forwards'[f] = 0 /\ cause'[f] \notin {"host", "retired"},
             HostHolds(f)' => HostHolds(f) /\ hostReader' = hostReader,
             out'[f] = out[f], last'[f] = last[f],
             delivered'[f] = delivered[f], writer'[f] = writer[f]
      PROVE  Flushed(f)'
  BY <1>3, <1>a, <1>b, FlushedStays
<1>4. ASSUME NEW g \in Guests, ReaderClose(g)
      PROVE  Flushed(f)'
  <2>1. /\ Removes(reader[g].f, "guest")
        /\ UNCHANGED <<made, out, last, writer, hostReader, delivered>>
    BY <1>4, ReaderCloseDoes
  <2>. QED BY <1>3, <2>1 DEF Removes, HostHolds
<1>5. ASSUME NEW g \in Guests,
             \/ \E c \in Channels, k \in {"data", "close"} : GuestFrame(g, c, k)
             \/ ReaderTell(g) \/ ReaderTellFails(g) \/ ReaderExit(g) \/ GuestLeave(g)
             \/ \E k \in Fwd : GuestTell(g, k)
      PROVE  Flushed(f)'
  <2>1. UNCHANGED <<made, forwards, cause, out, last, writer, hostReader, delivered>>
    BY <1>5, GuestFrameDoes, ReaderTellDoes, ReaderEndsDoes, GuestLeaveDoes, GuestTellDoes
  <2>. QED BY <1>3, <2>1 DEF HostHolds
<1>6. ASSUME NEW g \in Guests, GuestCleanup(g)
      PROVE  Flushed(f)'
  <2>1. /\ forwards'[f] \in {0, forwards[f]}
        /\ cause'[f] = cause[f] \/ cause'[f] = "left"
        /\ forwards'[f] # 0 => cause'[f] = cause[f]
        /\ UNCHANGED <<made, out, last, writer, hostReader, delivered>>
    BY <1>6, GuestCleanupDoes
  <2>. QED BY <1>3, <2>1 DEF HostHolds
<1>7. ASSUME NEW k \in Fwd, WriterStep(k)
      PROVE  Flushed(f)'
  <2>1. CASE k = f
    BY <1>7, <1>a, <1>b, <2>1, FlushedByWriter
  <2>2. CASE k # f
    <3>1. /\ forwards'[f] = forwards[f] /\ cause'[f] = cause[f] /\ out'[f] = out[f]
          /\ last'[f] = last[f] /\ writer'[f] = writer[f] /\ delivered'[f] = delivered[f]
          /\ UNCHANGED <<made, hostReader>>
      BY <1>7, <2>2, WriterOthers DEF OnlyAt
    <3>. QED BY <1>3, <3>1 DEF HostHolds
  <2>. QED BY <2>1, <2>2
<1>8. ASSUME HostRecv
      PROVE  Flushed(f)'
  <2>1. /\ hostReader.pc = "recv"
        /\ forwards[wire[1].f] = 0 => hostReader' = HIdle
        /\ forwards[wire[1].f] # 0 => hostReader'.pc = "queue" /\ hostReader'.src = wire[1].f
        /\ UNCHANGED <<made, forwards, cause, out, last, writer, conn, fwd, stops, delivered>>
    BY <1>8, HostRecvDoes
  <2>2. HostHolds(f)' => forwards[f] # 0 /\ hostReader'.pc = "queue"
    BY <2>1 DEF HostHolds, HIdle
  <2>3. Told(f)' <=> Told(f)
    BY <2>1 DEF Told
  <2>. QED BY <1>a, <2>1, <2>2, <2>3 DEF Flushed
<1>9. ASSUME HostQueue
      PROVE  Flushed(f)'
  <2>1. /\ hostReader.pc = "queue" /\ OnlyAt(hostReader.src, out, out')
        /\ Turns("close") \/ hostReader' = HIdle
        /\ UNCHANGED <<made, forwards, cause, last, writer, conn, fwd, stops, delivered>>
    BY <1>9, HostQueueDoes
  <2>2. HostHolds(f)' => HostHolds(f) /\ hostReader'.pc = "close"
    BY <2>1 DEF HostHolds, Turns, HIdle
  <2>3. Told(f)' <=> Told(f)
    BY <2>1 DEF Told
  <2>4. out'[f] = out[f] \/ HostHolds(f)
    BY <2>1 DEF OnlyAt, HostHolds
  <2>5. HostHolds(f) => cause[f] \notin {"host", "retired"}
    BY <1>a, <2>1 DEF Flushed
  <2>. QED BY <1>a, <2>1, <2>2, <2>3, <2>4, <2>5 DEF Flushed
<1>10. ASSUME HostQueueFull \/ HostRetire
       PROVE  Flushed(f)'
  <2>1. /\ hostReader.pc \in {"queue", "retire"}
        /\ Turns("close") \/ Turns("retire") \/ Turns("last") \/ hostReader' = HIdle
        /\ UNCHANGED <<made, forwards, cause, out, last, writer, conn, fwd, stops, delivered>>
    BY <1>10, HostQueueFullDoes, HostRetireDoes
  <2>2. HostHolds(f)' => HostHolds(f) /\ hostReader'.pc # "retireClose"
    BY <2>1 DEF HostHolds, Turns, HIdle
  <2>3. Told(f)' <=> Told(f)
    BY <2>1 DEF Told
  <2>4. HostHolds(f) => cause[f] \notin {"host", "retired"}
    BY <1>a, <2>1 DEF Flushed
  <2>. QED BY <1>a, <2>1, <2>2, <2>3, <2>4 DEF Flushed
<1>11. ASSUME HostRetireLast
       PROVE  Flushed(f)'
  <2>1. /\ hostReader.pc = "last" /\ Turns("retireClose")
        /\ last'[hostReader.src] = TRUE /\ OnlyAt(hostReader.src, last, last')
        /\ UNCHANGED <<made, forwards, cause, out, writer, conn, fwd, stops, delivered>>
    BY <1>11, HostRetireLastDoes
  <2>2. HostHolds(f)' => HostHolds(f) /\ last'[f]
    BY <2>1 DEF HostHolds, Turns
  <2>3. Told(f)' <=> Told(f)
    BY <2>1 DEF Told
  <2>4. last'[f] = last[f] \/ HostHolds(f)
    BY <2>1 DEF OnlyAt, HostHolds
  <2>5. HostHolds(f) => cause[f] \notin {"host", "retired"}
    BY <1>a, <2>1 DEF Flushed
  <2>. QED BY <1>a, <2>1, <2>2, <2>3, <2>4, <2>5 DEF Flushed
<1>12. ASSUME HostRetireClose
       PROVE  Flushed(f)'
  <2>1. /\ hostReader.pc = "retireClose" /\ Turns("retireTell")
        /\ Removes(hostReader.src, "retired")
        /\ UNCHANGED <<made, out, last, writer, conn, fwd, delivered>>
    BY <1>12, HostRetireCloseDoes
  <2>2. hostReader'.pc = "retireTell" /\ (HostHolds(f)' <=> HostHolds(f))
    BY <2>1 DEF HostHolds, Turns
  <2>3. Told(f)' <=> Told(f)
    BY <2>1 DEF Told
  <2>4. CASE HostHolds(f) /\ forwards[f] # 0
    <3>1. /\ forwards'[f] = 0 /\ cause'[f] = "retired" /\ last[f] /\ stops[f] = 0
      BY <1>a, <1>b, <2>1, <2>4 DEF Removes, HostHolds, Flushed
    <3>2. writer[f] = "done" => conn[fwd[f].guest] # "attached"
      BY <1>a, <3>1 DEF Flushed
    <3>3. writer[f] # "flushing"
      BY <1>a, <3>1 DEF Flushed
    <3>. QED BY <2>1, <2>2, <3>1, <3>2, <3>3 DEF Flushed
  <2>5. CASE ~(HostHolds(f) /\ forwards[f] # 0)
    <3>1. forwards'[f] = forwards[f] /\ cause'[f] = cause[f] /\ stops'[f] = stops[f]
      BY <2>1, <2>5 DEF Removes, HostHolds
    <3>. QED BY <1>a, <2>1, <2>2, <2>3, <3>1 DEF Flushed
  <2>. QED BY <2>4, <2>5
<1>13. ASSUME HostClose
       PROVE  Flushed(f)'
  <2>1. /\ hostReader.pc = "close" /\ hostReader' = HIdle
        /\ Removes(hostReader.src, "host")
        /\ UNCHANGED <<made, out, last, writer, conn, fwd, delivered>>
    BY <1>13, HostCloseDoes
  <2>2. ~HostHolds(f)'
    BY <2>1 DEF HostHolds, HIdle
  <2>3. Told(f)' <=> Told(f)
    BY <2>1 DEF Told
  <2>4. CASE HostHolds(f) /\ forwards[f] # 0
    <3>1. /\ forwards'[f] = 0 /\ cause'[f] = "host" /\ stops[f] = 0
      BY <1>b, <2>1, <2>4 DEF Removes, HostHolds
    <3>2. writer[f] = "done" => conn[fwd[f].guest] # "attached"
      BY <1>a, <3>1 DEF Flushed
    <3>3. writer[f] # "flushing"
      BY <1>a, <3>1 DEF Flushed
    <3>. QED BY <2>1, <2>2, <3>1, <3>2, <3>3 DEF Flushed
  <2>5. CASE ~(HostHolds(f) /\ forwards[f] # 0)
    <3>1. forwards'[f] = forwards[f] /\ cause'[f] = cause[f] /\ stops'[f] = stops[f]
      BY <2>1, <2>5 DEF Removes, HostHolds
    <3>. QED BY <1>a, <2>1, <2>2, <2>3, <3>1 DEF Flushed
  <2>. QED BY <2>4, <2>5
<1>14. ASSUME HostRetireTell
       PROVE  Flushed(f)'
  <2>1. /\ hostReader' = HIdle
        /\ UNCHANGED <<made, forwards, cause, out, last, writer, delivered>>
    BY <1>14, HostRetireTellDoes
  <2>. QED BY <1>3, <2>1 DEF HostHolds, HIdle
<1>15. ASSUME \/ \E h \in Fwd : HostSends(h) \/ HostFinishes(h) \/ DialSucceeds(h)
              \/ HostBreaks \/ BridgeClose
       PROVE  Flushed(f)'
  <2>1. UNCHANGED <<made, forwards, cause, out, last, writer, hostReader, delivered>>
    BY <1>15, HostSendsDoes, HostFinishesDoes, DialSucceedsDoes, HostGoesDoes
  <2>. QED BY <1>3, <2>1 DEF HostHolds
<1>. QED BY Steps, <1>4, <1>5, <1>6, <1>7, <1>8, <1>9, <1>10, <1>11, <1>12, <1>13, <1>14, <1>15

\* A forward the host's reader closed is off the map before its writer ends, a retired one
\* has the relay's own notice waiting before its writer is told to stop, and a writer that
\* flushes was stopped (retireForward sets forward.last, then closeForward stops it).
THEOREM FlushingHolds == Spec => []Flushing
<1>1. Init => Flushing
  <2>1. ASSUME Init, NEW f \in Fwd
        PROVE  writer[f] = "none" /\ cause[f] = "none" /\ ~HostHolds(f)
    BY <2>1, Numbers, InitType DEF Init, HostHolds, HIdle
  <2>. QED BY <2>1 DEF Flushing, Flushed
<1>2. TypeOK /\ TypeOK' /\ IInv /\ IInv' /\ Begins /\ Begins' /\ Flushing /\ [Next]_vars => Flushing'
  <2>1. Flushing /\ UNCHANGED vars => Flushing'
    BY DEF Flushing, Flushed, HostHolds, Told, vars
  <2>. QED BY <2>1, FlushingKept
<1>. QED BY <1>1, <1>2, TypeInvariance, IndInvariance, BeginsHolds, PTL DEF Spec

\* A writer that ended because its forward was closed from the host's side leaves nothing
\* behind for a guest that is still there, and the guest of a forward the relay gave up on
\* was told so (runForwardWriter and flushForward, forward.last).
THEOREM StoppedIsFlushedHolds == Spec => []StoppedIsFlushed
<1>1. Flushing => StoppedIsFlushed
  BY DEF Flushing, Flushed, StoppedIsFlushed
<1>. QED BY <1>1, FlushingHolds, PTL
=============================================================================
