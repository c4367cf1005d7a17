------------------------- MODULE BridgeFanOutProofs -------------------------
(***************************************************************************)
(* Ending a shared session overlooks nobody, for any number of guests and   *)
(* viewers, queues of any depth, any ring and any output.                   *)
(***************************************************************************)
EXTENDS BridgeFanOut, SequenceTheorems, TLAPS

-----------------------------------------------------------------------------
(* Sequences of what was written, whatever its elements are. *)

LEMMA Appended ==
  ASSUME NEW s, NEW f, IsSeq(s)
  PROVE  /\ IsSeq(Append(s, f)) /\ Append(s, f) # <<>>
         /\ Append(s, f)[Len(Append(s, f))] = f
<1>. DEFINE S == {s[i] : i \in DOMAIN s} \cup {f}
            t == Append(s, f)
<1>1. s \in Seq(S) /\ f \in S
  <2>1. s \in Seq({s[i] : i \in DOMAIN s})
    BY DEF IsSeq
  <2>. QED BY <2>1
<1>2. /\ t \in Seq(S) /\ Len(t) = Len(s) + 1 /\ Len(s) \in Nat /\ t[Len(s) + 1] = f
  <2>. HIDE DEF S
  <2>. QED BY <1>1
<1>3. t \in [1..Len(t) -> S] /\ DOMAIN t = 1..Len(t) /\ Len(t) \in Nat
  <2>. HIDE DEF S, t
  <2>. QED BY <1>2, LenProperties
<1>4. t \in Seq({t[i] : i \in DOMAIN t})
  <2>1. t \in [1..Len(t) -> {t[i] : i \in DOMAIN t}]
    <3>. HIDE DEF S, t
    <3>. QED BY <1>3
  <2>. HIDE DEF t
  <2>. QED BY <1>3, <2>1
<1>5. t # <<>> /\ t[Len(t)] = f
  <2>. HIDE DEF S, t
  <2>. QED BY <1>2
<1>. QED BY <1>4, <1>5 DEF IsSeq

LEMMA Nothing == ASSUME NEW s, IsSeq(s) PROVE s \o <<>> = s
  BY DEF IsSeq

LEMMA Joined == ASSUME NEW s, NEW f, IsSeq(s) PROVE s \o <<f>> = Append(s, f)
<1>. DEFINE S == {s[i] : i \in DOMAIN s} \cup {f}
<1>1. s \in Seq(S) /\ f \in S
  <2>1. s \in Seq({s[i] : i \in DOMAIN s})
    BY DEF IsSeq
  <2>. QED BY <2>1
<1>. HIDE DEF S
<1>. QED BY <1>1

LEMMA QueueTail ==
  ASSUME NEW S, NEW q \in Seq(S), q # <<>>
  PROVE  /\ Tail(q) \in Seq(S) /\ Head(q) \in S
         /\ IF Tail(q) = <<>> THEN Head(q) = q[Len(q)] ELSE Tail(q)[Len(Tail(q))] = q[Len(q)]
<1>. DEFINE t == Tail(q)
<1>1. /\ Head(q) \in S /\ t \in Seq(S) /\ Len(t) = Len(q) - 1 /\ Head(q) = q[1]
      /\ \A i \in 1..Len(t) : t[i] = q[i + 1]
  BY HeadTailProperties
<1>2. Len(q) \in Nat \ {0} /\ Len(<<>>) = 0 /\ Len(t) \in Nat
  BY <1>1, EmptySeq, LenProperties
<1>. HIDE DEF t
<1>3. t = <<>> => Len(q) = 1
  BY <1>1, <1>2
<1>4. t # <<>> => Len(t) \in 1..Len(t) /\ Len(t) + 1 = Len(q)
  BY <1>1, <1>2, EmptySeq
<1>. QED BY <1>1, <1>3, <1>4 DEF t

LEMMA QueueAppend ==
  ASSUME NEW S, NEW q \in Seq(S), NEW f \in S
  PROVE  /\ Append(q, f) \in Seq(S) /\ Append(q, f) # <<>>
         /\ Append(q, f)[Len(Append(q, f))] = f
  OBVIOUS

-----------------------------------------------------------------------------
(* What a step leaves alone. *)

\* Nothing of guest d changes, and it stays in the sets it is in.
Spared(d) ==
  /\ main'[d] = main[d] /\ stopped'[d] = stopped[d] /\ cancelled'[d] = cancelled[d]
  /\ lost'[d] = lost[d] /\ writer'[d] = writer[d] /\ reader'[d] = reader[d]
  /\ typed'[d] = typed[d] /\ queue'[d] = queue[d] /\ held'[d] = held[d]
  /\ seen'[d] = seen[d] /\ owed'[d] = owed[d]
  /\ (d \in guests' <=> d \in guests) /\ (d \in toStop' <=> d \in toStop)
  /\ (d \in slow' <=> d \in slow)

LEMMA SparedKeeps ==
  ASSUME NEW d \in Guests, OfGuest(d), Spared(d),
         UNCHANGED <<hostPc, casting, relay>>
  PROVE  OfGuest(d)'
<1>1. Leaves(d)'
  BY DEF OfGuest, Leaves, Spared
<1>2. Pumping(d)'
  BY DEF OfGuest, Pumping, Spared
<1>3. ReleasedByWriter(d)'
  BY DEF OfGuest, ReleasedByWriter, Undisturbed, ShutDown, Spared
<1>4. CloseIsLast(d)'
  BY DEF OfGuest, CloseIsLast, Spared
<1>. QED BY <1>1, <1>2, <1>3, <1>4 DEF OfGuest

\* The bridge's own state, as far as Collected speaks of it.
bridgeVars == <<host, closed, guests, toStop, slow, hostPc, casting, frames, sent, relay>>

LEMMA QuietBridge ==
  ASSUME IInv, UNCHANGED bridgeVars, Domains', Written', NEW g \in Guests, OfGuest(g)',
         \A d \in Guests \ {g} : Spared(d)
  PROVE  IInv'
<1>1. Collected'
  BY DEF IInv, Collected, bridgeVars
<1>2. \A d \in Guests : OfGuest(d)'
  BY SparedKeeps DEF IInv, bridgeVars
<1>. QED BY <1>1, <1>2 DEF IInv

-----------------------------------------------------------------------------
(* A guest's ServeGuest. *)

LEMMA GuestAttachKeeps ==
  ASSUME IInv, NEW g \in Guests, GuestAttach(g)
  PROVE  IInv'
<1>1. Domains' /\ Written'
  BY DEF IInv, Domains, Written, ShutDown, GuestAttach, connVars, pumpVars, hostVars
<1>2. Collected'
  BY DEF IInv, Collected, GuestAttach, hostVars
<1>3. \A d \in Guests \ {g} : Spared(d)
  BY DEF IInv, Domains, Spared, GuestAttach, connVars, pumpVars, hostVars
<1>4. OfGuest(g)'
  <2>1. main'[g] = "replay" /\ main[g] = "away" /\ g \in guests'
    BY DEF IInv, Domains, GuestAttach
  <2>2. Leaves(g)'
    BY <2>1 DEF IInv, OfGuest, Leaves, GuestAttach, connVars, hostVars
  <2>3. Pumping(g)'
    BY <2>1 DEF IInv, OfGuest, Pumping, GuestAttach, connVars, pumpVars, hostVars
  <2>4. ReleasedByWriter(g)'
    BY <2>1 DEF IInv, OfGuest, ReleasedByWriter, Undisturbed, ShutDown, Domains, GuestAttach,
              pumpVars, hostVars
  <2>5. CloseIsLast(g)'
    BY DEF IInv, OfGuest, CloseIsLast, GuestAttach, connVars, pumpVars, hostVars
  <2>. QED BY <2>2, <2>3, <2>4, <2>5 DEF OfGuest
<1>5. hostPc' = hostPc /\ casting' = casting /\ relay' = relay
  BY DEF GuestAttach, hostVars
<1>. QED BY <1>1, <1>2, <1>3, <1>4, <1>5, SparedKeeps DEF IInv

LEMMA ReplaySentKeeps ==
  ASSUME IInv, NEW g \in Guests, ReplaySent(g)
  PROVE  IInv'
<1>. DEFINE f == Head(backlog[g])
<1>1. seen' = [seen EXCEPT ![g] = Append(seen[g], f)] /\ main[g] = "replay"
  BY DEF ReplaySent
<1>. HIDE DEF f
<1>2. IsSeq(seen[g]) /\ DOMAIN seen = Guests
  BY DEF IInv, Written
<1>3. DOMAIN seen' = Guests /\ seen'[g] = Append(seen[g], f) /\ IsSeq(Append(seen[g], f))
      /\ \A d \in Guests \ {g} : seen'[d] = seen[d]
  BY <1>1, <1>2, Appended
<1>4. Domains' /\ Written'
  <2>1. Domains'
    BY DEF IInv, Domains, ReplaySent, connVars, pumpVars, hostVars
  <2>2. Written'
    BY <1>3 DEF IInv, Written
  <2>. QED BY <2>1, <2>2
<1>5. \A d \in Guests \ {g} : Spared(d)
  BY <1>3 DEF Spared, ReplaySent, connVars, pumpVars, hostVars
<1>6. OfGuest(g)'
  <2>1. Leaves(g)'
    BY DEF IInv, OfGuest, Leaves, ReplaySent, connVars, hostVars
  <2>2. Pumping(g)'
    BY DEF IInv, OfGuest, Pumping, ReplaySent, connVars, pumpVars, hostVars
  <2>3. ReleasedByWriter(g)'
    BY DEF IInv, OfGuest, ReleasedByWriter, Undisturbed, ShutDown, ReplaySent, connVars, pumpVars,
              hostVars
  <2>4. writer[g] = "off"
    BY <1>1 DEF IInv, OfGuest, Pumping
  <2>5. CloseIsLast(g)'
    BY <2>4 DEF IInv, OfGuest, CloseIsLast, ReplaySent, connVars, pumpVars, hostVars
  <2>. QED BY <2>1, <2>2, <2>3, <2>5 DEF OfGuest
<1>7. UNCHANGED bridgeVars
  BY DEF ReplaySent, hostVars, bridgeVars
<1>. QED BY <1>4, <1>5, <1>6, <1>7, QuietBridge

LEMMA ReturnKeeps ==
  ASSUME IInv, NEW g \in Guests, ReplayFails(g) \/ GuestReturns(g)
  PROVE  IInv'
<1>1. /\ main' = [main EXCEPT ![g] = "leaving"] /\ main[g] \in {"replay", "serving"}
      /\ cancelled' = [cancelled EXCEPT ![g] = TRUE]
      /\ UNCHANGED <<host, closed, guests, toStop, hostVars, queue, stopped, pumpVars, seen, owed,
                     relay>>
  BY DEF ReplayFails, GuestReturns, Return
<1>2. /\ lost' \in [Guests -> BOOLEAN] /\ \A d \in Guests \ {g} : lost'[d] = lost[d]
      /\ lost[g] => lost'[g]
      /\ Undisturbed(g)' => main[g] = "serving" /\ lost' = lost
           /\ (ReaderOver(g) \/ writer[g] = "done" \/ cancelled[g])
  <2>1. CASE ReplayFails(g)
    <3>1. cancelled[g] \/ lost'[g]
      BY <2>1 DEF ReplayFails, SendFails, Broken, IInv, Domains
    <3>2. Undisturbed(g)' => Undisturbed(g)
      BY <2>1 DEF ReplayFails, SendFails, Broken, IInv, Domains, Undisturbed, ShutDown, pumpVars
    <3>3. Undisturbed(g) /\ cancelled[g] => main[g] # "replay"
      BY DEF IInv, OfGuest, ReleasedByWriter
    <3>. QED BY <2>1, <3>1, <3>2, <3>3
             DEF ReplayFails, SendFails, Broken, IInv, Domains, Undisturbed, ShutDown
  <2>2. CASE GuestReturns(g)
    BY <2>2 DEF GuestReturns, IInv, Domains, ReaderOver
  <2>. QED BY <2>1, <2>2
<1>3. main'[g] = "leaving" /\ cancelled'[g] = TRUE
  BY <1>1 DEF IInv, Domains
<1>4. Domains' /\ Written'
  BY <1>1, <1>2 DEF IInv, Domains, Written, pumpVars, hostVars
<1>5. \A d \in Guests \ {g} : Spared(d)
  BY <1>1, <1>2 DEF IInv, Domains, Spared, pumpVars, hostVars
<1>6. OfGuest(g)'
  <2>1. Leaves(g)'
    BY <1>1, <1>3 DEF IInv, OfGuest, Leaves, hostVars
  <2>2. Pumping(g)'
    BY <1>1, <1>3 DEF IInv, OfGuest, Pumping, pumpVars
  <2>3. ReleasedByWriter(g)'
    <3>1. SUFFICES ASSUME Undisturbed(g)'
                   PROVE  ReleasedByWriter(g)'
      BY DEF ReleasedByWriter
    <3>2. Undisturbed(g)
      BY <1>1, <1>2, <3>1 DEF Undisturbed, ShutDown, pumpVars
    <3>3. ~cancelled[g] /\ reader[g] # "done" /\ reader[g] # "left"
      BY <1>2, <3>1, <3>2 DEF IInv, OfGuest, ReleasedByWriter, Undisturbed, ShutDown
    <3>4. writer[g] = "done"
      BY <1>2, <3>1, <3>3 DEF ReaderOver
    <3>. QED BY <1>1, <1>3, <3>2, <3>3, <3>4
             DEF IInv, OfGuest, ReleasedByWriter, Undisturbed, ShutDown, pumpVars
  <2>4. CloseIsLast(g)'
    BY <1>1 DEF IInv, OfGuest, CloseIsLast, pumpVars, hostVars
  <2>. QED BY <2>1, <2>2, <2>3, <2>4 DEF OfGuest
<1>7. UNCHANGED bridgeVars
  BY <1>1 DEF hostVars, bridgeVars
<1>. QED BY <1>4, <1>5, <1>6, <1>7, QuietBridge

LEMMA StartPumpsKeeps ==
  ASSUME IInv, NEW g \in Guests, StartPumps(g)
  PROVE  IInv'
<1>1. Domains' /\ Written'
  BY DEF IInv, Domains, Written, StartPumps, connVars, hostVars
<1>2. \A d \in Guests \ {g} : Spared(d)
  BY DEF IInv, Domains, Spared, StartPumps, connVars, hostVars
<1>3. /\ main[g] = "replay" /\ main'[g] = "serving" /\ writer'[g] = "run" /\ reader'[g] = "recv"
      /\ UNCHANGED <<queue, connVars, held, typed, seen, owed, bridgeVars>>
  BY DEF IInv, Domains, StartPumps, hostVars, bridgeVars
<1>4. writer[g] = "off" /\ reader[g] = "off"
  BY <1>3 DEF IInv, OfGuest, Pumping
<1>5. OfGuest(g)'
  <2>1. Leaves(g)'
    BY <1>3 DEF IInv, OfGuest, Leaves, connVars, bridgeVars
  <2>2. Pumping(g)'
    BY <1>3, <1>4 DEF IInv, OfGuest, Pumping, connVars
  <2>3. ReleasedByWriter(g)'
    BY <1>3, <1>4 DEF IInv, OfGuest, ReleasedByWriter, Undisturbed, ShutDown, connVars, bridgeVars
  <2>4. CloseIsLast(g)'
    BY <1>3, <1>4 DEF IInv, OfGuest, CloseIsLast, bridgeVars
  <2>. QED BY <2>1, <2>2, <2>3, <2>4 DEF OfGuest
<1>. QED BY <1>1, <1>2, <1>3, <1>5, QuietBridge

LEMMA GuestCleanupKeeps ==
  ASSUME IInv, NEW g \in Guests, GuestCleanup(g)
  PROVE  IInv'
<1>1. Domains' /\ Written'
  BY DEF IInv, Domains, Written, GuestCleanup, pumpVars, hostVars
<1>2. Collected'
  BY DEF IInv, Collected, GuestCleanup, hostVars
<1>3. \A d \in Guests \ {g} : Spared(d)
  BY DEF IInv, Domains, Spared, GuestCleanup, pumpVars, hostVars
<1>4. /\ main[g] = "leaving" /\ main'[g] = "gone" /\ g \notin guests' /\ stopped'[g] = TRUE
      /\ UNCHANGED <<queue, cancelled, lost, pumpVars, seen, owed, toStop, hostVars, relay>>
  BY DEF IInv, Domains, GuestCleanup
<1>5. OfGuest(g)'
  <2>1. Leaves(g)'
    BY <1>4 DEF IInv, OfGuest, Leaves, hostVars
  <2>2. Pumping(g)'
    BY <1>4 DEF IInv, OfGuest, Pumping, pumpVars
  <2>3. ReleasedByWriter(g)'
    BY <1>4 DEF IInv, OfGuest, ReleasedByWriter, Undisturbed, ShutDown, pumpVars
  <2>4. CloseIsLast(g)'
    BY <1>4 DEF IInv, OfGuest, CloseIsLast, pumpVars, hostVars
  <2>. QED BY <2>1, <2>2, <2>3, <2>4 DEF OfGuest
<1>. QED BY <1>1, <1>2, <1>3, <1>4, <1>5, SparedKeeps DEF IInv, hostVars

\* Watchdog and GuestLost close the transport: the guest is no longer undisturbed.
LEMMA TransportClosedKeeps ==
  ASSUME IInv, NEW g \in Guests, Watchdog(g) \/ GuestLost(g)
  PROVE  IInv'
<1>1. /\ lost' = [lost EXCEPT ![g] = TRUE]
      /\ cancelled' = [cancelled EXCEPT ![g] = TRUE] \/ cancelled' = cancelled
      /\ UNCHANGED <<main, queue, stopped, pumpVars, seen, owed, bridgeVars>>
  BY DEF Watchdog, GuestLost, hostVars, bridgeVars
<1>2. Domains' /\ Written'
  BY <1>1 DEF IInv, Domains, Written, pumpVars, bridgeVars
<1>3. \A d \in Guests \ {g} : Spared(d)
  BY <1>1 DEF IInv, Domains, Spared, pumpVars, bridgeVars
<1>4. OfGuest(g)'
  <2>1. Leaves(g)'
    BY <1>1 DEF IInv, OfGuest, Leaves, bridgeVars
  <2>2. Pumping(g)'
    BY <1>1 DEF IInv, OfGuest, Pumping, pumpVars
  <2>3. ReleasedByWriter(g)'
    BY <1>1 DEF IInv, Domains, ReleasedByWriter, Undisturbed, ShutDown
  <2>4. CloseIsLast(g)'
    BY <1>1 DEF IInv, OfGuest, CloseIsLast, pumpVars, bridgeVars
  <2>. QED BY <2>1, <2>2, <2>3, <2>4 DEF OfGuest
<1>. QED BY <1>1, <1>2, <1>3, <1>4, QuietBridge

-----------------------------------------------------------------------------
(* A guest's writer. *)

LEMMA WriterTakesKeeps ==
  ASSUME IInv, NEW g \in Guests, WriterTakes(g)
  PROVE  IInv'
<1>. DEFINE pc == IF writer[g] = "run" THEN "send" ELSE "flushSend"
<1>1. /\ writer[g] \in {"run", "flush"} /\ queue[g] # <<>>
      /\ queue' = [queue EXCEPT ![g] = Tail(queue[g])]
      /\ held' = [held EXCEPT ![g] = <<Head(queue[g])>>]
      /\ writer' = [writer EXCEPT ![g] = pc]
      /\ UNCHANGED <<main, connVars, reader, typed, seen, owed, bridgeVars>>
  BY DEF WriterTakes, Take, hostVars, bridgeVars
<1>2. /\ queue[g] \in Seq(Frame) /\ Tail(queue[g]) \in Seq(Frame) /\ Head(queue[g]) \in Frame
      /\ IF Tail(queue[g]) = <<>> THEN Head(queue[g]) = queue[g][Len(queue[g])]
         ELSE Tail(queue[g])[Len(Tail(queue[g]))] = queue[g][Len(queue[g])]
  <2>1. queue[g] \in Seq(Frame)
    BY DEF IInv, Domains
  <2>. QED BY <1>1, <2>1, QueueTail
<1>3. /\ queue'[g] = Tail(queue[g]) /\ held'[g] = <<Head(queue[g])>> /\ writer'[g] = pc
      /\ \A d \in Guests \ {g} :
           queue'[d] = queue[d] /\ held'[d] = held[d] /\ writer'[d] = writer[d]
  BY <1>1 DEF IInv, Domains
<1>4. Domains' /\ Written'
  <2>1. /\ queue' \in [Guests -> Seq(Frame)]
        /\ held' \in [Guests -> {<<>>} \cup {<<f>> : f \in Frame}]
    BY <1>1, <1>2 DEF IInv, Domains
  <2>. QED BY <1>1, <2>1 DEF IInv, Domains, Written, connVars, bridgeVars
<1>5. \A d \in Guests \ {g} : Spared(d)
  BY <1>1, <1>3 DEF Spared, connVars, bridgeVars
<1>6. OfGuest(g)'
  <2>1. Leaves(g)'
    BY <1>1 DEF IInv, OfGuest, Leaves, connVars, bridgeVars
  <2>2. Pumping(g)'
    BY <1>1, <1>3 DEF IInv, OfGuest, Pumping, connVars
  <2>3. ReleasedByWriter(g)'
    <3>1. Undisturbed(g)' => Undisturbed(g)
      BY <1>1 DEF Undisturbed, ShutDown, connVars, bridgeVars
    <3>2. Undisturbed(g) => main[g] \notin {"leaving", "gone"}
      BY <1>1 DEF IInv, OfGuest, ReleasedByWriter
    <3>. QED BY <1>1, <1>3, <3>1, <3>2 DEF IInv, OfGuest, ReleasedByWriter, connVars
  <2>4. CloseIsLast(g)'
    <3>1. owed'[g] => IF queue'[g] # <<>> THEN queue'[g][Len(queue'[g])] = Close
                      ELSE held'[g] # <<>> /\ held'[g] = <<Close>>
      BY <1>1, <1>2, <1>3 DEF IInv, OfGuest, CloseIsLast
    <3>2. owed'[g] => hostPc' \in {"closing", "done"} \/ (hostPc' = "kill" /\ casting' = Close)
      BY <1>1 DEF IInv, OfGuest, CloseIsLast, bridgeVars
    <3>. QED BY <1>3, <3>1, <3>2 DEF CloseIsLast
  <2>. QED BY <2>1, <2>2, <2>3, <2>4 DEF OfGuest
<1>. QED BY <1>1, <1>4, <1>5, <1>6, QuietBridge

LEMMA WriterSentKeeps ==
  ASSUME IInv, NEW g \in Guests, WriterSent(g)
  PROVE  IInv'
<1>1. /\ writer[g] \in {"send", "flushSend"}
      /\ seen' = [seen EXCEPT ![g] = seen[g] \o held[g]]
      /\ held' = [held EXCEPT ![g] = <<>>]
      /\ writer' = [writer EXCEPT ![g] = IF writer[g] = "send" THEN "run" ELSE "flush"]
      /\ ~lost[g] /\ lost' = [lost EXCEPT ![g] = g \in SshGuests /\ held[g] = <<Close>>]
      /\ UNCHANGED <<main, queue, stopped, killed, cancelled, reader, typed, owed, bridgeVars>>
  BY DEF WriterSent, hostVars, bridgeVars
<1>2. DOMAIN seen = Guests /\ IsSeq(seen[g]) /\ held[g] \in {<<>>} \cup {<<f>> : f \in Frame}
  BY DEF IInv, Domains, Written
<1>3. /\ IsSeq(seen[g] \o held[g])
      /\ held[g] = <<>> => seen[g] \o held[g] = seen[g]
      /\ held[g] = <<Close>> =>
           seen[g] \o held[g] # <<>> /\ (seen[g] \o held[g])[Len(seen[g] \o held[g])] = Close
  <2>1. CASE held[g] = <<>>
    BY <1>2, <2>1, Nothing
  <2>2. ASSUME NEW f \in Frame, held[g] = <<f>>
        PROVE  /\ IsSeq(seen[g] \o held[g]) /\ seen[g] \o held[g] # <<>>
               /\ (seen[g] \o held[g])[Len(seen[g] \o held[g])] = f
    <3>1. seen[g] \o <<f>> = Append(seen[g], f)
      BY <1>2, Joined
    <3>2. /\ IsSeq(Append(seen[g], f)) /\ Append(seen[g], f) # <<>>
          /\ Append(seen[g], f)[Len(Append(seen[g], f))] = f
      BY <1>2, Appended
    <3>. QED BY <2>2, <3>1, <3>2
  <2>. QED BY <1>2, <2>1, <2>2
<1>4. /\ seen'[g] = seen[g] \o held[g] /\ held'[g] = <<>> /\ DOMAIN seen' = Guests
      /\ writer'[g] \in {"run", "flush"} /\ (writer'[g] = "flush" => writer[g] = "flushSend")
      /\ \A d \in Guests \ {g} :
           seen'[d] = seen[d] /\ held'[d] = held[d] /\ writer'[d] = writer[d] /\ lost'[d] = lost[d]
  BY <1>1, <1>2 DEF IInv, Domains
<1>5. Domains' /\ Written'
  <2>1. Domains'
    BY <1>1 DEF IInv, Domains, bridgeVars
  <2>2. Written'
    BY <1>3, <1>4 DEF IInv, Written
  <2>. QED BY <2>1, <2>2
<1>6. \A d \in Guests \ {g} : Spared(d)
  BY <1>1, <1>4 DEF Spared, bridgeVars
<1>7. OfGuest(g)'
  <2>1. Leaves(g)'
    BY <1>1 DEF IInv, OfGuest, Leaves, bridgeVars
  <2>2. Pumping(g)'
    BY <1>1, <1>4 DEF IInv, OfGuest, Pumping
  <2>3. ReleasedByWriter(g)'
    <3>1. Undisturbed(g)' => Undisturbed(g)
      BY <1>1 DEF Undisturbed, ShutDown, bridgeVars
    <3>. QED BY <1>1, <1>4, <3>1 DEF IInv, OfGuest, ReleasedByWriter
  <2>4. CloseIsLast(g)'
    BY <1>1, <1>3, <1>4 DEF IInv, OfGuest, CloseIsLast, bridgeVars
  <2>. QED BY <2>1, <2>2, <2>3, <2>4 DEF OfGuest
<1>. QED BY <1>1, <1>5, <1>6, <1>7, QuietBridge

\* The writer ends or turns to its flush: on an undisturbed guest never with work left.
LEMMA WriterTurnsKeeps ==
  ASSUME IInv, NEW g \in Guests, WriterSendFails(g) \/ WriterStops(g) \/ WriterEnds(g)
  PROVE  IInv'
<1>1. /\ UNCHANGED <<main, queue, stopped, killed, cancelled, held, reader, typed, seen, owed,
                     bridgeVars>>
      /\ writer[g] # "done"
      /\ \/ writer' = [writer EXCEPT ![g] = "done"]
         \/ writer' = [writer EXCEPT ![g] = "flush"] /\ stopped[g] /\ writer[g] = "run"
  BY DEF WriterSendFails, WriterStops, WriterEnds, connVars, hostVars, bridgeVars
<1>2. /\ lost' \in [Guests -> BOOLEAN] /\ \A d \in Guests \ {g} : lost'[d] = lost[d]
      /\ lost[g] => lost'[g]
  BY DEF WriterSendFails, WriterStops, WriterEnds, SendFails, Broken, connVars, IInv, Domains
<1>3. Undisturbed(g)' => Undisturbed(g)
  BY <1>1, <1>2 DEF Undisturbed, ShutDown, bridgeVars
<1>4. Undisturbed(g) => ~cancelled[g] /\ main[g] \notin {"leaving", "gone"}
  BY <1>1 DEF IInv, OfGuest, ReleasedByWriter
<1>5. Undisturbed(g)' /\ writer'[g] = "done" => queue[g] = <<>> /\ held[g] = <<>> /\ stopped[g]
  <2>1. CASE WriterSendFails(g)
    BY <1>3, <1>4, <2>1 DEF WriterSendFails, SendFails, Broken, IInv, Domains, Undisturbed, ShutDown
  <2>2. CASE WriterStops(g)
    BY <2>2 DEF WriterStops, IInv, Domains
  <2>3. CASE WriterEnds(g)
    BY <1>3, <1>4, <2>3 DEF WriterEnds, IInv, OfGuest, Pumping
  <2>. QED BY <2>1, <2>2, <2>3
<1>6. Domains' /\ Written'
  <2>1. writer' \in [Guests -> {"off", "run", "send", "flush", "flushSend", "done"}]
    BY <1>1 DEF IInv, Domains
  <2>2. Domains'
    BY <1>1, <1>2, <2>1 DEF IInv, Domains, bridgeVars
  <2>. QED BY <1>1, <2>2 DEF IInv, Written
<1>7. \A d \in Guests \ {g} : Spared(d)
  BY <1>1, <1>2 DEF IInv, Domains, Spared, bridgeVars
<1>8. writer'[g] = "done" \/ (writer'[g] = "flush" /\ stopped[g] /\ writer[g] = "run")
  BY <1>1 DEF IInv, Domains
<1>9. writer[g] # "off"
  BY DEF WriterSendFails, WriterStops, WriterEnds
<1>10. OfGuest(g)'
  <2>1. Leaves(g)'
    BY <1>1 DEF IInv, OfGuest, Leaves, bridgeVars
  <2>2. Pumping(g)'
    BY <1>1, <1>8, <1>9 DEF IInv, OfGuest, Pumping
  <2>3. ReleasedByWriter(g)'
    BY <1>1, <1>3, <1>4, <1>5, <1>8 DEF IInv, OfGuest, ReleasedByWriter
  <2>4. CloseIsLast(g)'
    BY <1>1, <1>8 DEF IInv, OfGuest, CloseIsLast, bridgeVars
  <2>. QED BY <2>1, <2>2, <2>3, <2>4 DEF OfGuest
<1>. QED BY <1>1, <1>6, <1>7, <1>10, QuietBridge

-----------------------------------------------------------------------------
(* A guest's reader, and the one who closes the bridge. *)

LEMMA ReaderKeeps ==
  ASSUME IInv, NEW g \in Guests,
         \/ ReaderTypes(g) \/ ReaderSent(g) \/ ReaderSendFails(g)
         \/ ReaderPings(g) \/ PongEnds(g) \/ ReaderCloses(g) \/ ReaderEnds(g)
  PROVE  IInv'
<1>1. /\ UNCHANGED <<main, queue, stopped, killed, cancelled, writer, held, seen, owed, bridgeVars>>
      /\ \E r \in {"recv", "send", "pong", "left", "done"} : reader' = [reader EXCEPT ![g] = r]
      /\ typed' = typed \/ typed' = [typed EXCEPT ![g] = typed[g] + 1]
      /\ reader[g] \in {"recv", "send", "pong"}
  BY DEF ReaderTypes, ReaderSent, ReaderSendFails, ReaderPings, PongEnds, PongSent, PongFails,
         ReaderCloses, ReaderEnds, connVars, hostVars, bridgeVars
<1>8. /\ lost' \in [Guests -> BOOLEAN] /\ \A d \in Guests \ {g} : lost'[d] = lost[d]
      /\ lost[g] => lost'[g]
      /\ ~PongFails(g) => lost' = lost
  BY DEF ReaderTypes, ReaderSent, ReaderSendFails, ReaderPings, PongEnds, PongSent, PongFails,
         ReaderCloses, ReaderEnds, SendFails, Broken, connVars, IInv, Domains
<1>2. Domains' /\ Written'
  <2>1. reader' \in [Guests -> {"off", "recv", "send", "pong", "left", "done"}]
    BY <1>1 DEF IInv, Domains
  <2>2. typed' \in [Guests -> Nat]
    <3>1. typed \in [Guests -> Nat]
      BY DEF IInv, Domains
    <3>2. typed[g] + 1 \in Nat
      BY <3>1
    <3>. QED BY <1>1, <3>1, <3>2
  <2>. QED BY <1>1, <1>8, <2>1, <2>2 DEF IInv, Domains, Written, bridgeVars
<1>3. \A d \in Guests \ {g} : Spared(d)
  BY <1>1, <1>8 DEF IInv, Domains, Spared, bridgeVars
<1>4. typed[g] \in Nat /\ (typed'[g] = typed[g] \/ typed'[g] = typed[g] + 1)
  BY <1>1 DEF IInv, Domains
<1>5. reader'[g] = "send" => typed'[g] > 0
  <2>1. CASE ReaderTypes(g)
    BY <1>4, <2>1 DEF ReaderTypes, IInv, Domains
  <2>2. CASE \/ ReaderSent(g) \/ ReaderSendFails(g) \/ ReaderPings(g) \/ PongEnds(g)
             \/ ReaderCloses(g) \/ ReaderEnds(g)
    BY <2>2 DEF ReaderSent, ReaderSendFails, ReaderPings, PongEnds, PongSent, PongFails,
                ReaderCloses, ReaderEnds, IInv, Domains
  <2>. QED BY <2>1, <2>2
<1>6. Undisturbed(g)' => Undisturbed(g) /\ (reader'[g] = "done" => cancelled[g])
  <2>1. Undisturbed(g)' => Undisturbed(g)
    BY <1>1, <1>4, <1>8 DEF Undisturbed, ShutDown, bridgeVars
  <2>2. CASE ReaderTypes(g)
    BY <1>4, <2>2 DEF ReaderTypes, IInv, Domains, Undisturbed, ShutDown
  <2>3. CASE ReaderSent(g) \/ ReaderSendFails(g)
    BY <1>4, <2>3 DEF ReaderSent, ReaderSendFails, IInv, OfGuest, Pumping, Undisturbed, ShutDown
  <2>4. CASE ReaderCloses(g)
    BY <2>4 DEF ReaderCloses, IInv, Domains, Undisturbed, ShutDown
  <2>5. CASE ReaderEnds(g)
    BY <2>1, <2>5 DEF ReaderEnds, Broken, Undisturbed
  <2>6. CASE ReaderPings(g) \/ PongSent(g)
    BY <2>1, <2>6 DEF ReaderPings, PongSent, IInv, Domains
  <2>7. CASE PongFails(g)
    BY <2>1, <2>7 DEF PongFails, SendFails, Broken, Undisturbed, IInv, Domains
  <2>. QED BY <2>1, <2>2, <2>3, <2>4, <2>5, <2>6, <2>7 DEF PongEnds
<1>7. OfGuest(g)'
  <2>1. Leaves(g)'
    BY <1>1 DEF IInv, OfGuest, Leaves, bridgeVars
  <2>2. Pumping(g)'
    BY <1>1, <1>5 DEF IInv, OfGuest, Pumping
  <2>3. ReleasedByWriter(g)'
    BY <1>1, <1>6 DEF IInv, OfGuest, ReleasedByWriter
  <2>4. CloseIsLast(g)'
    BY <1>1 DEF IInv, OfGuest, CloseIsLast, bridgeVars
  <2>. QED BY <2>1, <2>2, <2>3, <2>4 DEF OfGuest
<1>. QED BY <1>1, <1>2, <1>3, <1>7, QuietBridge

LEMMA StopGuestKeeps ==
  ASSUME IInv, NEW g \in Guests, StopGuest(g)
  PROVE  IInv'
<1>1. Domains' /\ Written'
  BY DEF IInv, Domains, Written, StopGuest, pumpVars, hostVars
<1>2. Collected'
  BY DEF IInv, Collected, StopGuest, hostVars
<1>3. \A d \in Guests \ {g} : Spared(d)
  BY DEF IInv, Domains, Spared, StopGuest, pumpVars, hostVars
<1>4. /\ g \in toStop /\ g \notin toStop' /\ stopped'[g] = TRUE
      /\ UNCHANGED <<main, guests, queue, cancelled, lost, pumpVars, seen, owed, hostVars, relay>>
  BY DEF IInv, Domains, StopGuest
<1>5. OfGuest(g)'
  <2>1. Leaves(g)'
    BY <1>4 DEF IInv, OfGuest, Leaves, hostVars
  <2>2. Pumping(g)'
    BY <1>4 DEF IInv, OfGuest, Pumping, pumpVars
  <2>3. ReleasedByWriter(g)'
    BY <1>4 DEF IInv, OfGuest, ReleasedByWriter, Undisturbed, ShutDown, pumpVars
  <2>4. CloseIsLast(g)'
    BY <1>4 DEF IInv, OfGuest, CloseIsLast, pumpVars, hostVars
  <2>. QED BY <2>1, <2>2, <2>3, <2>4 DEF OfGuest
<1>. QED BY <1>1, <1>2, <1>3, <1>4, <1>5, SparedKeeps DEF IInv, hostVars

-----------------------------------------------------------------------------
(* The host's reader, broadcast and Close. *)

perGuest == <<main, queue, connVars, pumpVars, seen, owed>>

\* Before the end no guest is owed the final CLOSE.
LEMMA NotYetOwed ==
  ASSUME IInv, hostPc \in {"away", "recv", "cast"}
  PROVE  \A d \in Guests : ~owed[d]
  BY DEF IInv, OfGuest, CloseIsLast

\* The host's reader moves on, or the bridge closes; no guest is touched.
LEMMA GuestsKept ==
  ASSUME IInv, UNCHANGED <<perGuest, slow>>, \A d \in Guests : owed[d] =>
           hostPc' \in {"closing", "done"} \/ (hostPc' = "kill" /\ casting' = Close),
         \A d \in Guests : ShutDown(d) => ShutDown(d)',
         \/ UNCHANGED <<guests, toStop>>
         \/ toStop = {} /\ toStop' = guests /\ guests' = {}
  PROVE  \A d \in Guests : OfGuest(d)'
<1>. TAKE d \in Guests
<1>1. Leaves(d)'
  BY DEF IInv, OfGuest, Leaves, perGuest, connVars
<1>2. Pumping(d)'
  BY DEF IInv, OfGuest, Pumping, perGuest, connVars, pumpVars
<1>3. ReleasedByWriter(d)'
  BY DEF IInv, OfGuest, ReleasedByWriter, Undisturbed, perGuest, connVars, pumpVars
<1>4. CloseIsLast(d)'
  BY DEF IInv, OfGuest, CloseIsLast, perGuest, pumpVars
<1>. QED BY <1>1, <1>2, <1>3, <1>4 DEF OfGuest

LEMMA HostReadsKeeps ==
  ASSUME IInv,
         \/ \E w \in Windows \cup {NoSize} : HostAttach(w)
         \/ HostData \/ HostClose \/ HostLost \/ \E w \in Windows : HostResize(w)
  PROVE  IInv'
<1>1. /\ UNCHANGED <<perGuest, closed, guests, toStop, slow, relay>>
      /\ hostPc \in {"away", "recv"} /\ hostPc' \in {"recv", "cast", "closing"}
      /\ closed => host' = host
  BY DEF HostAttach, HostData, HostClose, HostLost, HostResize, perGuest
<1>2. frames \in 0..MaxFrames /\ sent \in 0..frames /\ casting \in Frame /\ MaxFrames \in Nat
  BY BridgeAssumption DEF IInv, Domains
<1>3. frames' \in 0..MaxFrames /\ sent' \in 0..frames' /\ casting' \in Frame
  <2>1. CASE HostData
    <3>1. frames < MaxFrames /\ frames' = frames + 1 /\ sent' = sent + 1 /\ casting' = Data(sent + 1)
      BY <2>1 DEF HostData
    <3>2. sent + 1 \in 1..MaxFrames
      BY <1>2, <3>1
    <3>3. casting' \in Frame
      BY <3>1, <3>2 DEF Frame
    <3>. QED BY <1>2, <3>1, <3>3
  <2>2. ASSUME NEW w \in Windows, HostResize(w)
        PROVE  frames' \in 0..MaxFrames /\ sent' \in 0..frames' /\ casting' \in Frame
    <3>1. frames < MaxFrames /\ frames' = frames + 1 /\ sent' = sent /\ casting' = Resize(w)
      BY <2>2 DEF HostResize
    <3>2. casting' \in Frame
      BY <3>1 DEF Frame
    <3>. QED BY <1>2, <3>1, <3>2
  <2>3. CASE HostClose
    BY <1>2, <2>3 DEF HostClose, Frame
  <2>4. CASE HostLost \/ \E w \in Windows \cup {NoSize} : HostAttach(w)
    BY <1>2, <2>4 DEF HostLost, HostAttach
  <2>. QED BY <2>1, <2>2, <2>3, <2>4
<1>4. Domains' /\ Written'
  BY <1>1, <1>3 DEF IInv, Domains, Written, perGuest, connVars, pumpVars
<1>5. Collected'
  BY <1>1 DEF IInv, Collected
<1>6. \A d \in Guests : OfGuest(d)'
  <2>1. \A d \in Guests : ShutDown(d) => ShutDown(d)'
    BY <1>1 DEF ShutDown
  <2>. QED BY <1>1, <2>1, NotYetOwed, GuestsKept
<1>. QED BY <1>4, <1>5, <1>6 DEF IInv

LEMMA BroadcastKeeps ==
  ASSUME IInv, Broadcast
  PROVE  IInv'
<1>. DEFINE full == {g \in guests : Full(queue[g])}
<1>1. /\ hostPc = "cast" /\ hostPc' = "kill" /\ guests' = guests \ full /\ slow' = full
      /\ full \subseteq guests
      /\ queue' = [g \in Guests |-> IF g \in guests \ full THEN Append(queue[g], casting)
                                    ELSE queue[g]]
      /\ owed' = [g \in Guests |-> owed[g] \/ (g \in guests \ full /\ casting = Close)]
      /\ UNCHANGED <<main, connVars, pumpVars, seen, toStop, closed, host, casting, frames, sent,
                     relay>>
  BY DEF Broadcast
<1>. HIDE DEF full
<1>2. slow = {} /\ guests \subseteq Guests /\ casting \in Frame /\ queue \in [Guests -> Seq(Frame)]
  BY <1>1 DEF IInv, Collected, Domains
<1>3. \A g \in Guests : /\ Append(queue[g], casting) \in Seq(Frame)
                        /\ Append(queue[g], casting) # <<>>
                        /\ Append(queue[g], casting)[Len(Append(queue[g], casting))] = casting
  <2>. TAKE g \in Guests
  <2>1. queue[g] \in Seq(Frame)
    BY <1>2
  <2>. QED BY <1>2, <2>1, QueueAppend
<1>4. Domains' /\ Written'
  <2>1. queue' \in [Guests -> Seq(Frame)] /\ owed' \in [Guests -> BOOLEAN]
    BY <1>1, <1>2, <1>3
  <2>. QED BY <1>1, <1>2, <2>1 DEF IInv, Domains, Written, connVars, pumpVars
<1>5. Collected'
  BY <1>1 DEF IInv, Collected
<1>6. ASSUME NEW d \in Guests
      PROVE  OfGuest(d)'
  <2>1. /\ d \in guests \ full => queue'[d] = Append(queue[d], casting)
        /\ d \notin guests \ full => queue'[d] = queue[d]
        /\ owed'[d] <=> owed[d] \/ (d \in guests \ full /\ casting = Close)
    BY <1>1
  <2>2. Leaves(d)'
    BY <1>1, <1>2 DEF IInv, OfGuest, Leaves, connVars
  <2>3. Pumping(d)'
    BY <1>1 DEF IInv, OfGuest, Pumping, connVars, pumpVars
  <2>4. ReleasedByWriter(d)'
    <3>1. Undisturbed(d)' => Undisturbed(d)
      BY <1>1 DEF Undisturbed, ShutDown, connVars, pumpVars
    <3>2. Undisturbed(d) /\ writer[d] = "done" => d \notin guests
      BY DEF IInv, OfGuest, ReleasedByWriter, Leaves
    <3>. QED BY <1>1, <2>1, <3>1, <3>2 DEF IInv, OfGuest, ReleasedByWriter, connVars, pumpVars
  <2>5. CloseIsLast(d)'
    BY <1>1, <1>3, <2>1, NotYetOwed DEF CloseIsLast
  <2>. QED BY <2>2, <2>3, <2>4, <2>5 DEF OfGuest
<1>. QED BY <1>4, <1>5, <1>6 DEF IInv

LEMMA KillSlowKeeps ==
  ASSUME IInv, KillSlow
  PROVE  IInv'
<1>1. /\ hostPc = "kill" /\ hostPc' = (IF casting = Close THEN "closing" ELSE "recv")
      /\ stopped' = [g \in Guests |-> stopped[g] \/ g \in slow] /\ slow' = {}
      /\ UNCHANGED <<main, queue, cancelled, lost, pumpVars, seen, owed, closed, host, guests,
                     toStop, casting, frames, sent, relay>>
  BY DEF KillSlow
<1>2. Domains' /\ Written'
  BY <1>1 DEF IInv, Domains, Written, pumpVars
<1>3. Collected'
  BY <1>1 DEF IInv, Collected
<1>4. ASSUME NEW d \in Guests
      PROVE  OfGuest(d)'
  <2>1. stopped'[d] <=> stopped[d] \/ d \in slow
    BY <1>1
  <2>2. Leaves(d)'
    BY <1>1, <2>1 DEF IInv, OfGuest, Leaves
  <2>3. Pumping(d)'
    BY <1>1, <2>1 DEF IInv, OfGuest, Pumping, pumpVars
  <2>4. ReleasedByWriter(d)'
    BY <1>1, <2>1 DEF IInv, OfGuest, ReleasedByWriter, Undisturbed, ShutDown, pumpVars
  <2>5. CloseIsLast(d)'
    BY <1>1 DEF IInv, OfGuest, CloseIsLast, pumpVars
  <2>. QED BY <2>2, <2>3, <2>4, <2>5 DEF OfGuest
<1>. QED BY <1>2, <1>3, <1>4 DEF IInv

LEMMA CloseKeeps ==
  ASSUME IInv, HostReturns \/ CloseAll
  PROVE  IInv'
<1>1. /\ UNCHANGED <<perGuest, slow, casting, frames, sent>>
      /\ CloseUnderLock \/ UNCHANGED <<closed, host, guests, toStop>>
      /\ hostPc' = hostPc \/ (hostPc = "closing" /\ hostPc' = "done")
      /\ relay' = relay \/ (relay = "stopping" /\ relay' \in {"closing", "closed"})
  BY DEF HostReturns, CloseAll, perGuest, hostVars
<1>2. \/ UNCHANGED <<closed, host, guests, toStop>>
      \/ closed' = TRUE /\ host' = FALSE /\ toStop' = guests /\ guests' = {} /\ toStop = {}
  BY <1>1 DEF CloseUnderLock, IInv, Collected
<1>3. Domains' /\ Written'
  BY <1>1, <1>2 DEF IInv, Domains, Written, perGuest, connVars, pumpVars
<1>4. Collected'
  BY <1>1, <1>2 DEF IInv, Collected
<1>5. \A d \in Guests : OfGuest(d)'
  <2>1. \A d \in Guests : owed[d] =>
          hostPc' \in {"closing", "done"} \/ (hostPc' = "kill" /\ casting' = Close)
    BY <1>1 DEF IInv, OfGuest, CloseIsLast
  <2>2. \A d \in Guests : ShutDown(d) => ShutDown(d)'
    BY <1>1 DEF ShutDown
  <2>. QED BY <1>1, <1>2, <2>1, <2>2, GuestsKept
<1>. QED BY <1>3, <1>4, <1>5 DEF IInv

\* The shutdown cancels contexts; whoever loses his is no longer undisturbed.
LEMMA CancelKeeps ==
  ASSUME IInv, ShutdownBegins \/ BaseCancel
  PROVE  IInv'
<1>1. /\ UNCHANGED <<host, closed, guests, toStop, hostVars, main, queue, stopped, lost, pumpVars,
                     seen, owed>>
      /\ relay' \in {"stopping", "down"}
      /\ cancelled' \in [Guests -> BOOLEAN]
      /\ \A d \in Guests : cancelled'[d] = cancelled[d] \/ ShutDown(d)'
      /\ \A d \in Guests : ShutDown(d) => ShutDown(d)'
  BY DEF ShutdownBegins, BaseCancel, ShutDown, IInv, Domains
<1>2. Domains' /\ Written'
  BY <1>1 DEF IInv, Domains, Written, pumpVars, hostVars
<1>3. Collected'
  BY <1>1 DEF IInv, Collected, hostVars
<1>4. ASSUME NEW d \in Guests
      PROVE  OfGuest(d)'
  <2>1. Leaves(d)'
    BY <1>1 DEF IInv, OfGuest, Leaves, hostVars
  <2>2. Pumping(d)'
    BY <1>1 DEF IInv, OfGuest, Pumping, pumpVars
  <2>3. ReleasedByWriter(d)'
    BY <1>1 DEF IInv, OfGuest, ReleasedByWriter, Undisturbed, pumpVars
  <2>4. CloseIsLast(d)'
    BY <1>1 DEF IInv, OfGuest, CloseIsLast, pumpVars, hostVars
  <2>. QED BY <2>1, <2>2, <2>3, <2>4 DEF OfGuest
<1>. QED BY <1>2, <1>3, <1>4 DEF IInv

-----------------------------------------------------------------------------
(* The invariant. *)

LEMMA InitEstablishes == Init => IInv
<1>. SUFFICES ASSUME Init PROVE IInv
  OBVIOUS
<1>1. Domains
  BY BridgeAssumption DEF Init, Domains, Frame
<1>2. Written
  BY DEF Init, Written, IsSeq
<1>3. Collected
  BY DEF Init, Collected
<1>4. \A g \in Guests : OfGuest(g)
  BY DEF Init, OfGuest, Leaves, Pumping, ReleasedByWriter, Undisturbed, ShutDown, CloseIsLast
<1>. QED BY <1>1, <1>2, <1>3, <1>4 DEF IInv

LEMMA StutterKeeps == ASSUME IInv, UNCHANGED vars PROVE IInv'
<1>1. UNCHANGED <<perGuest, closed, host, guests, toStop, slow, hostPc, casting, frames, sent,
                 relay>>
  BY DEF vars, perGuest, connVars, pumpVars
<1>2. Domains' /\ Written'
  BY <1>1 DEF IInv, Domains, Written, perGuest, connVars, pumpVars
<1>3. Collected'
  BY <1>1 DEF IInv, Collected
<1>4. \A d \in Guests : OfGuest(d)'
  <2>1. \A d \in Guests : Spared(d)
    BY <1>1 DEF Spared, perGuest, connVars, pumpVars
  <2>. QED BY <1>1, <2>1, SparedKeeps DEF IInv
<1>. QED BY <1>2, <1>3, <1>4 DEF IInv

\* A guest leaves the registry once and is stopped by whoever took it off, and what is owed
\* to it ends in the final CLOSE: the invariant of the fan-out's teardown (bridge.go, Close,
\* broadcast, ServeGuest, toGuest and flush).
THEOREM Invariance == Spec => []IInv
<1>1. ASSUME IInv, [Next]_vars
      PROVE  IInv'
  <2>1. ASSUME NEW g \in Guests,
               \/ GuestAttach(g) \/ GuestStep(g) \/ WriteEnds(g) \/ PongEnds(g)
               \/ StopGuest(g) \/ GuestLost(g) \/ ReaderTypes(g) \/ ReaderSent(g)
               \/ ReaderPings(g) \/ ReaderCloses(g)
        PROVE  IInv'
    <3>1. CASE GuestAttach(g) \/ StopGuest(g) \/ ReplaySent(g) \/ StartPumps(g) \/ GuestCleanup(g)
      BY <1>1, <3>1, GuestAttachKeeps, StopGuestKeeps, ReplaySentKeeps, StartPumpsKeeps,
         GuestCleanupKeeps
    <3>2. CASE ReplayFails(g) \/ GuestReturns(g) \/ Watchdog(g) \/ GuestLost(g)
      BY <1>1, <3>2, ReturnKeeps, TransportClosedKeeps
    <3>3. CASE \/ WriterTakes(g) \/ WriterSent(g)
               \/ WriterSendFails(g) \/ WriterStops(g) \/ WriterEnds(g)
      BY <1>1, <3>3, WriterTakesKeeps, WriterSentKeeps, WriterTurnsKeeps
    <3>4. CASE \/ ReaderTypes(g) \/ ReaderSent(g) \/ ReaderSendFails(g)
               \/ ReaderPings(g) \/ PongEnds(g) \/ ReaderCloses(g) \/ ReaderEnds(g)
      BY <1>1, <3>4, ReaderKeeps
    <3>. QED BY <2>1, <3>1, <3>2, <3>3, <3>4 DEF GuestStep, WriteEnds
  <2>2. CASE \/ \E w \in Windows \cup {NoSize} : HostAttach(w)
             \/ HostData \/ HostClose \/ HostLost \/ \E w \in Windows : HostResize(w)
    BY <1>1, <2>2, HostReadsKeeps
  <2>3. CASE HostStep \/ ShutdownBegins \/ CloseAll \/ BaseCancel
    BY <1>1, <2>3, BroadcastKeeps, KillSlowKeeps, CloseKeeps, CancelKeeps DEF HostStep
  <2>4. CASE UNCHANGED vars
    BY <1>1, <2>4, StutterKeeps
  <2>. QED BY <1>1, <2>1, <2>2, <2>3, <2>4 DEF Next
<1>. QED BY <1>1, InitEstablishes, PTL DEF Spec

\* Ending the session overlooks no guest, and one that stays connected and does not type in
\* the last moment sees the final CLOSE last (bridge.go:367, "flush what is already queued"),
\* unless the relay shuts down meanwhile.
THEOREM EndReachesEveryoneHolds == Spec => []EndReachesEveryone
<1>1. ASSUME IInv
      PROVE  EndReachesEveryone
  <2>1. closed => guests = {} /\ ~host
    BY <1>1 DEF IInv, Collected
  <2>2. ASSUME NEW g \in Guests
        PROVE  main[g] \in {"replay", "serving"} =>
                 g \in guests \/ g \in toStop \/ g \in slow \/ stopped[g]
    BY <1>1 DEF IInv, OfGuest, Leaves
  <2>3. ASSUME NEW g \in Guests, owed[g], main[g] = "gone", typed[g] = 0, ~ShutDown(g),
               ~killed[g], ~lost[g], reader[g] # "left"
        PROVE  seen[g] # <<>> /\ seen[g][Len(seen[g])] = Close
    <3>1. writer[g] = "done" /\ queue[g] = <<>> /\ held[g] = <<>>
      BY <1>1, <2>3 DEF IInv, OfGuest, ReleasedByWriter, Undisturbed, ShutDown
    <3>. QED BY <1>1, <2>3, <3>1 DEF IInv, OfGuest, CloseIsLast
  <2>. QED BY <2>1, <2>2, <2>3 DEF EndReachesEveryone
<1>. QED BY <1>1, Invariance, PTL

=============================================================================
