---------------------------- MODULE ForwardEnds -----------------------------
(***************************************************************************)
(* The two ends of forwarded TCP streams and their credit windows: the      *)
(* guest's (client/forward_guest.go) and the host's                         *)
(* (client/forward_host.go, client/window.go), with the host's send queue   *)
(* (client/share.go) and the relay's queue per forward between them.        *)
(*                                                                         *)
(* Both ends have the same shape.  One loop takes frames off the tunnel and *)
(* writes DATA to sockets; a pump per channel reads a socket, waits for     *)
(* credit and sends.  A stream is counted in bytes.  The relay's routing    *)
(* is the subject of RelayForwards; here it takes a guest's frame at once   *)
(* and a channel has one number everywhere.                                 *)
(***************************************************************************)
EXTENDS Naturals, Sequences, SequencesExt, FiniteSetsExt

CONSTANTS
  MaxChannels,    \* channels the guest opens
  InitialWindow,  \* bytes an end may send before it is granted more
  Chunks,         \* sizes a socket is read in
  GuestBytes,     \* bytes the guest's application writes to its socket, at most
  HostBytes,      \* and the host's target
  QueueDepth,     \* forwardQueueDepth: frames the relay holds for a forward
  SenderDepth,    \* outboundQueue: frames that wait to leave the host
  Faults          \* what may go wrong, a subset of AllFaults

AllFaults == {"refused", "eof", "detach", "guest lost", "share ends"}

ASSUME EndsAssumption ==
  /\ MaxChannels \in Nat /\ GuestBytes \in Nat /\ HostBytes \in Nat /\ SenderDepth \in Nat
  /\ InitialWindow \in Nat \ {0} /\ QueueDepth \in Nat \ {0}
  /\ Chunks \subseteq 1..InitialWindow     \* "callers read in chunks far smaller than that"
  /\ Faults \subseteq AllFaults

Chans == 1..MaxChannels
End == {"guest", "host"}
Peer(e) == CHOOSE p \in End : p # e
MaxBytes(e) == IF e = "guest" THEN GuestBytes ELSE HostBytes

VARIABLES
  listed,   \* the conns map of each end; a socket and its window close when it leaves it
  avail,    \* window.avail: the credit each end has left
  pump,     \* each end's goroutine per channel: "none", "opening" (the guest's waits for the
            \* answer, the host's dials), "reading", "waiting" for credit, "sending", "ended"
  hold,     \* the bytes a waiting or sending pump has read
  answer,   \* guestForward.ready: "none", "ok" or "refused"
  nextChan, \* guestForwards.nextChan
  loop,     \* the DATA frame each end's loop is writing to a socket, or Idle
  hostIn,   \* frames on their way to the host
  hostOut,  \* sender.q
  queue,    \* the relay's queue for each forward, and on to the guest
  routed,   \* the channels the relay routes
  guest,    \* "up", "closing" (in Close) or "left"
  share     \* "up", "failed" or "over"

VARIABLES   \* history
  read,     \* bytes each end's pump has taken from its socket
  wrote,    \* bytes each end's loop has written to its socket
  eof,      \* channels each end closed because its application did
  told,     \* channels each end closed because the other said so
  retired,  \* channels the relay gave up on because their queue was full
  dropped,  \* channels whose CLOSE found the queue full
  late      \* channels the host was told to close while it was dialling for them

endVars == <<listed, avail, pump, hold, answer, nextChan, loop>>
wireVars == <<hostIn, hostOut, queue, routed>>
logVars == <<read, wrote, eof, told, retired, dropped, late>>
vars == <<endVars, wireVars, guest, share, logVars>>

Control(c, type) == [type |-> type, chan |-> c]
Sized(c, type, n) == [type |-> type, chan |-> c, n |-> n]
Idle == [type |-> "none"]
Closing == {"CLOSE", "ERROR"}

PerEnd(x) == [e \in End |-> [c \in Chans |-> x]]

Init ==
  /\ listed = [e \in End |-> {}]
  /\ avail = PerEnd(0) /\ pump = PerEnd("none") /\ hold = PerEnd(0)
  /\ answer = [c \in Chans |-> "none"] /\ nextChan = 0
  /\ loop = [e \in End |-> Idle]
  /\ hostIn = <<>> /\ hostOut = <<>> /\ queue = [c \in Chans |-> <<>>]
  /\ routed = {} /\ guest = "up" /\ share = "up"
  /\ read = PerEnd(0) /\ wrote = PerEnd(0)
  /\ eof = [e \in End |-> {}] /\ told = [e \in End |-> {}]
  /\ retired = {} /\ dropped = {} /\ late = {}

-----------------------------------------------------------------------------
(* The parts the handlers share. *)

\* A frame leaves the guest; the relay routes it to the host, or nowhere.
GuestSends(f) ==
  /\ hostIn' = IF f.chan \in routed THEN Append(hostIn, f) ELSE hostIn
  /\ routed' = IF f.type = "CLOSE" THEN routed \ {f.chan} ELSE routed
  /\ UNCHANGED <<hostOut, share>>

\* Mutant: one frame more.
SenderFullOneLate == Len(hostOut) > SenderDepth

SenderFull == Len(hostOut) = SenderDepth

\* Mutant: a CLOSE is written beside the queue, as the terminal's is.
HostSendsAhead(f) ==
  /\ IF share = "up" /\ SenderFull
     THEN share' = "failed" /\ UNCHANGED hostOut
     ELSE /\ hostOut' = IF share # "up" THEN hostOut
                       ELSE IF f.type = "CLOSE" THEN <<f>> \o hostOut ELSE Append(hostOut, f)
          /\ UNCHANGED share
  /\ UNCHANGED <<hostIn, routed>>

\* sender.send: a full queue ends sharing rather than making anybody wait.
HostSends(f) ==
  /\ IF share = "up" /\ SenderFull
     THEN share' = "failed" /\ UNCHANGED hostOut
     ELSE /\ hostOut' = IF share = "up" THEN Append(hostOut, f) ELSE hostOut
          /\ UNCHANGED share
  /\ UNCHANGED <<hostIn, routed>>

Sends(e, f) == IF e = "guest" THEN GuestSends(f) ELSE HostSends(f)

SendsNothing == UNCHANGED <<hostIn, hostOut, routed, share>>

\* once.Do: the first answer stays.
Answers(c, a) == answer' = [answer EXCEPT ![c] = IF @ = "none" THEN a ELSE @]

Unlist(e, c) == listed' = [listed EXCEPT ![e] = @ \ {c}]

\* closeChannel(ch, true) and closeWithReason: whoever takes the channel off the map closes
\* its window and its socket and tells the other end.
CloseTelling(e, c) ==
  IF c \in listed[e]
  THEN /\ Unlist(e, c)
       /\ Sends(e, Control(c, "CLOSE"))
       /\ IF e = "guest" THEN Answers(c, "ok") ELSE UNCHANGED answer
  ELSE SendsNothing /\ UNCHANGED <<listed, answer>>

\* Mutant: a credit is taken for the level, not for an increment.
GrantsLevel(e, f) == avail' = [avail EXCEPT ![e][f.chan] = f.n]

\* grant: credit is added to what is there.
Grants(e, f) == avail' = [avail EXCEPT ![e][f.chan] = @ + f.n]

\* Mutant: nothing is credited.
CreditsNothing(e, f) == SendsNothing

\* credit and creditGuest: what was written, the other end may send again.
Credits(e, f) == Sends(e, Sized(f.chan, "WINDOW", f.n))

-----------------------------------------------------------------------------
(* Opening. *)

\* A local connection is accepted, gets a channel, and asks the host for it.
GuestAccepts ==
  /\ guest = "up" /\ share = "up" /\ nextChan < MaxChannels
  /\ LET c == nextChan + 1 IN
     /\ nextChan' = c
     /\ listed' = [listed EXCEPT !["guest"] = @ \cup {c}]
     /\ avail' = [avail EXCEPT !["guest"][c] = InitialWindow]
     /\ pump' = [pump EXCEPT !["guest"][c] = "opening"]
     /\ routed' = routed \cup {c}
     /\ hostIn' = Append(hostIn, Control(c, "OPEN"))
  /\ UNCHANGED <<hold, answer, loop, hostOut, queue, guest, share, logVars>>

\* forward goes on when it has its answer.
GuestAnswered(c) ==
  /\ pump["guest"][c] = "opening" /\ answer[c] # "none"
  /\ IF answer[c] = "ok"
     THEN /\ pump' = [pump EXCEPT !["guest"][c] = "reading"]
          /\ SendsNothing /\ UNCHANGED <<listed, answer>>
     ELSE /\ pump' = [pump EXCEPT !["guest"][c] = "ended"]
          /\ CloseTelling("guest", c)
  /\ UNCHANGED <<avail, hold, nextChan, loop, queue, guest, logVars>>

\* The end of openChannel: the target was reached, or refused.
HostDialled(c) ==
  /\ pump["host"][c] = "opening" /\ share # "over"
  /\ \/ /\ listed' = [listed EXCEPT !["host"] = @ \cup {c}]
        /\ avail' = [avail EXCEPT !["host"][c] = InitialWindow]
        /\ pump' = [pump EXCEPT !["host"][c] = "reading"]
        /\ HostSends(Control(c, "OPEN"))
     \/ /\ "refused" \in Faults
        /\ pump' = [pump EXCEPT !["host"][c] = "ended"]
        /\ HostSends(Control(c, "ERROR"))
        /\ UNCHANGED <<listed, avail>>
  /\ UNCHANGED <<hold, answer, nextChan, loop, queue, guest, logVars>>

-----------------------------------------------------------------------------
(* The pumps. *)

PumpReads(e, c) ==
  /\ pump[e][c] = "reading" /\ c \in listed[e]
  /\ \E n \in Chunks :
       /\ read[e][c] + n <= MaxBytes(e)
       /\ read' = [read EXCEPT ![e][c] = @ + n]
       /\ hold' = [hold EXCEPT ![e][c] = n]
  /\ pump' = [pump EXCEPT ![e][c] = "waiting"]
  /\ UNCHANGED <<listed, avail, answer, nextChan, loop, wireVars, guest, share,
                 wrote, eof, told, retired, dropped, late>>

\* reserve has its credit.
PumpReserves(e, c) ==
  /\ pump[e][c] = "waiting" /\ c \in listed[e] /\ avail[e][c] >= hold[e][c]
  /\ avail' = [avail EXCEPT ![e][c] = @ - hold[e][c]]
  /\ pump' = [pump EXCEPT ![e][c] = "sending"]
  /\ UNCHANGED <<listed, hold, answer, nextChan, loop, wireVars, guest, share, logVars>>

\* It sends them, whether or not the channel was closed since.
PumpSends(e, c) ==
  /\ pump[e][c] = "sending"
  /\ Sends(e, Sized(c, "DATA", hold[e][c]))
  /\ hold' = [hold EXCEPT ![e][c] = 0]
  /\ pump' = [pump EXCEPT ![e][c] = "reading"]
  /\ UNCHANGED <<listed, avail, answer, nextChan, loop, queue, guest, logVars>>

\* The application is done: nothing comes behind what it wrote.
PumpMeetsEOF(e, c) ==
  /\ "eof" \in Faults
  /\ pump[e][c] = "reading" /\ c \in listed[e]
  /\ pump' = [pump EXCEPT ![e][c] = "ended"]
  /\ CloseTelling(e, c)
  /\ eof' = [eof EXCEPT ![e] = @ \cup {c}]
  /\ UNCHANGED <<avail, hold, nextChan, loop, queue, guest, read, wrote, told, retired,
                 dropped, late>>

\* Its socket and its window were closed.
PumpEnds(e, c) ==
  /\ pump[e][c] \in {"reading", "waiting"} /\ c \notin listed[e]
  /\ pump' = [pump EXCEPT ![e][c] = "ended"]
  /\ UNCHANGED <<listed, avail, hold, answer, nextChan, loop, wireVars, guest, share,
                 logVars>>

-----------------------------------------------------------------------------
(* The loops. *)

\* handle, of a frame f: DATA for a channel that is there goes to its socket, and the loop
\* waits for it; the rest is done at once.
Handle(e, f) ==
  LET c == f.chan
      known == c \in listed[e]
  IN
  \/ /\ f.type = "OPEN" /\ e = "host"
     /\ pump' = [pump EXCEPT ![e][c] = "opening"]
     /\ UNCHANGED <<listed, avail, answer, loop, told, late>>
  \/ /\ f.type = "OPEN" /\ e = "guest"
     /\ IF known THEN Answers(c, "ok") ELSE UNCHANGED answer
     /\ UNCHANGED <<listed, avail, pump, loop, told, late>>
  \/ /\ f.type = "DATA"
     /\ loop' = IF known THEN [loop EXCEPT ![e] = f] ELSE loop
     /\ UNCHANGED <<listed, avail, pump, answer, told, late>>
  \/ /\ f.type = "WINDOW"
     /\ IF known THEN Grants(e, f) ELSE UNCHANGED avail
     /\ UNCHANGED <<listed, pump, answer, loop, told, late>>
  \/ /\ f.type \in Closing
     /\ Unlist(e, c)
     /\ IF known /\ e = "guest" THEN Answers(c, IF f.type = "CLOSE" THEN "ok" ELSE "refused")
        ELSE UNCHANGED answer
     /\ told' = IF known THEN [told EXCEPT ![e] = @ \cup {c}] ELSE told
     /\ late' = IF e = "host" /\ pump[e][c] = "opening" THEN late \cup {c} ELSE late
     /\ UNCHANGED <<avail, pump, loop>>

HostTakes ==
  /\ share = "up" /\ loop["host"] = Idle /\ hostIn # <<>>
  /\ Handle("host", Head(hostIn))
  /\ hostIn' = Tail(hostIn)
  /\ UNCHANGED <<hold, nextChan, hostOut, queue, routed, guest, share, read, wrote, eof,
                 retired, dropped>>

GuestTakes(c) ==
  /\ guest = "up" /\ loop["guest"] = Idle /\ queue[c] # <<>>
  /\ Handle("guest", Head(queue[c]))
  /\ queue' = [queue EXCEPT ![c] = Tail(@)]
  /\ UNCHANGED <<hold, nextChan, hostIn, hostOut, routed, guest, share, read, wrote, eof,
                 retired, dropped>>

\* The socket took it all, which may be long after the loop began to write: the bytes are
\* spent, and the sender may send as many again.
LoopWrites(e) ==
  /\ loop[e] # Idle
  /\ LET c == loop[e].chan IN
     /\ c \in listed[e]
     /\ wrote' = [wrote EXCEPT ![e][c] = @ + loop[e].n]
     /\ Credits(e, loop[e])
  /\ loop' = [loop EXCEPT ![e] = Idle]
  /\ UNCHANGED <<listed, avail, pump, hold, answer, nextChan, queue, guest, read, eof,
                 told, retired, dropped, late>>

\* It did not: it was closed on this side, or the application closed it on the other.
LoopFails(e) ==
  /\ loop[e] # Idle
  /\ loop[e].chan \notin listed[e] \/ "eof" \in Faults
  /\ CloseTelling(e, loop[e].chan)
  /\ loop' = [loop EXCEPT ![e] = Idle]
  /\ UNCHANGED <<avail, pump, hold, nextChan, queue, guest, logVars>>

-----------------------------------------------------------------------------
(* The relay. *)

\* The room forward.queue finds.
Fits(c) == Len(queue[c]) < QueueDepth

\* fromHostChannel: a frame for a full queue ends the forward, unless it ends it anyway; the
\* relay's own CLOSE has a slot of its own.
RelayRoutes ==
  /\ share # "failed" /\ hostOut # <<>>
  /\ hostOut' = Tail(hostOut)
  /\ LET f == Head(hostOut)
         c == f.chan
         closing == f.type \in Closing
         overrun == c \in routed /\ ~Fits(c) /\ ~closing
     IN  /\ queue' = IF c \notin routed \/ (closing /\ ~Fits(c)) THEN queue
                     ELSE [queue EXCEPT ![c] =
                             Append(@, IF overrun THEN Control(c, "CLOSE") ELSE f)]
         /\ routed' = IF closing \/ overrun THEN routed \ {c} ELSE routed
         /\ hostIn' = IF overrun THEN Append(hostIn, Control(c, "CLOSE")) ELSE hostIn
         /\ retired' = IF overrun THEN retired \cup {c} ELSE retired
         /\ dropped' = IF c \in routed /\ closing /\ ~Fits(c) THEN dropped \cup {c} ELSE dropped
  /\ UNCHANGED <<endVars, guest, share, read, wrote, eof, told, late>>

\* Mutant: the host is not told.
ForgetGuestQuietly == routed' = {} /\ UNCHANGED hostIn

\* The relay notices that a guest is gone, and closes every channel it owned.
ForgetGuest ==
  /\ hostIn' = hostIn \o SetToSeq({ Control(c, "CLOSE") : c \in routed })
  /\ routed' = {}

-----------------------------------------------------------------------------
(* The end of a guest, and of the session. *)

\* Close, when the user detaches, the session ends or the connection is lost: every channel
\* goes off the map, nobody is told.
GuestCloses ==
  /\ guest = "up"
  /\ \/ ("detach" \in Faults \/ share # "up") /\ UNCHANGED <<hostIn, routed>>
     \/ "guest lost" \in Faults /\ ForgetGuest
  /\ guest' = "closing"
  /\ listed' = [listed EXCEPT !["guest"] = {}]
  /\ UNCHANGED <<avail, pump, hold, answer, nextChan, loop, hostOut, queue, share,
                 logVars>>

\* Close has waited for every forward; the connection goes.
GuestLeaves ==
  /\ guest = "closing"
  /\ \A c \in Chans : pump["guest"][c] \in {"none", "ended"}
  /\ guest' = "left"
  /\ ForgetGuest
  /\ UNCHANGED <<endVars, hostOut, queue, share, logVars>>

\* closeAll, when the shell has ended.
ShareEnds ==
  /\ "share ends" \in Faults
  /\ share # "over"
  /\ share' = "over"
  /\ listed' = [listed EXCEPT !["host"] = {}]
  /\ UNCHANGED <<avail, pump, hold, answer, nextChan, loop, wireVars, guest, logVars>>

-----------------------------------------------------------------------------
Pump(e, c) == PumpReads(e, c) \/ PumpMeetsEOF(e, c)
Runs(e, c) == PumpReserves(e, c) \/ PumpSends(e, c) \/ PumpEnds(e, c)
Loop(e) == LoopWrites(e) \/ LoopFails(e)

Next ==
  \/ GuestAccepts \/ HostTakes \/ RelayRoutes \/ GuestCloses \/ GuestLeaves \/ ShareEnds
  \/ \E c \in Chans : GuestAnswered(c) \/ HostDialled(c) \/ GuestTakes(c)
  \/ \E e \in End : Loop(e)
  \/ \E e \in End, c \in Chans : Pump(e, c) \/ Runs(e, c)

Spec == Init /\ [][Next]_vars

\* Goroutines that can run do, a dial ends (dialTimeout), and an application reads what waits
\* in its socket some time.  Nothing is assumed of what applications write.
Fairness ==
  /\ WF_vars(HostTakes) /\ WF_vars(RelayRoutes) /\ WF_vars(GuestLeaves)
  /\ \A c \in Chans : WF_vars(GuestAnswered(c)) /\ WF_vars(HostDialled(c)) /\ WF_vars(GuestTakes(c))
  /\ \A e \in End : WF_vars(Loop(e))
  /\ \A e \in End, c \in Chans : WF_vars(Runs(e, c))

FairSpec == Spec /\ Fairness

-----------------------------------------------------------------------------
(* Properties. *)

Frames ==
  [type : {"OPEN", "CLOSE", "ERROR"}, chan : Chans]
  \cup [type : {"DATA", "WINDOW"}, chan : Chans, n : Chunks]

\* Every variable stays in its domain, and no queue exceeds its depth; the relay's own CLOSE
\* has a slot behind it.
TypeOK ==
  /\ listed \in [End -> SUBSET Chans]
  /\ avail \in [End -> [Chans -> 0..InitialWindow]]
  /\ pump \in [End -> [Chans -> {"none", "opening", "reading", "waiting", "sending", "ended"}]]
  /\ hold \in [End -> [Chans -> {0} \cup Chunks]]
  /\ answer \in [Chans -> {"none", "ok", "refused"}]
  /\ nextChan \in 0..MaxChannels
  /\ loop \in [End -> {Idle} \cup Frames]
  /\ hostIn \in Seq(Frames) /\ hostOut \in Seq(Frames) /\ queue \in [Chans -> Seq(Frames)]
  /\ Len(hostOut) <= SenderDepth
  /\ \A c \in Chans : Len(queue[c]) <= QueueDepth + 1
  /\ routed \subseteq Chans
  /\ guest \in {"up", "closing", "left"} /\ share \in {"up", "failed", "over"}
  /\ read \in [End -> [Chans -> Nat]] /\ wrote \in [End -> [Chans -> Nat]]
  /\ \A e \in End, c \in Chans : read[e][c] <= MaxBytes(e) /\ wrote[e][c] <= MaxBytes(Peer(e))
  /\ eof \in [End -> SUBSET Chans] /\ told \in [End -> SUBSET Chans]
  /\ retired \subseteq Chans /\ dropped \subseteq Chans /\ late \subseteq Chans

\* The bytes of frames of a type that are on their way to an end for a channel, or in its hand.
Size(f, c, type) == IF f.type = type /\ f.chan = c THEN f.n ELSE 0
Bytes(frames, c, type) ==
  LET upTo[i \in 0..Len(frames)] ==
        IF i = 0 THEN 0 ELSE upTo[i - 1] + Size(frames[i], c, type)
  IN  upTo[Len(frames)]
Between(e, c, type) == IF e = "guest" THEN Bytes(hostOut, c, type) + Bytes(queue[c], c, type)
                       ELSE Bytes(hostIn, c, type)
Underway(e, c, type) == Between(e, c, type) + Size(loop[e], c, type)

\* The window an end has or has coming back to it, and the bytes it read that went somewhere.
Window(e, c) ==
  avail[e][c] + Underway(Peer(e), c, "DATA") + Underway(e, c, "WINDOW")
    + (IF pump[e][c] = "sending" THEN hold[e][c] ELSE 0)
Carried(e, c) == wrote[Peer(e)][c] + Underway(Peer(e), c, "DATA") + hold[e][c]

\* While a stream is up, an end's credit, the bytes it has sent that nobody has written yet
\* and the credit on its way back make up the window: none is lost, none is granted twice or
\* before it is due.  And no byte is: what one end read, the other has written, but for what
\* is on its way (window.go:20).
CreditKept ==
  \A e \in End, c \in Chans :
    c \in listed[e] \cap listed[Peer(e)] \cap routed /\ share = "up" =>
      Window(e, c) = InitialWindow /\ Carried(e, c) = read[e][c]

\* An end that closes because the other's application is done has written every byte of it:
\* the end of a stream overtakes nothing, in any queue, unless the relay gave up on it.
EofComesLast ==
  \A e \in End : \A c \in (eof[e] \cap told[Peer(e)]) \ retired :
    wrote[Peer(e)][c] = read[e][c]

Ends(frames, c) == \E i \in DOMAIN frames : frames[i].chan = c /\ frames[i].type \in Closing

\* Nobody keeps a socket for a stream the relay no longer routes without the news on its way:
\* but for a host that was dialling when it came, and a guest whose queue had no room for it.
EndReachesBoth ==
  share = "up" =>
    \A c \in Chans \ routed :
      /\ c \in listed["host"] \/ pump["host"][c] = "opening" => c \in late \/ Ends(hostIn, c)
      /\ c \in listed["guest"] => c \in dropped \/ Ends(queue[c], c)

\* A sender does not wait for ever while the applications read: its credit comes, or the news
\* that the stream ended - unless that was lost, the guest is leaving or sharing is over.
SendersGoOn ==
  \A e \in End, c \in Chans :
    pump[e][c] = "waiting" ~>
      pump[e][c] # "waiting" \/ c \in dropped \cup late \/ guest = "closing" \/ share # "up"

\* "Close stops listening and drops every forwarded connection" (forward_guest.go:250), and
\* the guest leaves.  The code does not keep this.
CloseReturns == guest = "closing" ~> guest = "left"

\* "The relay's per-forward queue is now a backstop rather than a limit anyone reaches"
\* (docs/architecture.md:453).  The code does not keep this.
QueueIsABackstop == retired = {}

-----------------------------------------------------------------------------
(* The inductive invariant behind EndReachesBoth. *)

\* What the argument needs of the domains; how much credit there is plays no part in it.
Wire ==
  [type : {"OPEN", "CLOSE", "ERROR"}, chan : Chans]
  \cup [type : {"DATA", "WINDOW"}, chan : Chans, n : Nat]

Domains ==
  /\ listed \in [End -> SUBSET Chans]
  /\ pump \in [End -> [Chans -> {"none", "opening", "reading", "waiting", "sending", "ended"}]]
  /\ hold \in [End -> [Chans -> Nat]]
  /\ loop \in [End -> {Idle} \cup [type : {"DATA"}, chan : Chans, n : Nat]]
  /\ nextChan \in 0..MaxChannels /\ routed \subseteq Chans
  /\ hostIn \in Seq(Wire) /\ hostOut \in Seq(Wire) /\ queue \in [Chans -> Seq(Wire)]
  /\ \A c \in Chans : \A i \in DOMAIN queue[c] : queue[c][i].chan = c

\* A number is used from the moment the guest took it, and the host has a socket for it only
\* behind a dial.
NumbersUsed ==
  /\ \A c \in Chans : c \in routed \/ pump["host"][c] # "none" => c <= nextChan
  /\ \A c \in listed["host"] : pump["host"][c] \notin {"none", "opening"}

\* An OPEN on its way is the first the host hears of a channel, and the only one; if the
\* channel has ended, the end is behind it.
OpenIsFirst ==
  \A i \in DOMAIN hostIn : hostIn[i].type = "OPEN" =>
    LET c == hostIn[i].chan IN
    /\ c <= nextChan /\ pump["host"][c] = "none"
    /\ \A j \in DOMAIN hostIn : hostIn[j].type = "OPEN" /\ hostIn[j].chan = c => j = i
    /\ c \notin routed =>
         \E j \in DOMAIN hostIn : j > i /\ hostIn[j].chan = c /\ hostIn[j].type \in Closing

\* The host announces an end after it let go of the socket, or of the dial.
HostLetGo ==
  \A i \in DOMAIN hostOut : hostOut[i].type \in Closing =>
    /\ hostOut[i].chan \notin listed["host"]
    /\ pump["host"][hostOut[i].chan] \notin {"none", "opening"}

\* A guest that is leaving holds nothing.
GuestLetGo == guest # "up" => listed["guest"] = {}

IInv == Domains /\ NumbersUsed /\ OpenIsFirst /\ HostLetGo /\ GuestLetGo /\ EndReachesBoth

-----------------------------------------------------------------------------
(* The inductive invariant behind TypeOK, CreditKept and EofComesLast. *)

\* The relay queues nothing for a forward beyond its depth, and an end with nothing read
\* holds nothing.
Depths ==
  /\ \A c \in routed : Len(queue[c]) <= QueueDepth
  /\ \A e \in End, c \in Chans :
       /\ pump[e][c] \in {"none", "opening", "reading"} => hold[e][c] = 0
       /\ pump[e][c] \in {"waiting", "sending"} => hold[e][c] \in Chunks

\* Before the host has dialled, the guest has sent it an OPEN and no more than a CLOSE, and
\* the host nothing.
Fresh ==
  \A c \in Chans : pump["host"][c] \in {"none", "opening"} =>
    /\ answer[c] = "none" /\ pump["guest"][c] \in {"none", "opening"}
    /\ c \in listed["guest"] => avail["guest"][c] = InitialWindow
    /\ queue[c] = <<>>
    /\ \A i \in DOMAIN hostOut : hostOut[i].chan # c
    /\ \A i \in DOMAIN hostIn : hostIn[i].type \in {"DATA", "WINDOW"} => hostIn[i].chan # c
    /\ \A e \in End : /\ loop[e] # Idle => loop[e].chan # c
                      /\ read[e][c] = 0 /\ wrote[e][c] = 0
                      /\ c \notin eof[e] /\ c \notin told[e]

\* Nothing passes the end of a stream on its way to the host, or in the relay's queue, and
\* nothing the host sent before its application was done.
EndsAreLast ==
  /\ \A i \in DOMAIN hostIn :
       /\ hostIn[i].chan <= nextChan
       /\ hostIn[i].type \in Closing =>
            /\ hostIn[i].chan \notin routed
            /\ \A j \in DOMAIN hostIn : j > i /\ hostIn[j].type = "DATA" => hostIn[j].chan # hostIn[i].chan
  /\ \A c \in Chans : \A i \in DOMAIN queue[c] :
       queue[c][i].type \in Closing => c \notin routed /\ i = Len(queue[c])
  /\ \A i \in DOMAIN hostOut : hostOut[i].type \in Closing /\ hostOut[i].chan \in eof["host"] =>
       \A j \in DOMAIN hostOut :
         j > i /\ hostOut[j].type = "DATA" => hostOut[j].chan # hostOut[i].chan

\* A stream the guest has but the relay does not route is one it gave up on, or the host let
\* go of - and everything the host read of it has passed.
Unrouted ==
  \A c \in (listed["guest"] \ routed) \ retired :
    /\ c \notin listed["host"] /\ pump["host"][c] \notin {"none", "opening"}
    /\ c \in eof["host"] =>
         \A i \in DOMAIN hostOut : hostOut[i].type = "DATA" => hostOut[i].chan # c

\* No end has more of a window than it was granted, and none writes more than was read; while
\* the stream is up, neither less.
Whole(c) == c \in listed["guest"] \cap listed["host"] \cap routed

Balanced(e, c) ==
  /\ Window(e, c) <= InitialWindow /\ Carried(e, c) <= read[e][c]
  /\ Whole(c) /\ share = "up" => Window(e, c) = InitialWindow
  /\ Whole(c) /\ (e = "guest" \/ share = "up") => Carried(e, c) = read[e][c]

Books == \A e \in End, c \in Chans : Balanced(e, c)

News(e, c) == IF e = "guest" THEN Ends(hostOut, c) \/ Ends(queue[c], c) ELSE Ends(hostIn, c)

\* An end that is told lets go, and the end that told it has let go unless the relay spoke for
\* it; what an application wrote before it was done is on its way before the news, or written.
Partings ==
  \A e \in End :
    /\ \A c \in told[e] : c \notin listed[e] /\ (c \in listed[Peer(e)] => c \in retired)
    /\ \A c \in eof[e] :
         /\ c \notin listed[e] /\ pump[e][c] = "ended" /\ hold[e][c] = 0
         /\ e = "guest" => c \notin routed
         /\ c \notin retired /\ c \in listed[Peer(e)] /\ News(Peer(e), c) =>
              Carried(e, c) = read[e][c]

CInv == /\ TypeOK /\ Depths /\ Fresh /\ EndsAreLast /\ Unrouted /\ Books /\ Partings
        /\ EofComesLast

=============================================================================
