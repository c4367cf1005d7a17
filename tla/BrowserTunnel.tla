--------------------------- MODULE BrowserTunnel ---------------------------
(***************************************************************************)
(* The browser's end of a terminal: class Tunnel (web/src/tunnel.ts) and    *)
(* the session page that owns it (showSession in web/src/main.ts).          *)
(*                                                                         *)
(* The page runs on one event loop.  A task - a socket event, a finished    *)
(* decryption, a key, a click - runs to the end of the promise callbacks it *)
(* makes runnable before the next task starts.  A callback is a step of its *)
(* own below, and Quiet, the guard of every task, says that none is         *)
(* runnable.  Cryptography is the one thing that takes turns with the loop: *)
(* a frame that has to be decrypted holds up the chain of frames behind it  *)
(* while sockets open, deliver and close.                                   *)
(***************************************************************************)
EXTENDS Naturals, Sequences, SequencesExt

CONSTANTS
  MaxConns,    \* how often the page connects
  MaxOutput,   \* DATA frames the relay sends on one connection
  MaxControl,  \* RESIZE and PING frames it sends on one connection
  MaxKeys,     \* keys the user types
  Faults       \* what may go wrong, a subset of AllFaults

AllFaults == {"blocked", "refused", "lost", "garbage", "corrupt", "early ack"}

ASSUME TunnelAssumption ==
  /\ MaxConns \in Nat /\ MaxOutput \in Nat /\ MaxControl \in Nat /\ MaxKeys \in Nat
  /\ Faults \subseteq AllFaults

Conns == 1..MaxConns

VARIABLES
  link,      \* the key in the page's link, the access and encryption of the session
  socket,    \* readyState of each WebSocket, "none" before it is made
  held,      \* this.ws is not null
  opened,    \* this.opened
  readOnly,  \* this.readOnly
  ending,    \* this.ending: "none", "graceful" or "failed"
  inbound,   \* frames on the inbound promise chain; the head is being handled
  outbound,  \* keys on the outbound chain; the head is being sealed
  current,   \* the page's variable tunnel; 0 before the first connect
  status,    \* what setStatus was last told
  stdinOff,  \* term.options.disableStdin
  typed,     \* keys typed so far; a key is its number
  relay,     \* the relay's end, as far as the page was told: "new", "acked" (the guest is
             \* attached, or about to be, or about to be turned away), "parting" (passed on the
             \* host's CLOSE), "done" (said its last, and closes) or "lost" (the connection
             \* broke)
  early,     \* the connections acknowledged before the host had declared that it encrypts
  next,      \* the chunk it sends next
  control,   \* RESIZE and PING frames it has sent
  sent,      \* what the page sent on each connection
  arrived,   \* history: the DATA and CLOSE frames each chain was given
  drawn,     \* history: the chunks each connection drew
  accepted,  \* history: the keys write() took
  reported,  \* history: the last status each tunnel reported
  muted,     \* history: keys typed before each tunnel was told its access
  hurried    \* history: a tunnel was replaced that was not finished

tunnelVars == <<socket, held, opened, readOnly, ending, inbound, outbound>>
pageVars == <<current, status, stdinOff, typed>>
relayVars == <<relay, early, next, control>>
logVars == <<sent, arrived, drawn, accepted, reported, muted, hurried>>
vars == <<link, tunnelVars, pageVars, relayVars, logVars>>

Control(t) == [type |-> t]
Data(n, ok) == [type |-> "DATA", chunk |-> n, ok |-> ok]
Ack(role, encrypted) == [type |-> "OPEN", role |-> role, encrypted |-> encrypted]
Key(n) == [type |-> "DATA", key |-> n]

\* The key the link carries, the access its token grants, and whether the host
\* encrypts.  fromTicketKey gives a viewer's key no writing direction.
Links == [key : {"none", "root", "viewer"}, grant : {"guest", "viewer"},
          encrypted : BOOLEAN]

Init ==
  /\ link \in Links
  /\ socket = [c \in Conns |-> "none"]
  /\ held = [c \in Conns |-> FALSE]
  /\ opened = [c \in Conns |-> FALSE]
  /\ readOnly = [c \in Conns |-> FALSE]
  /\ ending = [c \in Conns |-> "none"]
  /\ inbound = [c \in Conns |-> <<>>]
  /\ outbound = [c \in Conns |-> <<>>]
  /\ current = 0 /\ status = "none" /\ stdinOff = FALSE /\ typed = 0
  /\ relay = [c \in Conns |-> "new"] /\ early = {}
  /\ next = [c \in Conns |-> 1]
  /\ control = [c \in Conns |-> 0]
  /\ sent = [c \in Conns |-> <<>>]
  /\ arrived = [c \in Conns |-> <<>>]
  /\ drawn = [c \in Conns |-> <<>>]
  /\ accepted = [c \in Conns |-> <<>>]
  /\ reported = [c \in Conns |-> "none"]
  /\ muted = [c \in Conns |-> MaxKeys]
  /\ hurried = FALSE

-----------------------------------------------------------------------------
(* The parts the handlers share. *)

\* The head of c's chain waits for WebCrypto.
Decrypting(c) ==
  /\ inbound[c] # <<>>
  /\ link.key # "none"
  /\ Head(inbound[c]).type = "DATA"

\* A callback of c's chain is ready to run.
Runnable(c) == inbound[c] # <<>> /\ ~Decrypting(c)

Quiet == \A c \in Conns : ~Runnable(c)

\* close(): the handle goes, the closing handshake begins.
CloseSocket(c) ==
  /\ held' = [held EXCEPT ![c] = FALSE]
  /\ socket' = [socket EXCEPT ![c] =
                  IF held[c] /\ @ \in {"connecting", "open"} THEN "closing" ELSE @]

Report(c, s) ==
  /\ status' = s
  /\ reported' = [reported EXCEPT ![c] = s]

\* Mutant: a socket that closes on its own account is left alone.
FailQuietly(c) ==
  /\ ending' = [ending EXCEPT ![c] = IF @ = "none" THEN "failed" ELSE @]
  /\ Report(c, "error")
  /\ UNCHANGED <<held, socket>>

\* fail(): the first ending stays, the page is told, the socket is closed.
Fail(c) ==
  /\ ending' = [ending EXCEPT ![c] = IF @ = "none" THEN "failed" ELSE @]
  /\ Report(c, "error")
  /\ CloseSocket(c)

\* send(): dropped when the handle is gone or the socket no longer open.
Send(c, m) ==
  sent' = [sent EXCEPT ![c] = IF held[c] /\ socket[c] = "open" THEN Append(@, m) ELSE @]

\* onData: the terminal draws what it is given.
Draw(c, n) ==
  drawn' = [drawn EXCEPT ![c] = Append(@, n)]

\* The chain moves on to the next frame.
Handled(c) == inbound' = [inbound EXCEPT ![c] = Tail(@)]

-----------------------------------------------------------------------------
(* The page. *)

\* Nothing more can come of tunnel c.
Finished(c) == socket[c] \in {"none", "closed"} /\ inbound[c] = <<>>

\* connect(): a new tunnel takes the place of the last, which is not closed.
Connect ==
  /\ current < MaxConns
  /\ LET c == current + 1 IN
     /\ current' = c
     /\ hurried' = (hurried \/ \E d \in 1..current : ~Finished(d))
     /\ \/ /\ socket' = [socket EXCEPT ![c] = "connecting"]
           /\ held' = [held EXCEPT ![c] = TRUE]
           /\ Report(c, "connecting")
           /\ UNCHANGED ending
        \/ /\ "blocked" \in Faults      \* new WebSocket() throws
           /\ ending' = [ending EXCEPT ![c] = "failed"]
           /\ Report(c, "error")
           /\ UNCHANGED <<socket, held>>
  /\ UNCHANGED <<link, opened, readOnly, inbound, outbound, stdinOff, typed, relayVars,
                 sent, arrived, drawn, accepted, muted>>

\* showSession ends by connecting.
LoadPage ==
  /\ current = 0
  /\ Connect

\* The button on the overlay, which only a failure shows.
Reconnect ==
  /\ Quiet
  /\ current > 0 /\ status = "error"
  /\ Connect

\* write(): the user types; xterm is silent while disableStdin is set.
Type ==
  /\ Quiet
  /\ current > 0 /\ typed < MaxKeys /\ ~stdinOff
  /\ typed' = typed + 1
  /\ LET c == current
         takes == ~readOnly[c] /\ held[c] /\ socket[c] = "open"
     IN  /\ accepted' = IF takes THEN [accepted EXCEPT ![c] = Append(@, typed + 1)]
                        ELSE accepted
         /\ outbound' = IF takes /\ link.key = "root"
                        THEN [outbound EXCEPT ![c] = Append(@, typed + 1)] ELSE outbound
         /\ IF takes /\ link.key = "none" THEN Send(c, Key(typed + 1)) ELSE UNCHANGED sent
  /\ UNCHANGED <<link, socket, held, opened, readOnly, ending, inbound, current, status,
                 stdinOff, relayVars, arrived, drawn, reported, muted, hurried>>

\* Mutant: keys are sealed side by side, and the last may be done first.
SealedAnyOrder(c) ==
  /\ Quiet
  /\ \E i \in 1..Len(outbound[c]) :
       /\ Send(c, Key(outbound[c][i]))
       /\ outbound' = [outbound EXCEPT ![c] = RemoveAt(@, i)]
  /\ UNCHANGED <<link, socket, held, opened, readOnly, ending, inbound, pageVars, relayVars,
                 arrived, drawn, accepted, reported, muted, hurried>>

\* The key at the head of the outbound chain is sealed.
Sealed(c) ==
  /\ Quiet
  /\ outbound[c] # <<>>
  /\ Send(c, Key(Head(outbound[c])))
  /\ outbound' = [outbound EXCEPT ![c] = Tail(@)]
  /\ UNCHANGED <<link, socket, held, opened, readOnly, ending, inbound, pageVars, relayVars,
                 arrived, drawn, accepted, reported, muted, hurried>>

-----------------------------------------------------------------------------
(* The socket's events. *)

\* onopen: the credential goes out.
SocketOpens(c) ==
  /\ Quiet
  /\ socket[c] = "connecting"
  /\ socket' = [socket EXCEPT ![c] = "open"]
  /\ sent' = [sent EXCEPT ![c] = Append(@, Control("OPEN"))]
  /\ UNCHANGED <<link, held, opened, readOnly, ending, inbound, outbound, pageVars, relayVars,
                 arrived, drawn, accepted, reported, muted, hurried>>

\* What the relay may say next, and what becomes of it (internal/server/tunnel.go,
\* internal/session/bridge.go).  The acknowledgement reads the bridge's flag before the guest
\* is attached: the host may declare itself in between, and the guest is then attached all the
\* same.  A guest that finds no host, attaching or typing, is told so by an ERROR, which may
\* even follow the host's CLOSE; output is what the ring holds and what follows.
RelaySays(c, m) ==
  LET becomes(state) == relay' = [relay EXCEPT ![c] = state] IN
  \/ /\ relay[c] = "new" /\ sent[c] # <<>>
     /\ \/ m = Ack(link.grant, link.encrypted) /\ becomes("acked") /\ UNCHANGED early
        \/ m = Control("ERROR") /\ becomes("done") /\ UNCHANGED early
        \/ /\ "early ack" \in Faults /\ link.encrypted
           /\ m = Ack(link.grant, FALSE) /\ becomes("acked") /\ early' = early \cup {c}
     /\ UNCHANGED <<next, control>>
  \/ /\ relay[c] = "acked" /\ next[c] <= MaxOutput
     /\ \E ok \in IF "corrupt" \in Faults /\ link.key # "none" THEN BOOLEAN ELSE {TRUE} :
          m = Data(next[c], ok)
     /\ next' = [next EXCEPT ![c] = @ + 1]
     /\ UNCHANGED <<relay, early, control>>
  \/ /\ control[c] < MaxControl
     /\ \/ relay[c] = "acked" /\ m = Control("RESIZE")
        \/ relay[c] \in {"acked", "parting"} /\ m = Control("PING")
     /\ control' = [control EXCEPT ![c] = @ + 1]
     /\ UNCHANGED <<relay, early, next>>
  \/ /\ \/ relay[c] = "acked" /\ m = Control("CLOSE") /\ becomes("parting")
        \/ relay[c] \in {"acked", "parting"} /\ m = Control("ERROR") /\ becomes("done")
        \/ /\ "garbage" \in Faults /\ relay[c] = "acked"
           /\ m = Control("GARBAGE") /\ becomes("done")
     /\ UNCHANGED <<early, next, control>>

Frames ==
  [type : {"OPEN"}, role : {"guest", "viewer"}, encrypted : BOOLEAN]
  \cup [type : {"DATA"}, chunk : 1..MaxOutput, ok : BOOLEAN]
  \cup [type : {"RESIZE", "PING", "CLOSE", "ERROR"}]

\* onmessage: a frame joins the chain; a message that does not decode ends the tunnel there
\* and then, ahead of what is on the chain.
Arrives(c) ==
  /\ Quiet
  /\ socket[c] = "open"
  /\ \/ \E m \in Frames :
          /\ RelaySays(c, m)
          /\ inbound' = [inbound EXCEPT ![c] = Append(@, m)]
          /\ arrived' = IF m.type \in {"DATA", "CLOSE"}
                        THEN [arrived EXCEPT ![c] = Append(@, m)] ELSE arrived
          /\ UNCHANGED <<ending, status, reported, held, socket>>
     \/ /\ RelaySays(c, Control("GARBAGE"))
        /\ Fail(c)
        /\ UNCHANGED <<inbound, arrived>>
  /\ UNCHANGED <<link, opened, readOnly, outbound, current, stdinOff, typed, sent,
                 drawn, accepted, muted, hurried>>

\* The relay drops a guest, or shuts down, without a word.
RelayHangsUp(c) ==
  /\ socket[c] = "open" /\ relay[c] = "acked"
  /\ relay' = [relay EXCEPT ![c] = "done"]
  /\ UNCHANGED <<link, tunnelVars, pageVars, early, next, control, logVars>>

\* The connection breaks.
ConnectionLost(c) ==
  /\ "lost" \in Faults
  /\ socket[c] = "open" /\ relay[c] # "lost"
  /\ relay' = [relay EXCEPT ![c] = "lost"]
  /\ UNCHANGED <<link, tunnelVars, pageVars, early, next, control, logVars>>

\* The socket closes: its handshake is over or given up, the relay closed it, the connection
\* broke, or there never was one.
Closable(c) ==
  \/ socket[c] = "closing"
  \/ socket[c] = "open" /\ relay[c] \in {"parting", "done", "lost"}
  \/ socket[c] = "connecting" /\ "refused" \in Faults

\* onerror, for a connection that failed, and onclose, in one task.
SocketEnds(c) ==
  /\ Quiet
  /\ Closable(c)
  /\ socket' = [socket EXCEPT ![c] = "closed"]
  /\ IF ending[c] # "none"
     THEN /\ Report(c, IF ending[c] = "graceful" THEN "closed" ELSE "error")
          /\ UNCHANGED <<ending, held>>
     ELSE /\ ending' = [ending EXCEPT ![c] = "failed"]
          /\ Report(c, "error")
          /\ \E failed \in IF relay[c] = "lost" THEN BOOLEAN ELSE {socket[c] = "connecting"} :
               held' = [held EXCEPT ![c] = @ /\ opened[c] /\ ~failed]
  /\ UNCHANGED <<link, opened, readOnly, inbound, outbound, current, stdinOff, typed,
                 relayVars, sent, arrived, drawn, accepted, muted, hurried>>

-----------------------------------------------------------------------------
(* handle(): the frame at the head of the chain. *)

Turn(c, type) == Runnable(c) /\ Head(inbound[c]).type = type

\* Mutant: a mismatch is reported and the frame handled all the same.
HandleOpenAnyway(c) ==
  /\ Turn(c, "OPEN")
  /\ Handled(c)
  /\ opened' = [opened EXCEPT ![c] = TRUE]
  /\ LET ack == Head(inbound[c])
         watch == ack.role # "guest" \/ link.key = "viewer"
     IN  /\ readOnly' = [readOnly EXCEPT ![c] = watch]
         /\ stdinOff' = watch
         /\ muted' = [muted EXCEPT ![c] = typed]
         /\ Report(c, "connected")
  /\ UNCHANGED <<link, ending, held, socket, outbound, current, typed, relayVars,
                 sent, arrived, drawn, accepted, hurried>>

\* Mutant: the relay's word alone decides.
HandleOpenTrustsRelay(c) ==
  /\ Turn(c, "OPEN")
  /\ Handled(c)
  /\ opened' = [opened EXCEPT ![c] = TRUE]
  /\ LET ack == Head(inbound[c]) IN
     IF ack.encrypted # (link.key # "none")
     THEN Fail(c) /\ UNCHANGED <<readOnly, stdinOff, muted>>
     ELSE /\ readOnly' = [readOnly EXCEPT ![c] = FALSE]
          /\ stdinOff' = FALSE
          /\ muted' = [muted EXCEPT ![c] = typed]
          /\ Report(c, "connected")
          /\ UNCHANGED <<ending, held, socket>>
  /\ UNCHANGED <<link, outbound, current, typed, relayVars, sent, arrived, drawn,
                 accepted, hurried>>

\* The relay's answer.  The session is encrypted exactly if the link has a key, or the page
\* stops; the narrower of the relay's answer and the key decides whether it may type.
HandleOpen(c) ==
  /\ Turn(c, "OPEN")
  /\ Handled(c)
  /\ opened' = [opened EXCEPT ![c] = TRUE]
  /\ LET ack == Head(inbound[c])
         watch == ack.role # "guest" \/ link.key = "viewer"
     IN  IF ack.encrypted # (link.key # "none")
         THEN Fail(c) /\ UNCHANGED <<readOnly, stdinOff, muted>>
         ELSE /\ readOnly' = [readOnly EXCEPT ![c] = watch]
              /\ stdinOff' = watch
              /\ muted' = [muted EXCEPT ![c] = typed]
              /\ Report(c, "connected")
              /\ UNCHANGED <<ending, held, socket>>
  /\ UNCHANGED <<link, outbound, current, typed, relayVars, sent, arrived, drawn,
                 accepted, hurried>>

\* Output of a session without encryption.
HandleData(c) ==
  /\ Turn(c, "DATA")
  /\ Handled(c)
  /\ Draw(c, Head(inbound[c]).chunk)
  /\ UNCHANGED <<link, socket, held, opened, readOnly, ending, outbound, current, status,
                 stdinOff, typed, relayVars, sent, arrived, accepted, reported, muted, hurried>>

\* Mutant: frames are decrypted side by side, whichever is done first is drawn.
DecryptedAnyOrder(c) ==
  /\ Quiet
  /\ \E i \in 1..Len(inbound[c]) :
       /\ link.key # "none" /\ inbound[c][i].type = "DATA"
       /\ inbound' = [inbound EXCEPT ![c] = RemoveAt(@, i)]
       /\ Draw(c, inbound[c][i].chunk)
  /\ UNCHANGED <<link, socket, held, opened, readOnly, ending, outbound, current, status,
                 stdinOff, typed, relayVars, sent, arrived, accepted, reported, muted, hurried>>

\* Mutant: a rejection is not caught, and every later callback of the chain is skipped.
DecryptedOrStuck(c) ==
  /\ Quiet
  /\ Decrypting(c)
  /\ Head(inbound[c]).ok
  /\ Handled(c)
  /\ Draw(c, Head(inbound[c]).chunk)
  /\ UNCHANGED <<link, socket, held, opened, readOnly, ending, outbound, current, status,
                 stdinOff, typed, relayVars, sent, arrived, accepted, reported, muted, hurried>>

\* WebCrypto is done with the frame at the head of the chain.
Decrypted(c) ==
  /\ Quiet
  /\ Decrypting(c)
  /\ Handled(c)
  /\ IF Head(inbound[c]).ok
     THEN /\ Draw(c, Head(inbound[c]).chunk)
          /\ UNCHANGED <<ending, status, reported, held, socket>>
     ELSE Fail(c) /\ UNCHANGED drawn
  /\ UNCHANGED <<link, opened, readOnly, outbound, current, stdinOff, typed, relayVars, sent,
                 arrived, accepted, muted, hurried>>

\* Mutant: a PING is answered with what was received.
HandleControlEchoes(c) ==
  /\ \/ Turn(c, "RESIZE") /\ UNCHANGED sent
     \/ Turn(c, "PING") /\ Send(c, Control("PING"))
  /\ Handled(c)
  /\ UNCHANGED <<link, socket, held, opened, readOnly, ending, outbound, pageVars, relayVars,
                 arrived, drawn, accepted, reported, muted, hurried>>

\* The size is the terminal's business; a PING is answered.
HandleControl(c) ==
  /\ \/ Turn(c, "RESIZE") /\ UNCHANGED sent
     \/ Turn(c, "PING") /\ Send(c, Control("PONG"))
  /\ Handled(c)
  /\ UNCHANGED <<link, socket, held, opened, readOnly, ending, outbound, pageVars, relayVars,
                 arrived, drawn, accepted, reported, muted, hurried>>

\* The host ended the session.  The page hears of it when the socket is closed.
HandleClose(c) ==
  /\ Turn(c, "CLOSE")
  /\ Handled(c)
  /\ ending' = [ending EXCEPT ![c] = "graceful"]
  /\ CloseSocket(c)
  /\ UNCHANGED <<link, opened, readOnly, outbound, pageVars, relayVars, sent, arrived, drawn,
                 accepted, reported, muted, hurried>>

HandleError(c) ==
  /\ Turn(c, "ERROR")
  /\ Handled(c)
  /\ Fail(c)
  /\ UNCHANGED <<link, opened, readOnly, outbound, current, stdinOff, typed, relayVars,
                 sent, arrived, drawn, accepted, muted, hurried>>

-----------------------------------------------------------------------------
Page == LoadPage \/ Reconnect \/ Type

Chain(c) ==
  \/ HandleOpen(c) \/ HandleData(c) \/ HandleControl(c) \/ HandleClose(c) \/ HandleError(c)
  \/ Decrypted(c) \/ Sealed(c)

Socket(c) == SocketOpens(c) \/ Arrives(c) \/ SocketEnds(c)

Network(c) == RelayHangsUp(c) \/ ConnectionLost(c)

Next == Page \/ \E c \in Conns : Chain(c) \/ Socket(c) \/ Network(c)

Spec == Init /\ [][Next]_vars

\* The event loop runs what is ready, WebCrypto finishes, and sockets whose peer is gone or
\* whose handshake has begun close.  Nothing is assumed of the user or of the relay.
Fairness ==
  \A c \in Conns :
    WF_vars(Chain(c)) /\ WF_vars(socket[c] # "connecting" /\ SocketEnds(c))

FairSpec == Spec /\ Fairness

-----------------------------------------------------------------------------
(* Properties. *)

\* Every variable stays in its domain.
TypeOK ==
  /\ link \in Links
  /\ socket \in [Conns -> {"none", "connecting", "open", "closing", "closed"}]
  /\ held \in [Conns -> BOOLEAN]
  /\ opened \in [Conns -> BOOLEAN]
  /\ readOnly \in [Conns -> BOOLEAN]
  /\ ending \in [Conns -> {"none", "graceful", "failed"}]
  /\ inbound \in [Conns -> Seq(Frames)]
  /\ outbound \in [Conns -> Seq(1..MaxKeys)]
  /\ current \in 0..MaxConns
  /\ status \in {"none", "connecting", "connected", "closed", "error"}
  /\ stdinOff \in BOOLEAN
  /\ typed \in 0..MaxKeys
  /\ sent \in [Conns -> Seq([type : {"OPEN", "PONG"}] \cup [type : {"DATA"}, key : 1..MaxKeys])]
  /\ drawn \in [Conns -> Seq(1..MaxOutput)]
  /\ muted \in [Conns -> 0..MaxKeys]
  /\ hurried \in BOOLEAN
  /\ relay \in [Conns -> {"new", "acked", "parting", "done", "lost"}]
  /\ early \subseteq Conns
  /\ next \in [Conns -> 1..(MaxOutput + 1)]
  /\ control \in [Conns -> 0..MaxControl]

\* The DATA frames of a chain that authenticate, and the keys among what was sent, by their
\* places; and the increasing sequences of numbers.
Good(f)   == f.type = "DATA" /\ f.ok
GoodAt(s) == {i \in DOMAIN s : Good(s[i])}
KeyAt(s)  == {i \in DOMAIN s : s[i].type = "DATA"}
Rising(s) == \A i, j \in DOMAIN s : i < j => s[i] < s[j]

\* What a tunnel has drawn, followed by what is still on its chain, is exactly the output
\* it was given, in order - the relay numbers its chunks: however slow decryption is and
\* whatever happens to the socket meanwhile, no frame that authenticates is lost, doubled
\* or overtaken (tunnel.ts:93).
DrawnAsReceived ==
  \A c \in Conns :
    LET chain == inbound[c]
        given == arrived[c]
    IN  /\ Rising(drawn[c])
        /\ \A i \in DOMAIN drawn[c] : \A j \in GoodAt(chain) : drawn[c][i] < chain[j].chunk
        /\ \A i, j \in GoodAt(chain) : i < j => chain[i].chunk < chain[j].chunk
        /\ \A i, j \in GoodAt(given) : i < j => given[i].chunk < given[j].chunk
        /\ {drawn[c][i] : i \in DOMAIN drawn[c]} \cup {chain[i].chunk : i \in GoodAt(chain)}
             = {given[i].chunk : i \in GoodAt(given)}

\* Keys leave in the order they were typed, and none is skipped before one that is sent,
\* however long sealing takes and whatever becomes of the socket meanwhile (tunnel.ts:296).
KeysInOrder ==
  \A c \in Conns :
    LET out  == sent[c]
        took == accepted[c]
    IN  /\ Rising(took)
        /\ \A i, j \in KeyAt(out) : i < j => out[i].key < out[j].key
        /\ \A i \in KeyAt(out) : \E k \in DOMAIN took : took[k] = out[i].key
        /\ \A i \in KeyAt(out) : \A k \in DOMAIN took :
             took[k] < out[i].key => \E j \in KeyAt(out) : out[j].key = took[k]

\* When link and session disagree about encryption nothing is ever drawn, on any connection:
\* never what a relay made of a keyed link, and ciphertext only if the relay acknowledged a
\* guest without a key before the host had declared that it encrypts (tunnel.ts:229).
MismatchShowsNothing ==
  link.encrypted # (link.key # "none") =>
    \A c \in Conns : drawn[c] = <<>> \/ (link.key = "none" /\ c \in early)

\* "A guest whose link lost its key is told that, rather than being shown a screen of
\* ciphertext" (internal/server/tunnel.go:109).  The code does not keep this: see early.
CiphertextIsNotShown ==
  link.encrypted /\ link.key = "none" => \A c \in Conns : drawn[c] = <<>>

\* The narrower of the relay's grant and the key's kind wins: from the acknowledgement on
\* nothing typed is sent if either says watch only, and the page says so (tunnel.ts:248).
NarrowerWins ==
  link.grant = "viewer" \/ link.key = "viewer" =>
    /\ \A c \in Conns : \A i \in DOMAIN sent[c] :
         sent[c][i].type = "DATA" => sent[c][i].key <= muted[c]
    /\ status = "connected" => stdinOff

\* Unless the user reconnected while the last tunnel was still closing or decrypting, there
\* is at most one tunnel that can still do something, "connected" is said of a terminal that
\* is there, and the overlay never covers one that is (main.ts:164).
StatusIsTrue ==
  ~hurried =>
    /\ \A c \in 1..current : c # current => Finished(c)
    /\ status = "connected" => opened[current] /\ socket[current] \in {"open", "closing"}
    /\ status \in {"closed", "error"} => socket[current] \in {"none", "closing", "closed"}

Told(c) == \E i \in DOMAIN arrived[c] : arrived[c][i].type = "CLOSE"

\* Where the host's CLOSE arrived and no frame was corrupt, the page is told that the session
\* ended "normally, rather than [by] a failure" (tunnel.ts:50).  The code does not keep this.
GracefulEndIsShown ==
  \A c \in Conns :
    Told(c) /\ (\A i \in DOMAIN arrived[c] : arrived[c][i].type = "DATA" => arrived[c][i].ok)
      /\ Finished(c)
    => reported[c] = "closed"

\* The chain is never stuck: a frame that arrived is handled, also behind one that did not
\* decrypt (tunnel.ts:153).
ChainDrains == \A c \in Conns : inbound[c] # <<>> ~> inbound[c] = <<>>

\* When the relay is gone, or the tunnel has failed, the socket closes and the page is told
\* that the terminal is no longer there (tunnel.ts:175).
EndIsTold ==
  \A c \in Conns :
    relay[c] \in {"parting", "done", "lost"} \/ ending[c] # "none"
      ~> socket[c] \in {"none", "closed"} /\ reported[c] \in {"closed", "error"}

-----------------------------------------------------------------------------
(* The inductive invariant behind MismatchShowsNothing, NarrowerWins and StatusIsTrue. *)

\* A socket that may still carry something is the one the tunnel holds; tunnels that were not
\* made yet have none; and the relay has said nothing before it is connected.
Sockets ==
  \A c \in Conns :
    /\ socket[c] \in {"connecting", "open"} => held[c]
    /\ c > current => socket[c] = "none"
    /\ socket[c] \in {"none", "connecting"} => relay[c] = "new"
    /\ relay[c] = "new" => inbound[c] = <<>>

\* The acknowledgement is alone on the chain, and is handled before the socket or the page
\* does anything: a frame that comes after it finds the chain empty.
AckFirst ==
  \A c \in Conns : \A i \in DOMAIN inbound[c] :
    inbound[c][i].type = "OPEN" =>
      Len(inbound[c]) = 1 /\ socket[c] = "open" /\ inbound[c][i].role = link.grant

\* When link and session disagree, output could only follow an acknowledgement that stops the
\* tunnel, or one that came too early to tell.
Mismatch ==
  /\ early # {} => link.encrypted
  /\ link.encrypted # (link.key # "none") =>
       \A c \in Conns \ early :
         /\ drawn[c] = <<>>
         /\ \A i \in DOMAIN inbound[c] : inbound[c][i].type # "DATA"
         /\ relay[c] = "acked" /\ socket[c] = "open" =>
              inbound[c] # <<>> /\ Head(inbound[c]) = Ack(link.grant, link.encrypted)

\* Keys that are sent or being sealed were typed, and on a link that may only watch they were
\* typed before the tunnel knew.
KeysTyped ==
  \A c \in Conns :
    /\ \A i \in DOMAIN sent[c] : sent[c][i].type = "DATA" => sent[c][i].key <= typed
    /\ \A i \in DOMAIN outbound[c] : outbound[c][i] <= typed

KeysMuted ==
  link.grant = "viewer" \/ link.key = "viewer" =>
    \A c \in Conns :
      /\ readOnly[c] \/ muted[c] = MaxKeys
      /\ \A i \in DOMAIN outbound[c] : outbound[c][i] <= muted[c]

IInv == TypeOK /\ Sockets /\ AckFirst /\ Mismatch /\ KeysTyped /\ KeysMuted
        /\ NarrowerWins /\ StatusIsTrue

-----------------------------------------------------------------------------
(* The inductive invariant behind DrawnAsReceived and KeysInOrder. *)

\* Nothing on the chain or on the screen is newer than what the relay has sent, and a page
\* without a key is given nothing that could fail to authenticate.
Output ==
  /\ arrived \in [Conns -> Seq(Frames)]
  /\ \A c \in Conns :
       /\ \A i \in DOMAIN drawn[c] : drawn[c][i] < next[c]
       /\ \A i \in GoodAt(inbound[c]) : inbound[c][i].chunk < next[c]
       /\ \A i \in GoodAt(arrived[c]) : arrived[c][i].chunk < next[c]
       /\ link.key = "none" => \A i \in DOMAIN inbound[c] :
                                 inbound[c][i].type = "DATA" => inbound[c][i].ok

\* The socket may carry keys: on a viewer's link none is sealed or sent.
Live(c) == held[c] /\ socket[c] = "open" /\ link.key # "viewer"

\* The keys being sealed follow those that were sent, and while the socket is open the keys a
\* tunnel took are all among them; it takes none before its socket is open.
Typing ==
  /\ accepted \in [Conns -> Seq(1..MaxKeys)]
  /\ \A c \in Conns :
       LET out  == sent[c]
           took == accepted[c]
           wait == outbound[c]
       IN  /\ \A k \in DOMAIN took : took[k] <= typed
           /\ socket[c] \in {"none", "connecting"} => took = <<>>
           /\ link.key # "root" => wait = <<>>
           /\ Rising(wait)
           /\ \A i \in KeyAt(out) : \A j \in DOMAIN wait : out[i].key < wait[j]
           /\ \A j \in DOMAIN wait : \E k \in DOMAIN took : took[k] = wait[j]
           /\ Live(c) => \A k \in DOMAIN took :
                           \/ \E i \in KeyAt(out) : out[i].key = took[k]
                           \/ \E j \in DOMAIN wait : wait[j] = took[k]

OInv == Output /\ Typing /\ DrawnAsReceived /\ KeysInOrder
=============================================================================
