------------------------ MODULE BrowserTunnelProofs -------------------------
(***************************************************************************)
(* Theorems about BrowserTunnel, for any number of connections, frames and  *)
(* keys and any set of faults.  MismatchShowsNothing, NarrowerWins and      *)
(* StatusIsTrue follow from one inductive invariant, IInv, whose core is    *)
(* AckFirst: the relay's answer is handled before anything else happens.    *)
(* DrawnAsReceived and KeysInOrder follow from a second, OInv: what is on a *)
(* chain lies between what has left it and what is still to come.           *)
(***************************************************************************)
EXTENDS BrowserTunnel, SequenceTheorems, TLAPS

USE TunnelAssumption

-----------------------------------------------------------------------------
(* Sequences. *)

\* The tail of a chain, element by element.
LEMMA TailElements ==
  ASSUME NEW S, NEW s \in Seq(S), s # <<>>
  PROVE  /\ Tail(s) \in Seq(S)
         /\ Head(s) \in S /\ Head(s) = s[1] /\ 1 \in DOMAIN s
         /\ Len(Tail(s)) = Len(s) - 1
         /\ \A i \in DOMAIN Tail(s) : i + 1 \in DOMAIN s /\ Tail(s)[i] = s[i + 1]
OBVIOUS

\* A chain with one element more.
LEMMA AppendElements ==
  ASSUME NEW S, NEW s \in Seq(S), NEW e \in S
  PROVE  /\ Append(s, e) \in Seq(S)
         /\ Append(s, e) # <<>>
         /\ Len(Append(s, e)) = Len(s) + 1
         /\ \A i \in DOMAIN Append(s, e) : IF i \in DOMAIN s THEN Append(s, e)[i] = s[i]
                                           ELSE i = Len(s) + 1 /\ Append(s, e)[i] = e
OBVIOUS

\* A queue per connection, one of which grows or shrinks.
LEMMA AppendAt ==
  ASSUME NEW I, NEW S, NEW f \in [I -> Seq(S)], NEW i \in I, NEW e \in S
  PROVE  [f EXCEPT ![i] = Append(@, e)] \in [I -> Seq(S)]
<1>1. f[i] \in Seq(S)
  OBVIOUS
<1>2. Append(f[i], e) \in Seq(S)
  BY <1>1, AppendElements
<1>. QED BY <1>2

LEMMA TailAt ==
  ASSUME NEW I, NEW S, NEW f \in [I -> Seq(S)], NEW i \in I, f[i] # <<>>
  PROVE  [f EXCEPT ![i] = Tail(@)] \in [I -> Seq(S)]
<1>1. f[i] \in Seq(S)
  OBVIOUS
<1>2. Tail(f[i]) \in Seq(S)
  BY <1>1, TailElements
<1>. QED BY <1>2

-----------------------------------------------------------------------------
(* Type correctness. *)

States == {"none", "connecting", "open", "closing", "closed"}
Sent == [type : {"OPEN", "PONG"}] \cup [type : {"DATA"}, key : 1..MaxKeys]

\* What the page sends stays in the domain of sent.
LEMMA SendType ==
  ASSUME TypeOK, NEW c \in Conns, NEW m \in Sent, Send(c, m)
  PROVE  sent' \in [Conns -> Seq(Sent)]
<1>1. sent \in [Conns -> Seq(Sent)]
  BY DEF TypeOK, Sent
<1>2. [sent EXCEPT ![c] = Append(@, m)] \in [Conns -> Seq(Sent)]
  BY <1>1, AppendAt
<1>3. CASE held[c] /\ socket[c] = "open"
  BY <1>2, <1>3 DEF Send
<1>4. CASE ~(held[c] /\ socket[c] = "open")
  BY <1>1, <1>4 DEF Send
<1>. QED BY <1>3, <1>4

LEMMA CloseSocketType ==
  ASSUME TypeOK, NEW c \in Conns, CloseSocket(c)
  PROVE  held' \in [Conns -> BOOLEAN] /\ socket' \in [Conns -> States]
BY DEF TypeOK, CloseSocket, States

LEMMA FailType ==
  ASSUME TypeOK, NEW c \in Conns, Fail(c)
  PROVE  /\ held' \in [Conns -> BOOLEAN] /\ socket' \in [Conns -> States]
         /\ ending' \in [Conns -> {"none", "graceful", "failed"}]
         /\ status' = "error"
BY CloseSocketType DEF TypeOK, Fail, Report

LEMMA HandledType ==
  ASSUME TypeOK, NEW c \in Conns, inbound[c] # <<>>, Handled(c)
  PROVE  inbound' \in [Conns -> Seq(Frames)] /\ Head(inbound[c]) \in Frames
<1>1. inbound \in [Conns -> Seq(Frames)]
  BY DEF TypeOK
<1>2. inbound[c] \in Seq(Frames)
  BY <1>1
<1>. QED BY <1>1, <1>2, TailAt, TailElements DEF Handled

\* The chunk of the frame at the head is drawn.
LEMMA DrawType ==
  ASSUME TypeOK, NEW c \in Conns, Head(inbound[c]) \in Frames,
         Head(inbound[c]).type = "DATA", Draw(c, Head(inbound[c]).chunk)
  PROVE  drawn' \in [Conns -> Seq(1..MaxOutput)]
<1>1. Head(inbound[c]).chunk \in 1..MaxOutput
  BY DEF Frames
<1>2. drawn \in [Conns -> Seq(1..MaxOutput)]
  BY DEF TypeOK
<1>. QED BY <1>1, <1>2, AppendAt DEF Draw

\* The frames the relay sends, and what it becomes.
LEMMA RelaySaysType ==
  ASSUME TypeOK, NEW c \in Conns, NEW m, RelaySays(c, m)
  PROVE  /\ relay' \in [Conns -> {"new", "acked", "parting", "done", "lost"}]
         /\ next' \in [Conns -> 1..(MaxOutput + 1)]
         /\ control' \in [Conns -> 0..MaxControl]
         /\ early' \subseteq Conns
<1>1. /\ relay \in [Conns -> {"new", "acked", "parting", "done", "lost"}]
      /\ next \in [Conns -> 1..(MaxOutput + 1)]
      /\ control \in [Conns -> 0..MaxControl]
  BY DEF TypeOK
<1>2. \E s \in {"acked", "parting", "done"} :
        relay' = [relay EXCEPT ![c] = s] \/ relay' = relay
  BY DEF RelaySays
<1>3. \/ next' = next
      \/ next[c] <= MaxOutput /\ next' = [next EXCEPT ![c] = @ + 1]
  BY DEF RelaySays
<1>4. \/ control' = control
      \/ control[c] < MaxControl /\ control' = [control EXCEPT ![c] = @ + 1]
  BY DEF RelaySays
<1>5. relay' \in [Conns -> {"new", "acked", "parting", "done", "lost"}]
  BY <1>1, <1>2
<1>6. next' \in [Conns -> 1..(MaxOutput + 1)]
  <2>1. next \in [Conns -> 1..(MaxOutput + 1)]
    BY <1>1
  <2>2. CASE next[c] <= MaxOutput /\ next' = [next EXCEPT ![c] = @ + 1]
    <3>1. next[c] + 1 \in 1..(MaxOutput + 1)
      BY <2>1, <2>2
    <3>. QED BY <2>1, <2>2, <3>1
  <2>. QED BY <1>3, <2>1, <2>2
<1>7. control' \in [Conns -> 0..MaxControl]
  <2>1. control \in [Conns -> 0..MaxControl]
    BY <1>1
  <2>2. CASE control[c] < MaxControl /\ control' = [control EXCEPT ![c] = @ + 1]
    <3>1. control[c] + 1 \in 0..MaxControl
      BY <2>1, <2>2
    <3>. QED BY <2>1, <2>2, <3>1
  <2>. QED BY <1>4, <2>1, <2>2
<1>8. early' \subseteq Conns
  <2>1. early \subseteq Conns
    BY DEF TypeOK
  <2>. QED BY <2>1 DEF RelaySays
<1>. QED BY <1>5, <1>6, <1>7, <1>8

LEMMA ConnectType ==
  ASSUME TypeOK, Connect
  PROVE  TypeOK'
<1>1. current + 1 \in Conns /\ current' = current + 1 /\ current' \in 0..MaxConns
  <2>1. current \in 0..MaxConns
    BY DEF TypeOK
  <2>. QED BY <2>1 DEF Connect, Conns
<1>2. hurried' \in BOOLEAN
  BY DEF Connect
<1>3. CASE /\ socket' = [socket EXCEPT ![current + 1] = "connecting"]
           /\ held' = [held EXCEPT ![current + 1] = TRUE]
           /\ Report(current + 1, "connecting") /\ UNCHANGED ending
  BY <1>1, <1>2, <1>3 DEF TypeOK, Connect, Report, relayVars
<1>4. CASE /\ ending' = [ending EXCEPT ![current + 1] = "failed"]
           /\ Report(current + 1, "error") /\ UNCHANGED <<socket, held>>
  BY <1>1, <1>2, <1>4 DEF TypeOK, Connect, Report, relayVars
<1>. QED BY <1>3, <1>4 DEF Connect

LEMMA TypeType ==
  ASSUME TypeOK, Type
  PROVE  TypeOK'
<1>1. current \in Conns /\ typed + 1 \in 1..MaxKeys /\ typed' = typed + 1
  <2>1. current \in 0..MaxConns /\ typed \in 0..MaxKeys
    BY DEF TypeOK
  <2>. QED BY <2>1 DEF Type, Conns
<1>2. outbound' \in [Conns -> Seq(1..MaxKeys)]
  <2>1. [outbound EXCEPT ![current] = Append(@, typed + 1)] \in [Conns -> Seq(1..MaxKeys)]
    <3>1. outbound \in [Conns -> Seq(1..MaxKeys)]
      BY DEF TypeOK
    <3>. QED BY <1>1, <3>1, AppendAt
  <2>. QED BY <2>1 DEF Type, TypeOK
<1>3. sent' \in [Conns -> Seq(Sent)]
  <2>1. Key(typed + 1) \in Sent
    BY <1>1 DEF Key, Sent
  <2>2. Send(current, Key(typed + 1)) \/ sent' = sent
    BY DEF Type
  <2>. QED BY <1>1, <2>1, <2>2, SendType DEF TypeOK, Sent
<1>4. typed' \in 0..MaxKeys
  <2>1. typed + 1 \in 0..MaxKeys
    BY <1>1
  <2>. QED BY <1>1, <2>1
<1>. QED BY <1>2, <1>3, <1>4 DEF TypeOK, Type, relayVars, Sent

LEMMA ChainType ==
  ASSUME TypeOK, NEW c \in Conns, Chain(c)
  PROVE  TypeOK'
<1>1. CASE HandleOpen(c)
  BY <1>1, HandledType, FailType
     DEF HandleOpen, Turn, Runnable, TypeOK, Report, relayVars, States
<1>2. CASE HandleData(c)
  <2>1. /\ inbound' \in [Conns -> Seq(Frames)]
        /\ Head(inbound[c]) \in Frames /\ Head(inbound[c]).type = "DATA"
    BY <1>2, HandledType DEF HandleData, Turn, Runnable
  <2>2. drawn' \in [Conns -> Seq(1..MaxOutput)]
    BY <1>2, <2>1, DrawType DEF HandleData
  <2>. QED BY <1>2, <2>1, <2>2 DEF HandleData, TypeOK, relayVars
<1>3. CASE HandleControl(c)
  <2>1. inbound' \in [Conns -> Seq(Frames)]
    BY <1>3, HandledType DEF HandleControl, Turn, Runnable
  <2>2. Control("PONG") \in Sent
    BY DEF Sent, Control
  <2>3. sent' \in [Conns -> Seq(Sent)]
    BY <1>3, <2>2, SendType DEF HandleControl, TypeOK, Sent
  <2>. QED BY <1>3, <2>1, <2>3 DEF HandleControl, TypeOK, relayVars, pageVars, Sent
<1>4. CASE HandleClose(c)
  BY <1>4, HandledType, CloseSocketType
     DEF HandleClose, Turn, Runnable, TypeOK, relayVars, pageVars, States
<1>5. CASE HandleError(c)
  BY <1>5, HandledType, FailType DEF HandleError, Turn, Runnable, TypeOK, relayVars, States
<1>6. CASE Decrypted(c)
  <2>1. /\ inbound' \in [Conns -> Seq(Frames)]
        /\ Head(inbound[c]) \in Frames /\ Head(inbound[c]).type = "DATA"
    BY <1>6, HandledType DEF Decrypted, Decrypting
  <2>2. drawn' \in [Conns -> Seq(1..MaxOutput)]
    BY <1>6, <2>1, DrawType DEF Decrypted, TypeOK
  <2>. QED BY <1>6, <2>1, <2>2, FailType DEF Decrypted, TypeOK, relayVars, States
<1>7. CASE Sealed(c)
  <2>1. outbound \in [Conns -> Seq(1..MaxKeys)] /\ outbound[c] \in Seq(1..MaxKeys)
    BY DEF TypeOK
  <2>2. outbound' \in [Conns -> Seq(1..MaxKeys)] /\ Head(outbound[c]) \in 1..MaxKeys
    BY <1>7, <2>1, TailAt, TailElements DEF Sealed
  <2>3. Key(Head(outbound[c])) \in Sent
    BY <2>2 DEF Sent, Key
  <2>4. sent' \in [Conns -> Seq(Sent)]
    BY <1>7, <2>3, SendType DEF Sealed
  <2>. QED BY <1>7, <2>2, <2>4 DEF Sealed, TypeOK, relayVars, pageVars, Sent
<1>. QED BY <1>1, <1>2, <1>3, <1>4, <1>5, <1>6, <1>7 DEF Chain

LEMMA SocketType ==
  ASSUME TypeOK, NEW c \in Conns, Socket(c) \/ Network(c)
  PROVE  TypeOK'
<1>1. CASE SocketOpens(c)
  <2>1. Control("OPEN") \in Sent
    BY DEF Sent, Control
  <2>2. sent' \in [Conns -> Seq(Sent)]
    <3>1. sent \in [Conns -> Seq(Sent)]
      BY DEF TypeOK, Sent
    <3>2. [sent EXCEPT ![c] = Append(@, Control("OPEN"))] \in [Conns -> Seq(Sent)]
      BY <2>1, <3>1, AppendAt
    <3>. QED BY <1>1, <3>2 DEF SocketOpens
  <2>. QED BY <1>1, <2>2 DEF SocketOpens, TypeOK, relayVars, pageVars, Sent
<1>2. CASE Arrives(c)
  <2>1. PICK m : RelaySays(c, m)
    BY <1>2 DEF Arrives
  <2>2. /\ relay' \in [Conns -> {"new", "acked", "parting", "done", "lost"}]
        /\ next' \in [Conns -> 1..(MaxOutput + 1)]
        /\ control' \in [Conns -> 0..MaxControl]
        /\ early' \subseteq Conns
    BY <2>1, RelaySaysType
  <2>3. \/ \E f \in Frames : inbound' = [inbound EXCEPT ![c] = Append(@, f)]
        \/ inbound' = inbound
    BY <1>2 DEF Arrives
  <2>4. inbound' \in [Conns -> Seq(Frames)]
    <3>1. inbound \in [Conns -> Seq(Frames)]
      BY DEF TypeOK
    <3>2. \A f \in Frames : [inbound EXCEPT ![c] = Append(@, f)] \in [Conns -> Seq(Frames)]
      BY <3>1, AppendAt
    <3>. QED BY <2>3, <3>1, <3>2
  <2>5. \/ UNCHANGED <<ending, status, held, socket>>
        \/ Fail(c)
    BY <1>2 DEF Arrives
  <2>. QED BY <1>2, <2>2, <2>4, <2>5, FailType DEF Arrives, TypeOK, States
<1>3. CASE SocketEnds(c)
  BY <1>3 DEF SocketEnds, TypeOK, Report, relayVars
<1>4. CASE RelayHangsUp(c)
  BY <1>4 DEF RelayHangsUp, TypeOK, tunnelVars, pageVars, logVars
<1>5. CASE ConnectionLost(c)
  BY <1>5 DEF ConnectionLost, TypeOK, tunnelVars, pageVars, logVars
<1>. QED BY <1>1, <1>2, <1>3, <1>4, <1>5 DEF Socket, Network

LEMMA InitType == Init => TypeOK
<1>1. ASSUME NEW S PROVE [c \in Conns |-> <<>>] \in [Conns -> Seq(S)]
  <2>1. <<>> \in Seq(S)
    OBVIOUS
  <2>. QED BY <2>1
<1>2. 1 \in 1..(MaxOutput + 1) /\ 0 \in 0..MaxControl /\ 0 \in 0..MaxConns
      /\ 0 \in 0..MaxKeys /\ MaxKeys \in 0..MaxKeys
  OBVIOUS
<1>. SUFFICES ASSUME Init PROVE TypeOK
  OBVIOUS
<1>3. /\ inbound \in [Conns -> Seq(Frames)] /\ outbound \in [Conns -> Seq(1..MaxKeys)]
      /\ sent \in [Conns -> Seq(Sent)] /\ drawn \in [Conns -> Seq(1..MaxOutput)]
  BY <1>1 DEF Init
<1>4. /\ next \in [Conns -> 1..(MaxOutput + 1)] /\ control \in [Conns -> 0..MaxControl]
      /\ muted \in [Conns -> 0..MaxKeys] /\ current \in 0..MaxConns /\ typed \in 0..MaxKeys
  BY <1>2 DEF Init
<1>. QED BY <1>3, <1>4 DEF Init, TypeOK, Sent

LEMMA NextType ==
  ASSUME TypeOK, [Next]_vars
  PROVE  TypeOK'
<1>1. CASE Page
  BY <1>1, ConnectType, TypeType DEF Page, LoadPage, Reconnect
<1>2. ASSUME NEW c \in Conns, Chain(c) \/ Socket(c) \/ Network(c)
      PROVE  TypeOK'
  BY <1>2, ChainType, SocketType
<1>3. CASE UNCHANGED vars
  BY <1>3 DEF vars, TypeOK, tunnelVars, pageVars, relayVars, logVars
<1>. QED BY <1>1, <1>2, <1>3 DEF Next

\* Every variable stays in its domain, whatever the user, the relay and the network do.
THEOREM TypeInvariance == Spec => []TypeOK
<1>1. TypeOK /\ [Next]_vars => TypeOK'
  BY NextType
<1>. QED BY <1>1, InitType, PTL DEF Spec

-----------------------------------------------------------------------------
(* What the handlers do to one connection, and that they leave the others alone. *)

\* A tunnel that closes its socket has none left that could carry anything.
LEMMA CloseEffect ==
  ASSUME TypeOK, Sockets, NEW c \in Conns, CloseSocket(c)
  PROVE  /\ socket'[c] \in {"none", "closing", "closed"}
         /\ socket[c] \in {"open", "closing"} => socket'[c] = "closing"
         /\ socket[c] \in {"none", "closed"} => socket'[c] = socket[c]
         /\ \A d \in Conns : d # c => socket'[d] = socket[d] /\ held'[d] = held[d]
BY DEF TypeOK, Sockets, CloseSocket

\* The frame that was handled is gone, those behind it move up.
LEMMA HandledEffect ==
  ASSUME TypeOK, NEW c \in Conns, inbound[c] # <<>>, Handled(c)
  PROVE  /\ \A i \in DOMAIN inbound'[c] :
              /\ i + 1 \in DOMAIN inbound[c] /\ inbound'[c][i] = inbound[c][i + 1]
              /\ Len(inbound[c]) > 1
         /\ 1 \in DOMAIN inbound[c] /\ Head(inbound[c]) = inbound[c][1]
         /\ \A d \in Conns : d # c => inbound'[d] = inbound[d]
<1>1. inbound \in [Conns -> Seq(Frames)] /\ inbound[c] \in Seq(Frames)
  BY DEF TypeOK
<1>2. inbound'[c] = Tail(inbound[c]) /\ \A d \in Conns : d # c => inbound'[d] = inbound[d]
  BY <1>1 DEF Handled
<1>3. \A i \in DOMAIN inbound[c] : i <= Len(inbound[c]) /\ i \in Nat /\ i > 0
  BY <1>1
<1>4. \A i \in DOMAIN Tail(inbound[c]) :
        i \in Nat /\ i > 0 /\ i + 1 \in DOMAIN inbound[c]
          /\ Tail(inbound[c])[i] = inbound[c][i + 1]
  BY <1>1
<1>5. ASSUME NEW i \in DOMAIN inbound'[c] PROVE Len(inbound[c]) > 1
  <2>1. i \in Nat /\ i > 0 /\ i + 1 <= Len(inbound[c])
    BY <1>2, <1>3, <1>4
  <2>2. Len(inbound[c]) \in Nat
    BY <1>1
  <2>. QED BY <2>1, <2>2
<1>6. 1 \in DOMAIN inbound[c] /\ Head(inbound[c]) = inbound[c][1]
  BY <1>1, TailElements
<1>. QED BY <1>2, <1>4, <1>5, <1>6

\* At most one message is sent, and only on this connection.
LEMMA SendEffect ==
  ASSUME TypeOK, NEW c \in Conns, NEW m \in Sent,
         Send(c, m) \/ sent' = [sent EXCEPT ![c] = Append(@, m)]
  PROVE  \A d \in Conns : \A i \in DOMAIN sent'[d] :
           \/ i \in DOMAIN sent[d] /\ sent'[d][i] = sent[d][i]
           \/ d = c /\ sent'[d][i] = m
<1>1. sent \in [Conns -> Seq(Sent)] /\ sent[c] \in Seq(Sent)
  BY DEF TypeOK, Sent
<1>2. sent'[c] = sent[c] \/ sent'[c] = Append(sent[c], m)
  BY <1>1 DEF Send
<1>3. \A d \in Conns : d # c => sent'[d] = sent[d]
  BY <1>1 DEF Send
<1>4. \A i \in DOMAIN Append(sent[c], m) :
        \/ i \in DOMAIN sent[c] /\ Append(sent[c], m)[i] = sent[c][i]
        \/ Append(sent[c], m)[i] = m
  BY <1>1, AppendElements
<1>. QED BY <1>2, <1>3, <1>4

\* What the relay says depends on how far the connection has come.
LEMMA RelaySaysEffect ==
  ASSUME TypeOK, NEW c \in Conns, NEW m, RelaySays(c, m)
  PROVE  /\ \A d \in Conns : d # c => relay'[d] = relay[d]
         /\ relay'[c] # "new"
         /\ m.type = "OPEN" => relay[c] = "new" /\ m.role = link.grant
         /\ relay[c] # "acked" /\ relay'[c] = "acked" =>
              relay[c] = "new" /\ (c \in early' \/ m = Ack(link.grant, link.encrypted))
         /\ relay[c] # "acked" => m.type # "DATA"
<1>1. relay \in [Conns -> {"new", "acked", "parting", "done", "lost"}]
  BY DEF TypeOK
<1>2. CASE relay[c] = "new"
  <2>1. \/ m = Ack(link.grant, link.encrypted) /\ relay' = [relay EXCEPT ![c] = "acked"]
        \/ m = Control("ERROR") /\ relay' = [relay EXCEPT ![c] = "done"]
        \/ /\ m = Ack(link.grant, FALSE) /\ relay' = [relay EXCEPT ![c] = "acked"]
           /\ c \in early'
    BY <1>2 DEF RelaySays
  <2>2. CASE m = Ack(link.grant, link.encrypted) /\ relay' = [relay EXCEPT ![c] = "acked"]
    BY <1>1, <1>2, <2>2 DEF Ack
  <2>3. CASE m = Control("ERROR") /\ relay' = [relay EXCEPT ![c] = "done"]
    BY <1>1, <1>2, <2>3 DEF Control
  <2>4. CASE /\ m = Ack(link.grant, FALSE) /\ relay' = [relay EXCEPT ![c] = "acked"]
             /\ c \in early'
    BY <1>1, <1>2, <2>4 DEF Ack
  <2>. QED BY <2>1, <2>2, <2>3, <2>4
<1>3. CASE relay[c] = "parting"
  <2>1. \/ m = Control("ERROR") /\ relay' = [relay EXCEPT ![c] = "done"]
        \/ m = Control("PING") /\ relay' = relay
    BY <1>3 DEF RelaySays
  <2>. QED BY <1>1, <1>3, <2>1 DEF Control
<1>4. CASE relay[c] = "acked"
  <2>1. relay' = relay \/ \E s \in {"parting", "done"} : relay' = [relay EXCEPT ![c] = s]
    BY <1>4 DEF RelaySays
  <2>2. m.type # "OPEN"
    <3>1. \/ \E ok \in BOOLEAN : m = Data(next[c], ok)
          \/ m \in {Control("RESIZE"), Control("PING"), Control("CLOSE"), Control("ERROR"),
                    Control("GARBAGE")}
      BY <1>4 DEF RelaySays
    <3>. QED BY <3>1 DEF Data, Control
  <2>. QED BY <1>1, <1>4, <2>1, <2>2
<1>5. CASE relay[c] \notin {"new", "parting", "acked"}
  BY <1>5 DEF RelaySays
<1>. QED BY <1>2, <1>3, <1>4, <1>5

\* A frame joins one chain, at its end.
LEMMA ArrivalEffect ==
  ASSUME TypeOK, NEW c \in Conns, NEW m \in Frames,
         inbound' = [inbound EXCEPT ![c] = Append(@, m)]
  PROVE  /\ \A d \in Conns : d # c => inbound'[d] = inbound[d]
         /\ inbound'[c] # <<>>
         /\ \A i \in DOMAIN inbound'[c] :
              \/ i \in DOMAIN inbound[c] /\ inbound'[c][i] = inbound[c][i]
              \/ inbound'[c][i] = m
         /\ inbound[c] = <<>> => Len(inbound'[c]) = 1 /\ Head(inbound'[c]) = m
<1>1. inbound \in [Conns -> Seq(Frames)] /\ inbound[c] \in Seq(Frames)
  BY DEF TypeOK
<1>2. inbound'[c] = Append(inbound[c], m) /\ \A d \in Conns : d # c => inbound'[d] = inbound[d]
  BY <1>1
<1>3. inbound[c] = <<>> => Len(Append(inbound[c], m)) = 1 /\ Head(Append(inbound[c], m)) = m
  OBVIOUS
<1>. QED BY <1>1, <1>2, <1>3, AppendElements

\* When no callback is ready to run, no acknowledgement waits: it is the head of its chain,
\* and only DATA is ever decrypted.
LEMMA QuietHasNoAck ==
  ASSUME TypeOK, AckFirst, Quiet, NEW c \in Conns
  PROVE  \A i \in DOMAIN inbound[c] : inbound[c][i].type # "OPEN"
<1>1. inbound[c] \in Seq(Frames)
  BY DEF TypeOK
<1>. SUFFICES ASSUME NEW i \in DOMAIN inbound[c], inbound[c][i].type = "OPEN" PROVE FALSE
  OBVIOUS
<1>2. Len(inbound[c]) = 1
  BY DEF AckFirst
<1>3. i = 1 /\ inbound[c] # <<>> /\ Head(inbound[c]) = inbound[c][1]
  BY <1>1, <1>2
<1>. QED BY <1>3 DEF Quiet, Runnable, Decrypting

-----------------------------------------------------------------------------
(* The parts of the invariant, one by one. *)

\* What a new tunnel changes.
LEMMA ConnectEffect ==
  ASSUME TypeOK, Connect
  PROVE  /\ current + 1 \in Conns /\ current' = current + 1
         /\ \A d \in Conns : d # current + 1 => socket'[d] = socket[d] /\ held'[d] = held[d]
         /\ \/ socket'[current + 1] = "connecting" /\ held'[current + 1] /\ status' = "connecting"
            \/ socket' = socket /\ held' = held /\ status' = "error"
         /\ UNCHANGED <<link, inbound, outbound, readOnly, muted, relay, drawn, sent, typed,
                        stdinOff, opened>>
<1>1. current + 1 \in Conns /\ current' = current + 1
  <2>1. current \in 0..MaxConns
    BY DEF TypeOK
  <2>. QED BY <2>1 DEF Connect, Conns
<1>2. socket \in [Conns -> States] /\ held \in [Conns -> BOOLEAN]
  BY DEF TypeOK, States
<1>3. UNCHANGED <<link, inbound, outbound, readOnly, muted, relay, drawn, sent, typed,
                  stdinOff, opened>>
  BY DEF Connect, relayVars
<1>4. CASE /\ socket' = [socket EXCEPT ![current + 1] = "connecting"]
           /\ held' = [held EXCEPT ![current + 1] = TRUE]
           /\ Report(current + 1, "connecting")
  BY <1>1, <1>2, <1>3, <1>4 DEF Report
<1>5. CASE Report(current + 1, "error") /\ UNCHANGED <<socket, held>>
  BY <1>1, <1>3, <1>5 DEF Report
<1>. QED BY <1>4, <1>5 DEF Connect

LEMMA SocketsNext ==
  ASSUME TypeOK, Sockets, Next
  PROVE  Sockets'
<1>a. current \in Nat
  <2>1. current \in 0..MaxConns
    BY DEF TypeOK
  <2>. QED BY <2>1
<1>0. /\ socket \in [Conns -> States] /\ held \in [Conns -> BOOLEAN]
      /\ relay \in [Conns -> {"new", "acked", "parting", "done", "lost"}]
  BY DEF TypeOK, States
<1>1. CASE Page
  <2>1. CASE Connect
    <3>1. /\ current + 1 > current
          /\ \A d \in Conns : d > current + 1 => d > current
      BY <1>a DEF Conns
    <3>2. current' = current + 1 /\ UNCHANGED <<inbound, relay>>
      BY <2>1, ConnectEffect
    <3>3. ASSUME NEW d \in Conns, d # current + 1
          PROVE  socket'[d] = socket[d] /\ held'[d] = held[d]
      BY <2>1, <3>3, ConnectEffect
    <3>4. /\ socket'[current + 1] \in {"connecting", "open"} => held'[current + 1]
          /\ socket'[current + 1] \in {"none", "connecting"}
          /\ relay[current + 1] = "new" /\ current + 1 \in Conns
      BY <2>1, <3>1, ConnectEffect DEF Sockets
    <3>5. ~(current + 1 > current + 1)
      BY <1>a
    <3>. QED BY <3>1, <3>2, <3>3, <3>4, <3>5 DEF Sockets
  <2>2. CASE Type
    BY <2>2 DEF Type, Sockets, relayVars
  <2>. QED BY <1>1, <2>1, <2>2 DEF Page, LoadPage, Reconnect
<1>2. ASSUME NEW c \in Conns, Chain(c)
      PROVE  Sockets'
  <2>1. UNCHANGED <<current, relay>>
    BY <1>2 DEF Chain, HandleOpen, HandleData, HandleControl, HandleClose, HandleError,
         Decrypted, Sealed, pageVars, relayVars
  <2>2. \/ UNCHANGED inbound
        \/ inbound[c] # <<>> /\ Handled(c)
    BY <1>2 DEF Chain, HandleOpen, HandleData, HandleControl, HandleClose, HandleError,
         Decrypted, Decrypting, Sealed, Turn, Runnable
  <2>3. UNCHANGED <<socket, held>> \/ CloseSocket(c)
    BY <1>2 DEF Chain, HandleOpen, HandleData, HandleControl, HandleClose, HandleError,
         Decrypted, Sealed, Fail
  <2>4. \A d \in Conns : relay[d] = "new" => inbound'[d] = <<>>
    BY <2>2, HandledEffect DEF Sockets
  <2>5. CASE UNCHANGED <<socket, held>>
    BY <2>1, <2>4, <2>5 DEF Sockets
  <2>6. CASE CloseSocket(c)
    <3>1. ASSUME NEW d \in Conns
          PROVE  /\ socket'[d] \in {"connecting", "open"} => held'[d]
                 /\ d > current => socket'[d] = "none"
                 /\ socket'[d] \in {"none", "connecting"} => relay[d] = "new"
      BY <1>0, <2>6, CloseEffect DEF Sockets, States
    <3>. QED BY <2>1, <2>4, <3>1 DEF Sockets
  <2>. QED BY <2>3, <2>5, <2>6
<1>3. ASSUME NEW c \in Conns, Socket(c)
      PROVE  Sockets'
  <2>1. CASE SocketOpens(c)
    BY <1>0, <2>1 DEF SocketOpens, Sockets, pageVars, relayVars
  <2>2. CASE Arrives(c)
    <3>1. /\ socket[c] = "open" /\ current' = current
          /\ \A d \in Conns : d # c => relay'[d] = relay[d]
          /\ relay'[c] # "new"
      BY <2>2, RelaySaysEffect DEF Arrives
    <3>2. \/ UNCHANGED <<held, socket>> /\ \E m \in Frames : inbound' = [inbound EXCEPT ![c] = Append(@, m)]
          \/ CloseSocket(c) /\ UNCHANGED inbound
      BY <2>2 DEF Arrives, Fail
    <3>3. \A d \in Conns : d # c => inbound'[d] = inbound[d]
      BY <3>2, ArrivalEffect
    <3>4. /\ \A d \in Conns : d # c => socket'[d] = socket[d] /\ held'[d] = held[d]
          /\ \/ socket'[c] = "open" /\ held'[c] = held[c]
             \/ socket'[c] = "closing"
      BY <3>1, <3>2, CloseEffect
    <3>5. ~(c > current) /\ held[c]
      BY <3>1 DEF Sockets
    <3>. QED BY <3>1, <3>3, <3>4, <3>5 DEF Sockets
  <2>3. CASE SocketEnds(c)
    <3>1. /\ socket' = [socket EXCEPT ![c] = "closed"] /\ UNCHANGED <<current, relay, inbound>>
          /\ socket[c] # "none"
      BY <2>3 DEF SocketEnds, Closable, relayVars
    <3>2. \A d \in Conns : d # c => held'[d] = held[d]
      BY <1>0, <2>3 DEF SocketEnds
    <3>. QED BY <1>0, <3>1, <3>2 DEF Sockets
  <2>. QED BY <1>3, <2>1, <2>2, <2>3 DEF Socket
<1>4. ASSUME NEW c \in Conns, Network(c)
      PROVE  Sockets'
  BY <1>0, <1>4 DEF Network, RelayHangsUp, ConnectionLost, Sockets, tunnelVars, pageVars
<1>. QED BY <1>1, <1>2, <1>3, <1>4 DEF Next

\* What the callbacks of a chain may change.
LEMMA ChainEffect ==
  ASSUME TypeOK, NEW c \in Conns, Chain(c)
  PROVE  /\ UNCHANGED <<link, current, typed, relay, hurried>>
         /\ \/ inbound[c] # <<>> /\ Handled(c)
            \/ Sealed(c)
         /\ \/ UNCHANGED <<socket, held>>
            \/ CloseSocket(c)
<1>1. UNCHANGED <<link, current, typed, relay, hurried>>
  BY DEF Chain, HandleOpen, HandleData, HandleControl, HandleClose, HandleError,
       Decrypted, Sealed, pageVars, relayVars
<1>2. \/ inbound[c] # <<>> /\ Handled(c)
      \/ Sealed(c)
  BY DEF Chain, HandleOpen, HandleData, HandleControl, HandleClose, HandleError,
       Decrypted, Decrypting, Turn, Runnable
<1>3. \/ UNCHANGED <<socket, held>>
      \/ CloseSocket(c)
  BY DEF Chain, HandleOpen, HandleData, HandleControl, HandleClose, HandleError,
       Decrypted, Sealed, Fail
<1>. QED BY <1>1, <1>2, <1>3

\* When the acknowledgement is on the chain nothing but its handler runs, which takes it off.
LEMMA AckFirstNext ==
  ASSUME TypeOK, Sockets, AckFirst, Next
  PROVE  AckFirst'
<1>0. socket \in [Conns -> States]
  BY DEF TypeOK, States
<1>1. CASE Page
  <2>1. CASE Connect
    <3>1. UNCHANGED <<link, inbound>> /\ current + 1 \in Conns
      BY <2>1, ConnectEffect
    <3>2. ASSUME NEW d \in Conns, NEW i \in DOMAIN inbound[d], inbound[d][i].type = "OPEN"
          PROVE  socket'[d] = "open"
      <4>1. socket[d] = "open" /\ current \in 0..MaxConns
        BY <3>2 DEF AckFirst, TypeOK
      <4>2. ~(d > current)
        BY <4>1 DEF Sockets
      <4>3. d # current + 1
        BY <4>1, <4>2
      <4>. QED BY <2>1, <4>1, <4>3, ConnectEffect
    <3>. QED BY <3>1, <3>2 DEF AckFirst
  <2>2. CASE Type
    BY <2>2 DEF Type, AckFirst
  <2>. QED BY <1>1, <2>1, <2>2 DEF Page, LoadPage, Reconnect
<1>2. ASSUME NEW c \in Conns, Chain(c)
      PROVE  AckFirst'
  <2>1. CASE Sealed(c)
    BY <2>1 DEF Sealed, AckFirst
  <2>2. CASE inbound[c] # <<>> /\ Handled(c)
    <3>1. \A i \in DOMAIN inbound'[c] : inbound'[c][i].type # "OPEN"
      <4>1. ASSUME NEW i \in DOMAIN inbound'[c], inbound'[c][i].type = "OPEN" PROVE FALSE
        <5>1. /\ i + 1 \in DOMAIN inbound[c] /\ inbound[c][i + 1].type = "OPEN"
              /\ Len(inbound[c]) > 1
          BY <2>2, <4>1, HandledEffect
        <5>2. Len(inbound[c]) = 1
          BY <5>1 DEF AckFirst
        <5>. QED BY <5>1, <5>2
      <4>. QED BY <4>1
    <3>2. \A d \in Conns : d # c => inbound'[d] = inbound[d] /\ socket'[d] = socket[d]
      BY <1>2, <2>2, HandledEffect, ChainEffect, CloseEffect
    <3>3. UNCHANGED link
      BY <1>2, ChainEffect
    <3>. QED BY <3>1, <3>2, <3>3 DEF AckFirst
  <2>. QED BY <1>2, <2>1, <2>2, ChainEffect
<1>3. ASSUME NEW c \in Conns, Socket(c)
      PROVE  AckFirst'
  <2>1. Quiet /\ UNCHANGED link
    BY <1>3 DEF Socket, SocketOpens, Arrives, SocketEnds
  <2>2. \A d \in Conns : \A i \in DOMAIN inbound[d] : inbound[d][i].type # "OPEN"
    BY <2>1, QuietHasNoAck
  <2>3. CASE UNCHANGED inbound
    BY <2>2, <2>3 DEF AckFirst
  <2>4. CASE Arrives(c) /\ inbound' # inbound
    <3>1. PICK m \in Frames : /\ RelaySays(c, m)
                              /\ inbound' = [inbound EXCEPT ![c] = Append(@, m)]
                              /\ UNCHANGED socket
      BY <2>4 DEF Arrives
    <3>2. ASSUME NEW i \in DOMAIN inbound'[c], inbound'[c][i].type = "OPEN"
          PROVE  Len(inbound'[c]) = 1 /\ inbound'[c][i].role = link.grant
      <4>1. inbound'[c][i] = m
        BY <2>2, <3>1, <3>2, ArrivalEffect
      <4>2. relay[c] = "new" /\ m.role = link.grant
        BY <3>1, <3>2, <4>1, RelaySaysEffect
      <4>3. inbound[c] = <<>>
        BY <4>2 DEF Sockets
      <4>. QED BY <3>1, <4>1, <4>2, <4>3, ArrivalEffect
    <3>3. \A d \in Conns : d # c => inbound'[d] = inbound[d]
      BY <3>1, ArrivalEffect
    <3>4. socket'[c] = "open"
      BY <2>4, <3>1 DEF Arrives
    <3>. QED BY <2>1, <2>2, <3>1, <3>2, <3>3, <3>4 DEF AckFirst
  <2>5. Arrives(c) \/ UNCHANGED inbound
    BY <1>3 DEF Socket, SocketOpens, SocketEnds
  <2>. QED BY <2>3, <2>4, <2>5
<1>4. ASSUME NEW c \in Conns, Network(c)
      PROVE  AckFirst'
  BY <1>4 DEF Network, RelayHangsUp, ConnectionLost, AckFirst, tunnelVars
<1>. QED BY <1>1, <1>2, <1>3, <1>4 DEF Next

\* A connection acknowledged too early stays one, and only an encrypted session has any.
LEMMA EarlyNext ==
  ASSUME TypeOK, Next
  PROVE  early \subseteq early' /\ (early' # {} => early # {} \/ link.encrypted)
<1>1. ASSUME NEW c \in Conns, Arrives(c)
      PROVE  early \subseteq early' /\ (early' # {} => early # {} \/ link.encrypted)
  BY <1>1 DEF Arrives, RelaySays
<1>2. Page => UNCHANGED early
  BY DEF Page, LoadPage, Reconnect, Connect, Type, relayVars
<1>3. ASSUME NEW c \in Conns, Chain(c) \/ SocketOpens(c) \/ SocketEnds(c) \/ Network(c)
      PROVE  UNCHANGED early
  BY <1>3 DEF Chain, HandleOpen, HandleData, HandleControl, HandleClose, HandleError, Decrypted,
     Sealed, SocketOpens, SocketEnds, Network, RelayHangsUp, ConnectionLost, relayVars
<1>. QED BY <1>1, <1>2, <1>3 DEF Next, Socket

\* Where link and session disagree, the acknowledgement closes the tunnel unless it came too
\* early, and no output finds a tunnel that would draw it.
LEMMA MismatchNext ==
  ASSUME TypeOK, Sockets, AckFirst, Mismatch, Next
  PROVE  Mismatch'
<1>0. UNCHANGED link
  BY DEF Next, Page, LoadPage, Reconnect, Connect, Type, Chain, HandleOpen, HandleData,
     HandleControl, HandleClose, HandleError, Decrypted, Sealed, Socket, SocketOpens, Arrives,
     SocketEnds, Network, RelayHangsUp, ConnectionLost
<1>. SUFFICES ASSUME link.encrypted # (link.key # "none"), NEW d \in Conns \ early'
              PROVE  /\ drawn'[d] = <<>>
                     /\ \A i \in DOMAIN inbound'[d] : inbound'[d][i].type # "DATA"
                     /\ relay'[d] = "acked" /\ socket'[d] = "open" =>
                          inbound'[d] # <<>> /\ Head(inbound'[d]) = Ack(link.grant, link.encrypted)
  BY <1>0, EarlyNext DEF Mismatch
<1>c. d \in Conns \ early
  BY EarlyNext
<1>a. /\ drawn[d] = <<>>
      /\ \A i \in DOMAIN inbound[d] : inbound[d][i].type # "DATA"
      /\ relay[d] = "acked" /\ socket[d] = "open" =>
           inbound[d] # <<>> /\ Head(inbound[d]) = Ack(link.grant, link.encrypted)
  BY <1>c DEF Mismatch
<1>b. /\ socket \in [Conns -> States]
      /\ relay \in [Conns -> {"new", "acked", "parting", "done", "lost"}]
  BY DEF TypeOK, States
<1>1. CASE Page
  <2>1. CASE Connect
    <3>1. UNCHANGED <<inbound, relay, drawn>>
      BY <2>1, ConnectEffect
    <3>2. socket'[d] = "open" => socket[d] = "open"
      BY <2>1, ConnectEffect
    <3>. QED BY <1>a, <3>1, <3>2
  <2>2. CASE Type
    BY <1>a, <2>2 DEF Type, relayVars
  <2>. QED BY <1>1, <2>1, <2>2 DEF Page, LoadPage, Reconnect
<1>2. ASSUME NEW c \in Conns, Chain(c)
      PROVE  /\ drawn'[d] = <<>>
             /\ \A i \in DOMAIN inbound'[d] : inbound'[d][i].type # "DATA"
             /\ relay'[d] = "acked" /\ socket'[d] = "open" =>
                  inbound'[d] # <<>> /\ Head(inbound'[d]) = Ack(link.grant, link.encrypted)
  <2>1. c = d => \A i \in DOMAIN inbound[c] : inbound[c][i].type # "DATA"
    BY <1>a
  <2>2. c = d /\ inbound[c] # <<>> => Head(inbound[c]).type # "DATA"
    <3>1. inbound[c] \in Seq(Frames)
      BY DEF TypeOK
    <3>. QED BY <2>1, <3>1, TailElements
  <2>6. drawn' = drawn \/ (Draw(c, Head(inbound[c]).chunk) /\ Head(inbound[c]).type = "DATA"
                           /\ inbound[c] # <<>>)
    BY <1>2 DEF Chain, HandleOpen, HandleData, HandleControl, HandleClose, HandleError, Decrypted,
           Decrypting, Sealed, Turn, Runnable
  <2>7. drawn'[d] = drawn[d]
    <3>1. c # d /\ Draw(c, Head(inbound[c]).chunk) => drawn'[d] = drawn[d]
      BY DEF Draw, TypeOK
    <3>. QED BY <2>2, <2>6, <3>1
  <2>3. relay' = relay /\ drawn'[d] = drawn[d]
    BY <1>2, <2>7, ChainEffect
  <2>4. CASE Sealed(c)
    BY <1>a, <2>3, <2>4 DEF Sealed
  <2>5. CASE inbound[c] # <<>> /\ Handled(c)
    <3>1. CASE d # c
      BY <1>2, <1>a, <2>3, <2>5, <3>1, HandledEffect, ChainEffect, CloseEffect
    <3>2. CASE d = c
      <4>1. \A i \in DOMAIN inbound'[c] : inbound'[c][i].type # "DATA"
        BY <2>1, <2>5, <3>2, HandledEffect
      <4>2. socket'[c] = "open" => socket[c] = "open"
        BY <1>2, ChainEffect, CloseEffect
      <4>3. relay[c] = "acked" /\ socket[c] = "open" => socket'[c] # "open"
        <5>1. SUFFICES ASSUME relay[c] = "acked", socket[c] = "open"
                       PROVE  socket'[c] # "open"
          OBVIOUS
        <5>2. Head(inbound[c]) = Ack(link.grant, link.encrypted)
          BY <1>a, <3>2, <5>1
        <5>3. Head(inbound[c]).type = "OPEN" /\ Head(inbound[c]).encrypted = link.encrypted
          BY <5>2 DEF Ack
        <5>4. HandleOpen(c) \/ Sealed(c)
          BY <1>2, <5>3 DEF Chain, HandleData, HandleControl, HandleClose, HandleError,
             Decrypted, Decrypting, Turn
        <5>5. ~Sealed(c)
          <6>1. inbound[c] \in Seq(Frames)
            BY DEF TypeOK
          <6>2. Head(inbound[c]) = inbound[c][1] /\ 1 \in DOMAIN inbound[c]
            BY <2>5, <6>1, TailElements
          <6>. QED BY <5>3, <6>2, QuietHasNoAck DEF Sealed
        <5>6. CloseSocket(c)
          BY <5>3, <5>4, <5>5 DEF HandleOpen, Fail
        <5>. QED BY <5>6, CloseEffect
      <4>. QED BY <1>a, <2>3, <3>2, <4>1, <4>2, <4>3
    <3>. QED BY <3>1, <3>2
  <2>. QED BY <1>2, <2>4, <2>5, ChainEffect
<1>3. ASSUME NEW c \in Conns, Socket(c)
      PROVE  /\ drawn'[d] = <<>>
             /\ \A i \in DOMAIN inbound'[d] : inbound'[d][i].type # "DATA"
             /\ relay'[d] = "acked" /\ socket'[d] = "open" =>
                  inbound'[d] # <<>> /\ Head(inbound'[d]) = Ack(link.grant, link.encrypted)
  <2>1. CASE SocketOpens(c)
    <3>1. relay[c] = "new" /\ UNCHANGED <<relay, drawn, inbound>>
      BY <2>1 DEF SocketOpens, Sockets, relayVars
    <3>2. d # c => socket'[d] = socket[d]
      BY <2>1, <1>b DEF SocketOpens
    <3>. QED BY <1>a, <3>1, <3>2
  <2>2. CASE Arrives(c)
    <3>1. UNCHANGED drawn /\ socket[c] = "open" /\ Quiet
      BY <2>2 DEF Arrives
    <3>2. c = d => relay[c] # "acked"
      <4>1. SUFFICES ASSUME c = d, relay[c] = "acked" PROVE FALSE
        OBVIOUS
      <4>2. inbound[c] # <<>> /\ Head(inbound[c]) = Ack(link.grant, link.encrypted)
        BY <1>a, <3>1, <4>1
      <4>3. inbound[c] \in Seq(Frames)
        BY DEF TypeOK
      <4>4. 1 \in DOMAIN inbound[c] /\ inbound[c][1].type = "OPEN"
        BY <4>2, <4>3, TailElements DEF Ack
      <4>. QED BY <3>1, <4>4, QuietHasNoAck
    <3>3. CASE UNCHANGED inbound /\ CloseSocket(c)
      <4>1. PICK m : RelaySays(c, m)
        BY <2>2 DEF Arrives
      <4>. QED BY <1>a, <3>1, <3>2, <3>3, <4>1, CloseEffect, RelaySaysEffect
    <3>4. ASSUME NEW m \in Frames, RelaySays(c, m), UNCHANGED socket,
                 inbound' = [inbound EXCEPT ![c] = Append(@, m)]
          PROVE  /\ drawn'[d] = <<>>
                 /\ \A i \in DOMAIN inbound'[d] : inbound'[d][i].type # "DATA"
                 /\ relay'[d] = "acked" /\ socket'[d] = "open" =>
                      inbound'[d] # <<>> /\ Head(inbound'[d]) = Ack(link.grant, link.encrypted)
      <4>1. CASE d # c
        BY <1>a, <3>1, <3>4, <4>1, RelaySaysEffect, ArrivalEffect
      <4>2. CASE d = c
        <5>1. m.type # "DATA"
          BY <3>2, <3>4, <4>2, RelaySaysEffect
        <5>2. \A i \in DOMAIN inbound'[c] : inbound'[c][i].type # "DATA"
          BY <1>a, <3>4, <4>2, <5>1, ArrivalEffect
        <5>3. ASSUME relay'[c] = "acked"
              PROVE  inbound'[c] # <<>> /\ Head(inbound'[c]) = Ack(link.grant, link.encrypted)
          <6>1. m = Ack(link.grant, link.encrypted)
            BY <3>2, <3>4, <4>2, <5>3, RelaySaysEffect
          <6>2. relay[c] = "new"
            BY <3>2, <3>4, <4>2, <5>3, RelaySaysEffect
          <6>3. inbound[c] = <<>>
            BY <6>2 DEF Sockets
          <6>. QED BY <3>4, <6>1, <6>3, ArrivalEffect
        <5>. QED BY <1>a, <3>1, <4>2, <5>2, <5>3
      <4>. QED BY <4>1, <4>2
    <3>. QED BY <2>2, <3>3, <3>4 DEF Arrives, Fail
  <2>3. CASE SocketEnds(c)
    <3>1. socket' = [socket EXCEPT ![c] = "closed"] /\ UNCHANGED <<relay, drawn, inbound>>
      BY <2>3 DEF SocketEnds, relayVars
    <3>. QED BY <1>a, <1>b, <3>1
  <2>. QED BY <1>3, <2>1, <2>2, <2>3 DEF Socket
<1>4. ASSUME NEW c \in Conns, Network(c)
      PROVE  /\ drawn'[d] = <<>>
             /\ \A i \in DOMAIN inbound'[d] : inbound'[d][i].type # "DATA"
             /\ relay'[d] = "acked" /\ socket'[d] = "open" =>
                  inbound'[d] # <<>> /\ Head(inbound'[d]) = Ack(link.grant, link.encrypted)
  BY <1>4, <1>a, <1>b DEF Network, RelayHangsUp, ConnectionLost, tunnelVars, logVars
<1>. QED BY <1>1, <1>2, <1>3, <1>4 DEF Next

\* What a key that is typed changes.
LEMMA TypeEffect ==
  ASSUME TypeOK, Type
  PROVE  /\ current \in Conns /\ typed' = typed + 1 /\ typed \in Nat /\ typed + 1 <= MaxKeys
         /\ UNCHANGED <<link, readOnly, muted, status, stdinOff>>
         /\ \A d \in Conns : \A i \in DOMAIN outbound'[d] :
              \/ i \in DOMAIN outbound[d] /\ outbound'[d][i] = outbound[d][i]
              \/ d = current /\ ~readOnly[d] /\ outbound'[d][i] = typed + 1
         /\ \A d \in Conns : \A i \in DOMAIN sent'[d] :
              \/ i \in DOMAIN sent[d] /\ sent'[d][i] = sent[d][i]
              \/ d = current /\ ~readOnly[d] /\ sent'[d][i] = Key(typed + 1)
<1>1. current \in Conns /\ typed' = typed + 1 /\ typed \in Nat /\ typed + 1 <= MaxKeys
  <2>1. current \in 0..MaxConns /\ typed \in 0..MaxKeys
    BY DEF TypeOK
  <2>. QED BY <2>1 DEF Type, Conns
<1>2. UNCHANGED <<link, readOnly, muted, status, stdinOff>>
  BY DEF Type
<1>3. typed + 1 \in 1..MaxKeys
  BY <1>1
<1>4. ASSUME NEW d \in Conns, NEW i \in DOMAIN outbound'[d]
      PROVE  \/ i \in DOMAIN outbound[d] /\ outbound'[d][i] = outbound[d][i]
             \/ d = current /\ ~readOnly[d] /\ outbound'[d][i] = typed + 1
  <2>1. outbound \in [Conns -> Seq(1..MaxKeys)] /\ outbound[current] \in Seq(1..MaxKeys)
    BY <1>1 DEF TypeOK
  <2>2. CASE UNCHANGED outbound
    BY <1>4, <2>2
  <2>3. CASE /\ ~readOnly[current]
             /\ outbound' = [outbound EXCEPT ![current] = Append(@, typed + 1)]
    <3>1. CASE d # current
      BY <1>1, <1>4, <2>1, <2>3, <3>1
    <3>2. CASE d = current
      <4>1. outbound'[current] = Append(outbound[current], typed + 1)
        BY <1>1, <2>1, <2>3
      <4>. QED BY <1>3, <1>4, <2>1, <2>3, <3>2, <4>1, AppendElements
    <3>. QED BY <3>1, <3>2
  <2>. QED BY <2>2, <2>3 DEF Type
<1>5. ASSUME NEW d \in Conns, NEW i \in DOMAIN sent'[d]
      PROVE  \/ i \in DOMAIN sent[d] /\ sent'[d][i] = sent[d][i]
             \/ d = current /\ ~readOnly[d] /\ sent'[d][i] = Key(typed + 1)
  <2>1. Key(typed + 1) \in Sent
    BY <1>3 DEF Key, Sent
  <2>2. \/ UNCHANGED sent
        \/ ~readOnly[current] /\ Send(current, Key(typed + 1))
    BY DEF Type
  <2>. QED BY <1>1, <1>5, <2>1, <2>2, SendEffect
<1>. QED BY <1>1, <1>2, <1>4, <1>5

\* What the key at the head of the outbound chain changes.
LEMMA SealedEffect ==
  ASSUME TypeOK, NEW c \in Conns, Sealed(c)
  PROVE  /\ 1 \in DOMAIN outbound[c]
         /\ UNCHANGED <<link, readOnly, muted, typed, status, stdinOff>>
         /\ \A d \in Conns : \A i \in DOMAIN outbound'[d] :
              \E j \in DOMAIN outbound[d] : outbound'[d][i] = outbound[d][j]
         /\ \A d \in Conns : \A i \in DOMAIN sent'[d] :
              \/ i \in DOMAIN sent[d] /\ sent'[d][i] = sent[d][i]
              \/ d = c /\ sent'[d][i] = Key(outbound[c][1])
<1>1. /\ outbound \in [Conns -> Seq(1..MaxKeys)] /\ outbound[c] \in Seq(1..MaxKeys)
      /\ outbound[c] # <<>>
  BY DEF TypeOK, Sealed
<1>2. UNCHANGED <<link, readOnly, muted, typed, status, stdinOff>>
  BY DEF Sealed, pageVars
<1>3. 1 \in DOMAIN outbound[c] /\ Head(outbound[c]) = outbound[c][1] /\ outbound[c][1] \in 1..MaxKeys
  BY <1>1, TailElements
<1>4. outbound'[c] = Tail(outbound[c]) /\ \A d \in Conns : d # c => outbound'[d] = outbound[d]
  BY <1>1 DEF Sealed
<1>5. \A d \in Conns : \A i \in DOMAIN outbound'[d] :
        \E j \in DOMAIN outbound[d] : outbound'[d][i] = outbound[d][j]
  <2>1. \A i \in DOMAIN outbound'[c] : i + 1 \in DOMAIN outbound[c]
                                      /\ outbound'[c][i] = outbound[c][i + 1]
    BY <1>1, <1>4, TailElements
  <2>2. \A i \in DOMAIN outbound'[c] : \E j \in DOMAIN outbound[c] :
          outbound'[c][i] = outbound[c][j]
    BY <2>1
  <2>. QED BY <1>4, <2>2
<1>6. Key(outbound[c][1]) \in Sent
  BY <1>3 DEF Key, Sent
<1>7. Send(c, Key(outbound[c][1]))
  BY <1>3 DEF Sealed
<1>. QED BY <1>2, <1>3, <1>5, <1>6, <1>7, SendEffect

\* Nothing but a key that is typed, the end of its sealing, a PONG and the OPEN is sent.
LEMMA SentUnchanged ==
  ASSUME TypeOK, Next
  PROVE  \/ Type
         \/ \E c \in Conns : Sealed(c)
         \/ UNCHANGED outbound /\ typed' = typed
              /\ \A d \in Conns : \A i \in DOMAIN sent'[d] : sent'[d][i].type = "DATA" =>
                   i \in DOMAIN sent[d] /\ sent'[d][i] = sent[d][i]
<1>1. CASE Connect
  BY <1>1, ConnectEffect
<1>2. ASSUME NEW c \in Conns, Chain(c)
      PROVE  \/ Sealed(c)
             \/ UNCHANGED outbound /\ typed' = typed
                  /\ \A d \in Conns : \A i \in DOMAIN sent'[d] : sent'[d][i].type = "DATA" =>
                       i \in DOMAIN sent[d] /\ sent'[d][i] = sent[d][i]
  <2>1. CASE HandleControl(c)
    <3>1. Control("PONG") \in Sent /\ Control("PONG").type # "DATA"
      BY DEF Sent, Control
    <3>2. UNCHANGED <<outbound, typed>> /\ (UNCHANGED sent \/ Send(c, Control("PONG")))
      BY <2>1 DEF HandleControl, pageVars
    <3>. QED BY <3>1, <3>2, SendEffect
  <2>2. CASE ~HandleControl(c) /\ ~Sealed(c)
    BY <1>2, <2>2 DEF Chain, HandleOpen, HandleData, HandleClose, HandleError, Decrypted, pageVars
  <2>. QED BY <2>1, <2>2
<1>3. ASSUME NEW c \in Conns, Socket(c) \/ Network(c)
      PROVE  UNCHANGED outbound /\ typed' = typed
               /\ \A d \in Conns : \A i \in DOMAIN sent'[d] : sent'[d][i].type = "DATA" =>
                    i \in DOMAIN sent[d] /\ sent'[d][i] = sent[d][i]
  <2>1. CASE SocketOpens(c)
    <3>1. Control("OPEN") \in Sent /\ Control("OPEN").type # "DATA"
      BY DEF Sent, Control
    <3>2. UNCHANGED <<outbound, typed>> /\ sent' = [sent EXCEPT ![c] = Append(@, Control("OPEN"))]
      BY <2>1 DEF SocketOpens, pageVars
    <3>. QED BY <3>1, <3>2, SendEffect
  <2>2. CASE ~SocketOpens(c)
    BY <1>3, <2>2 DEF Socket, Network, Arrives, SocketEnds, RelayHangsUp, ConnectionLost,
       tunnelVars, pageVars, logVars
  <2>. QED BY <2>1, <2>2
<1>. QED BY <1>1, <1>2, <1>3 DEF Next, Page, LoadPage, Reconnect

LEMMA KeysTypedNext ==
  ASSUME TypeOK, KeysTyped, Next
  PROVE  KeysTyped'
<1>0. typed \in Nat
  <2>1. typed \in 0..MaxKeys
    BY DEF TypeOK
  <2>. QED BY <2>1
<1>a. sent \in [Conns -> Seq(Sent)] /\ outbound \in [Conns -> Seq(1..MaxKeys)]
  BY DEF TypeOK, Sent
<1>1. CASE Type
  <2>1. ASSUME NEW d \in Conns, NEW i \in DOMAIN sent'[d], sent'[d][i].type = "DATA"
        PROVE  sent'[d][i].key <= typed + 1
    <3>1. CASE i \in DOMAIN sent[d] /\ sent'[d][i] = sent[d][i]
      <4>1. sent[d][i].key <= typed /\ sent[d][i].key \in Nat
        <5>1. sent[d][i] \in Sent /\ sent[d][i].type = "DATA"
          BY <1>a, <2>1, <3>1
        <5>2. sent[d][i].key \in Nat
          BY <5>1 DEF Sent
        <5>. QED BY <3>1, <5>1, <5>2 DEF KeysTyped
      <4>. QED BY <1>0, <3>1, <4>1
    <3>2. CASE sent'[d][i] = Key(typed + 1)
      BY <1>0, <3>2 DEF Key
    <3>. QED BY <1>1, <2>1, <3>1, <3>2, TypeEffect
  <2>2. ASSUME NEW d \in Conns, NEW i \in DOMAIN outbound'[d]
        PROVE  outbound'[d][i] <= typed + 1
    <3>1. CASE i \in DOMAIN outbound[d] /\ outbound'[d][i] = outbound[d][i]
      <4>1. outbound[d][i] <= typed /\ outbound[d][i] \in Nat
        BY <1>a, <3>1 DEF KeysTyped
      <4>. QED BY <1>0, <3>1, <4>1
    <3>2. CASE outbound'[d][i] = typed + 1
      BY <1>0, <3>2
    <3>. QED BY <1>1, <2>2, <3>1, <3>2, TypeEffect
  <2>. QED BY <1>1, <2>1, <2>2, TypeEffect DEF KeysTyped
<1>2. ASSUME NEW c \in Conns, Sealed(c)
      PROVE  KeysTyped'
  <2>1. typed' = typed /\ outbound[c][1] <= typed
    BY <1>2, SealedEffect DEF KeysTyped
  <2>2. ASSUME NEW d \in Conns, NEW i \in DOMAIN sent'[d], sent'[d][i].type = "DATA"
        PROVE  sent'[d][i].key <= typed
    <3>1. CASE i \in DOMAIN sent[d] /\ sent'[d][i] = sent[d][i]
      BY <2>2, <3>1 DEF KeysTyped
    <3>2. CASE sent'[d][i] = Key(outbound[c][1])
      BY <2>1, <3>2 DEF Key
    <3>. QED BY <1>2, <2>2, <3>1, <3>2, SealedEffect
  <2>3. ASSUME NEW d \in Conns, NEW i \in DOMAIN outbound'[d]
        PROVE  outbound'[d][i] <= typed
    BY <1>2, <2>3, SealedEffect DEF KeysTyped
  <2>. QED BY <2>1, <2>2, <2>3 DEF KeysTyped
<1>3. CASE UNCHANGED outbound /\ typed' = typed
           /\ \A d \in Conns : \A i \in DOMAIN sent'[d] : sent'[d][i].type = "DATA" =>
                i \in DOMAIN sent[d] /\ sent'[d][i] = sent[d][i]
  BY <1>3 DEF KeysTyped
<1>. QED BY <1>1, <1>2, <1>3, SentUnchanged

\* What a tunnel is told about its access, and when.
LEMMA AccessEffect ==
  ASSUME TypeOK, AckFirst, Next
  PROVE  /\ UNCHANGED link
         /\ \/ UNCHANGED <<readOnly, muted, stdinOff>> /\ (status' = "connected" => status = "connected")
            \/ \E c \in Conns :
                 LET watch == link.grant = "viewer" \/ link.key = "viewer" IN
                 /\ readOnly' = [readOnly EXCEPT ![c] = watch]
                 /\ stdinOff' = watch
                 /\ muted' = [muted EXCEPT ![c] = typed]
                 /\ UNCHANGED <<sent, outbound>>
<1>1. CASE Connect
  <2>1. status' # "connected" /\ UNCHANGED <<link, readOnly, muted, stdinOff>>
    BY <1>1, ConnectEffect
  <2>. QED BY <2>1
<1>2. CASE Type
  BY <1>2 DEF Type
<1>3. ASSUME NEW c \in Conns, HandleOpen(c)
      PROVE  /\ UNCHANGED link
             /\ \/ UNCHANGED <<readOnly, muted, stdinOff>> /\ status' # "connected"
                \/ LET watch == link.grant = "viewer" \/ link.key = "viewer" IN
                   /\ readOnly' = [readOnly EXCEPT ![c] = watch]
                   /\ stdinOff' = watch
                   /\ muted' = [muted EXCEPT ![c] = typed]
                   /\ UNCHANGED <<sent, outbound>>
  <2>1. Head(inbound[c]).role = link.grant /\ link.grant \in {"guest", "viewer"}
    <3>1. inbound[c] # <<>> /\ Head(inbound[c]).type = "OPEN"
      BY <1>3 DEF HandleOpen, Turn, Runnable
    <3>2. inbound[c] \in Seq(Frames)
      BY DEF TypeOK
    <3>3. Head(inbound[c]) = inbound[c][1] /\ 1 \in DOMAIN inbound[c]
      BY <3>1, <3>2, TailElements
    <3>4. link.grant \in {"guest", "viewer"}
      <4>1. link \in Links
        BY DEF TypeOK
      <4>. QED BY <4>1 DEF Links
    <3>. QED BY <3>1, <3>3, <3>4 DEF AckFirst
  <2>2. (Head(inbound[c]).role # "guest") = (link.grant = "viewer")
    BY <2>1
  <2>. QED BY <1>3, <2>2 DEF HandleOpen, Fail, Report
<1>4. ASSUME NEW c \in Conns, Chain(c) \/ Socket(c) \/ Network(c), ~HandleOpen(c)
      PROVE  /\ UNCHANGED <<link, readOnly, muted, stdinOff>>
             /\ status' = "connected" => status = "connected"
  BY <1>4 DEF Chain, HandleData, HandleControl, HandleClose, HandleError, Decrypted, Sealed,
     Socket, SocketOpens, Arrives, SocketEnds, Network, RelayHangsUp, ConnectionLost, Fail, Report,
     tunnelVars, pageVars, logVars
<1>. QED BY <1>1, <1>2, <1>3, <1>4 DEF Next, Page, LoadPage, Reconnect, Chain

\* Where only watching is allowed, what is being sealed was typed before the tunnel knew.
LEMMA KeysMutedNext ==
  ASSUME TypeOK, AckFirst, KeysTyped, KeysMuted, Next
  PROVE  KeysMuted'
<1>. SUFFICES ASSUME (link.grant = "viewer" \/ link.key = "viewer")',
                     NEW d \in Conns
              PROVE  /\ readOnly'[d] \/ muted'[d] = MaxKeys
                     /\ \A i \in DOMAIN outbound'[d] : outbound'[d][i] <= muted'[d]
  BY DEF KeysMuted
<1>a. link.grant = "viewer" \/ link.key = "viewer"
  BY AccessEffect
<1>b. /\ readOnly[d] \/ muted[d] = MaxKeys
      /\ \A i \in DOMAIN outbound[d] : outbound[d][i] <= muted[d]
      /\ \A i \in DOMAIN outbound[d] : outbound[d][i] <= typed
  BY <1>a DEF KeysMuted, KeysTyped
<1>1. CASE Type
  <2>1. \A i \in DOMAIN outbound'[d] :
          \/ i \in DOMAIN outbound[d] /\ outbound'[d][i] = outbound[d][i]
          \/ ~readOnly[d] /\ outbound'[d][i] = typed + 1
    BY <1>1, TypeEffect
  <2>2. typed + 1 <= MaxKeys /\ UNCHANGED <<readOnly, muted>>
    BY <1>1, TypeEffect
  <2>. QED BY <1>b, <2>1, <2>2
<1>2. ASSUME NEW c \in Conns, Sealed(c)
      PROVE  /\ readOnly'[d] \/ muted'[d] = MaxKeys
             /\ \A i \in DOMAIN outbound'[d] : outbound'[d][i] <= muted'[d]
  BY <1>2, <1>b, SealedEffect
<1>3. CASE UNCHANGED outbound
  <2>1. CASE UNCHANGED <<readOnly, muted>>
    BY <1>3, <1>b, <2>1
  <2>2. ASSUME NEW c \in Conns, readOnly' = [readOnly EXCEPT ![c] = TRUE],
               muted' = [muted EXCEPT ![c] = typed]
        PROVE  /\ readOnly'[d] \/ muted'[d] = MaxKeys
               /\ \A i \in DOMAIN outbound'[d] : outbound'[d][i] <= muted'[d]
    <3>1. readOnly \in [Conns -> BOOLEAN] /\ muted \in [Conns -> 0..MaxKeys]
      BY DEF TypeOK
    <3>2. CASE d = c
      BY <1>3, <1>b, <2>2, <3>1, <3>2
    <3>3. CASE d # c
      BY <1>3, <1>b, <2>2, <3>1, <3>3
    <3>. QED BY <3>2, <3>3
  <2>3. \/ UNCHANGED <<readOnly, muted>>
        \/ \E c \in Conns : readOnly' = [readOnly EXCEPT ![c] = TRUE]
                              /\ muted' = [muted EXCEPT ![c] = typed]
    BY <1>a, AccessEffect
  <2>. QED BY <2>1, <2>2, <2>3
<1>. QED BY <1>1, <1>2, <1>3, SentUnchanged

LEMMA NarrowerWinsNext ==
  ASSUME TypeOK, AckFirst, KeysTyped, KeysMuted, NarrowerWins, Next
  PROVE  NarrowerWins'
<1>. SUFFICES ASSUME (link.grant = "viewer" \/ link.key = "viewer")'
              PROVE  /\ \A d \in Conns : \A i \in DOMAIN sent'[d] :
                          sent'[d][i].type = "DATA" => sent'[d][i].key <= muted'[d]
                     /\ status' = "connected" => stdinOff'
  BY DEF NarrowerWins
<1>a. link.grant = "viewer" \/ link.key = "viewer"
  BY AccessEffect
<1>1. status' = "connected" => stdinOff'
  BY <1>a, AccessEffect DEF NarrowerWins
<1>2. ASSUME NEW d \in Conns, NEW i \in DOMAIN sent'[d], sent'[d][i].type = "DATA"
      PROVE  sent'[d][i].key <= muted'[d]
  <2>b. /\ readOnly[d] \/ muted[d] = MaxKeys
        /\ \A j \in DOMAIN outbound[d] : outbound[d][j] <= muted[d]
        /\ \A j \in DOMAIN sent[d] : sent[d][j].type = "DATA" =>
             sent[d][j].key <= muted[d] /\ sent[d][j].key <= typed
    BY <1>a DEF KeysMuted, KeysTyped, NarrowerWins
  <2>1. CASE Type
    <3>1. \/ i \in DOMAIN sent[d] /\ sent'[d][i] = sent[d][i]
          \/ ~readOnly[d] /\ sent'[d][i] = Key(typed + 1)
      BY <2>1, TypeEffect
    <3>2. typed + 1 <= MaxKeys /\ UNCHANGED muted
      BY <2>1, TypeEffect
    <3>. QED BY <1>2, <2>b, <3>1, <3>2 DEF Key
  <2>2. ASSUME NEW c \in Conns, Sealed(c)
        PROVE  sent'[d][i].key <= muted'[d]
    <3>1. \/ i \in DOMAIN sent[d] /\ sent'[d][i] = sent[d][i]
          \/ 1 \in DOMAIN outbound[d] /\ sent'[d][i] = Key(outbound[d][1])
      BY <2>2, SealedEffect
    <3>2. UNCHANGED muted
      BY <2>2, SealedEffect
    <3>. QED BY <1>2, <2>b, <3>1, <3>2 DEF Key
  <2>3. CASE i \in DOMAIN sent[d] /\ sent'[d][i] = sent[d][i]
    <3>1. CASE UNCHANGED muted
      BY <1>2, <2>b, <2>3, <3>1
    <3>2. ASSUME NEW c \in Conns, muted' = [muted EXCEPT ![c] = typed]
          PROVE  sent'[d][i].key <= muted'[d]
      <4>1. muted \in [Conns -> 0..MaxKeys]
        BY DEF TypeOK
      <4>2. muted'[d] = typed \/ muted'[d] = muted[d]
        BY <3>2, <4>1
      <4>. QED BY <1>2, <2>b, <2>3, <4>2
    <3>. QED BY <3>1, <3>2, AccessEffect
  <2>. QED BY <1>2, <2>1, <2>2, <2>3, SentUnchanged
<1>. QED BY <1>1, <1>2

\* Unless a tunnel was replaced too early, only the current one can do anything.
LEMMA OnlyCurrentActs ==
  ASSUME TypeOK, Sockets, StatusIsTrue, ~hurried, NEW c \in Conns, ~Finished(c)
  PROVE  c = current
<1>1. current \in Nat /\ c \in Nat /\ c > 0
  <2>1. current \in 0..MaxConns
    BY DEF TypeOK
  <2>. QED BY <2>1 DEF Conns
<1>2. CASE c > current
  BY <1>2 DEF Sockets, Finished
<1>3. CASE c <= current
  <2>1. c \in 1..current
    BY <1>1, <1>3
  <2>. QED BY <2>1 DEF StatusIsTrue
<1>. QED BY <1>1, <1>2, <1>3

\* A step of the current tunnel leaves the others finished.
LEMMA CurrentStep ==
  ASSUME TypeOK, StatusIsTrue, UNCHANGED <<current, hurried>>,
         \A d \in Conns : d # current => socket'[d] = socket[d] /\ inbound'[d] = inbound[d],
         /\ status' = "connected" => opened'[current] /\ socket'[current] \in {"open", "closing"}
         /\ status' \in {"closed", "error"} => socket'[current] \in {"none", "closing", "closed"}
  PROVE  StatusIsTrue'
<1>1. ASSUME NEW d \in 1..current PROVE d \in Conns
  <2>1. current \in 0..MaxConns
    BY DEF TypeOK
  <2>. QED BY <2>1 DEF Conns
<1>. QED BY <1>1 DEF StatusIsTrue, Finished

LEMMA StatusIsTrueNext ==
  ASSUME TypeOK, Sockets, AckFirst, StatusIsTrue, Next
  PROVE  StatusIsTrue'
<1>. SUFFICES ASSUME ~hurried' PROVE StatusIsTrue'
  BY DEF StatusIsTrue
<1>a. current \in Nat
  <2>1. current \in 0..MaxConns
    BY DEF TypeOK
  <2>. QED BY <2>1
<1>b. socket \in [Conns -> States] /\ opened \in [Conns -> BOOLEAN]
  BY DEF TypeOK, States
<1>1. CASE Connect
  <2>1. \A d \in 1..current : Finished(d)
    BY <1>1 DEF Connect
  <2>2. current' = current + 1 /\ current + 1 \in Conns /\ UNCHANGED inbound
    BY <1>1, ConnectEffect
  <2>3. ASSUME NEW d \in 1..(current + 1), d # current + 1
        PROVE  Finished(d)'
    <3>1. d \in 1..current /\ d \in Conns
      BY <1>a, <2>2, <2>3 DEF Conns
    <3>2. socket'[d] = socket[d]
      BY <1>1, <2>3, <3>1, ConnectEffect
    <3>. QED BY <2>1, <2>2, <3>1, <3>2 DEF Finished
  <2>4. socket[current + 1] = "none"
    <3>1. current + 1 > current
      BY <1>a
    <3>. QED BY <2>2, <3>1 DEF Sockets
  <2>5. \/ status' = "connecting"
        \/ status' = "error" /\ socket'[current + 1] = "none"
    BY <1>1, <2>4, ConnectEffect
  <2>. QED BY <2>2, <2>3, <2>5 DEF StatusIsTrue
<1>2. CASE Type
  BY <1>2 DEF Type, StatusIsTrue, Finished
<1>c. ~Connect => UNCHANGED <<current, hurried>>
  BY DEF Next, Page, LoadPage, Reconnect, Type, Chain, HandleOpen, HandleData,
     HandleControl, HandleClose, HandleError, Decrypted, Sealed, Socket, SocketOpens, Arrives,
     SocketEnds, Network, RelayHangsUp, ConnectionLost, pageVars, logVars
<1>3. ASSUME NEW c \in Conns, Chain(c), UNCHANGED <<current, hurried>>
      PROVE  StatusIsTrue'
  <2>1. CASE Sealed(c)
    BY <2>1 DEF Sealed, StatusIsTrue, Finished, pageVars
  <2>2. CASE inbound[c] # <<>> /\ Handled(c) /\ ~Sealed(c)
    <3>1. c = current /\ ~hurried
      BY <1>3, <2>2, OnlyCurrentActs DEF Finished
    <3>2. \A d \in Conns : d # current => socket'[d] = socket[d] /\ inbound'[d] = inbound[d]
      BY <1>3, <2>2, <3>1, ChainEffect, HandledEffect, CloseEffect
    <3>3. CASE UNCHANGED <<socket, status, opened>>
      BY <1>3, <3>1, <3>2, <3>3, CurrentStep DEF StatusIsTrue
    <3>4. CASE CloseSocket(c) /\ UNCHANGED <<status, opened>>
      BY <1>3, <3>1, <3>2, <3>4, CloseEffect, CurrentStep DEF StatusIsTrue
    <3>5. CASE Fail(c)
      <4>1. status' = "error" /\ CloseSocket(c)
        BY <3>5 DEF Fail, Report
      <4>. QED BY <1>3, <3>1, <3>2, <4>1, CloseEffect, CurrentStep
    <3>6. CASE HandleOpen(c) /\ ~Fail(c)
      <4>1. status' = "connected" /\ opened'[c] /\ UNCHANGED socket
        BY <1>b, <3>6 DEF HandleOpen, Report
      <4>2. inbound[c] \in Seq(Frames) /\ Head(inbound[c]).type = "OPEN"
        BY <3>6 DEF TypeOK, HandleOpen, Turn
      <4>3. socket[c] = "open"
        BY <2>2, <4>2, TailElements DEF AckFirst
      <4>. QED BY <1>3, <3>1, <3>2, <4>1, <4>3, CurrentStep
    <3>. QED BY <1>3, <2>2, <3>3, <3>4, <3>5, <3>6 DEF Chain, HandleData, HandleControl,
             HandleClose, HandleError, Decrypted, pageVars
  <2>. QED BY <1>3, <2>1, <2>2, ChainEffect
<1>4. ASSUME NEW c \in Conns, Socket(c), UNCHANGED <<current, hurried>>
      PROVE  StatusIsTrue'
  <2>1. c = current /\ ~hurried /\ socket[c] \in {"connecting", "open", "closing"}
    <3>1. socket[c] \in {"connecting", "open", "closing"}
      BY <1>4 DEF Socket, SocketOpens, Arrives, SocketEnds, Closable
    <3>. QED BY <1>4, <3>1, OnlyCurrentActs DEF Finished
  <2>2. CASE SocketOpens(c)
    <3>1. /\ socket[c] = "connecting" /\ socket' = [socket EXCEPT ![c] = "open"]
          /\ UNCHANGED <<status, opened, inbound>>
      BY <2>2 DEF SocketOpens, pageVars
    <3>2. \A d \in Conns : d # current => socket'[d] = socket[d]
      BY <1>b, <2>1, <3>1
    <3>3. status \notin {"connected", "closed", "error"}
      BY <2>1, <3>1 DEF StatusIsTrue
    <3>. QED BY <1>4, <3>1, <3>2, <3>3, CurrentStep
  <2>3. CASE Arrives(c)
    <3>1. UNCHANGED opened
      BY <2>3 DEF Arrives
    <3>2. CASE Fail(c) /\ UNCHANGED inbound
      <4>1. status' = "error" /\ CloseSocket(c)
        BY <3>2 DEF Fail, Report
      <4>. QED BY <1>4, <2>1, <3>2, <4>1, CloseEffect, CurrentStep
    <3>3. ASSUME NEW m \in Frames, inbound' = [inbound EXCEPT ![c] = Append(@, m)],
                 UNCHANGED <<socket, status>>
          PROVE  StatusIsTrue'
      <4>1. \A d \in Conns : d # current => socket'[d] = socket[d] /\ inbound'[d] = inbound[d]
        BY <2>1, <3>3, ArrivalEffect
      <4>. QED BY <1>4, <2>1, <3>1, <3>3, <4>1, CurrentStep DEF StatusIsTrue
    <3>. QED BY <2>3, <3>2, <3>3 DEF Arrives
  <2>4. CASE SocketEnds(c)
    <3>1. /\ socket' = [socket EXCEPT ![c] = "closed"] /\ UNCHANGED inbound
          /\ status' \in {"closed", "error"}
      BY <2>4 DEF SocketEnds, Report
    <3>2. /\ \A d \in Conns : d # current => socket'[d] = socket[d]
          /\ socket'[current] = "closed"
      BY <1>b, <2>1, <3>1
    <3>. QED BY <1>4, <3>1, <3>2, CurrentStep
  <2>. QED BY <1>4, <2>2, <2>3, <2>4 DEF Socket
<1>5. ASSUME NEW c \in Conns, Network(c)
      PROVE  StatusIsTrue'
  BY <1>5 DEF Network, RelayHangsUp, ConnectionLost, StatusIsTrue, Finished, tunnelVars,
     pageVars, logVars
<1>6. CASE ~Connect
  BY <1>2, <1>3, <1>4, <1>5, <1>6, <1>c DEF Next, Page, LoadPage, Reconnect
<1>. QED BY <1>1, <1>6

-----------------------------------------------------------------------------
(* The invariant, and what follows from it. *)

LEMMA InitInvariant == Init => IInv
<1>. SUFFICES ASSUME Init PROVE IInv
  OBVIOUS
<1>1. /\ \A c \in Conns : /\ inbound[c] = <<>> /\ outbound[c] = <<>> /\ sent[c] = <<>>
                          /\ drawn[c] = <<>> /\ socket[c] = "none" /\ relay[c] = "new"
                          /\ muted[c] = MaxKeys
      /\ status = "none" /\ current = 0 /\ early = {}
  BY DEF Init
<1>2. DOMAIN <<>> = {}
  OBVIOUS
<1>3. Sockets /\ AckFirst /\ Mismatch
  BY <1>1, <1>2 DEF Sockets, AckFirst, Mismatch
<1>4. KeysTyped /\ KeysMuted /\ NarrowerWins
  BY <1>1, <1>2 DEF KeysTyped, KeysMuted, NarrowerWins
<1>5. StatusIsTrue
  BY <1>1 DEF StatusIsTrue
<1>. QED BY <1>3, <1>4, <1>5, InitType DEF IInv

LEMMA NextInvariant ==
  ASSUME IInv, [Next]_vars
  PROVE  IInv'
<1>1. CASE Next
  BY <1>1, NextType, SocketsNext, AckFirstNext, MismatchNext, KeysTypedNext, KeysMutedNext,
     NarrowerWinsNext, StatusIsTrueNext DEF IInv
<1>2. CASE UNCHANGED vars
  <2>1. UNCHANGED <<link, socket, held, opened, readOnly, inbound, outbound, current, status,
                    stdinOff, typed, relay, early, sent, drawn, muted, hurried>>
    BY <1>2 DEF vars, tunnelVars, pageVars, relayVars, logVars
  <2>2. TypeOK'
    BY NextType DEF IInv
  <2>3. Sockets' /\ AckFirst' /\ Mismatch'
    BY <2>1 DEF IInv, Sockets, AckFirst, Mismatch
  <2>4. KeysTyped' /\ KeysMuted' /\ NarrowerWins'
    BY <2>1 DEF IInv, KeysTyped, KeysMuted, NarrowerWins
  <2>5. StatusIsTrue'
    BY <2>1 DEF IInv, StatusIsTrue, Finished
  <2>. QED BY <2>2, <2>3, <2>4, <2>5 DEF IInv
<1>. QED BY <1>1, <1>2

\* The parts of the invariant hold together in every reachable state.
THEOREM Invariance == Spec => []IInv
<1>1. IInv /\ [Next]_vars => IInv'
  BY NextInvariant
<1>. QED BY <1>1, InitInvariant, PTL DEF Spec

\* When link and session disagree about encryption nothing is ever drawn, unless the relay
\* acknowledged a guest without a key before the host had declared that it encrypts
\* (tunnel.ts:229).
THEOREM MismatchShowsNothingHolds == Spec => []MismatchShowsNothing
<1>1. IInv => MismatchShowsNothing
  BY DEF IInv, Mismatch, MismatchShowsNothing
<1>. QED BY <1>1, Invariance, PTL

\* The narrower of the relay's grant and the key's kind wins (tunnel.ts:248).
THEOREM NarrowerWinsHolds == Spec => []NarrowerWins
<1>1. IInv => NarrowerWins
  BY DEF IInv
<1>. QED BY <1>1, Invariance, PTL

\* The page's status is that of the only tunnel that can still act, unless the user
\* reconnected too early (main.ts:164).
THEOREM StatusIsTrueHolds == Spec => []StatusIsTrue
<1>1. IInv => StatusIsTrue
  BY DEF IInv
<1>. QED BY <1>1, Invariance, PTL

-----------------------------------------------------------------------------
(* The order of output and of keys.  What is said of one queue is stated for  *)
(* any sequences first; the bounds of the model are cited where they matter.  *)

HIDE TunnelAssumption

-----------------------------------------------------------------------------
(* Output, in the order the relay sent it: d was drawn, w waits on the chain, *)
(* a arrived, and n is the next chunk.                                        *)

Received(d, w, a, n) ==
  /\ Rising(d) /\ \A i \in DOMAIN d : d[i] < n
  /\ \A i, j \in GoodAt(w) : i < j => w[i].chunk < w[j].chunk
  /\ \A i \in GoodAt(w) : w[i].chunk < n
  /\ \A i, j \in GoodAt(a) : i < j => a[i].chunk < a[j].chunk
  /\ \A i \in GoodAt(a) : a[i].chunk < n
  /\ \A i \in DOMAIN d : \A j \in GoodAt(w) : d[i] < w[j].chunk
  /\ {d[i] : i \in DOMAIN d} \cup {w[i].chunk : i \in GoodAt(w)} = {a[i].chunk : i \in GoodAt(a)}

\* The same, with the sets of chunks taken apart.
LEMMA ReceivedIs ==
  ASSUME NEW d, NEW w, NEW a, NEW n
  PROVE  Received(d, w, a, n) <=>
           /\ Rising(d) /\ \A i \in DOMAIN d : d[i] < n
           /\ \A i, j \in GoodAt(w) : i < j => w[i].chunk < w[j].chunk
           /\ \A i \in GoodAt(w) : w[i].chunk < n
           /\ \A i, j \in GoodAt(a) : i < j => a[i].chunk < a[j].chunk
           /\ \A i \in GoodAt(a) : a[i].chunk < n
           /\ \A i \in DOMAIN d : \A j \in GoodAt(w) : d[i] < w[j].chunk
           /\ \A i \in DOMAIN d : \E k \in GoodAt(a) : a[k].chunk = d[i]
           /\ \A i \in GoodAt(w) : \E k \in GoodAt(a) : a[k].chunk = w[i].chunk
           /\ \A k \in GoodAt(a) : \/ \E i \in DOMAIN d : d[i] = a[k].chunk
                                   \/ \E i \in GoodAt(w) : w[i].chunk = a[k].chunk
<1>. DEFINE D == {d[i] : i \in DOMAIN d}
            W == {w[i].chunk : i \in GoodAt(w)}
            A == {a[i].chunk : i \in GoodAt(a)}
<1>1. D \cup W = A <=>
           /\ \A i \in DOMAIN d : \E k \in GoodAt(a) : a[k].chunk = d[i]
           /\ \A i \in GoodAt(w) : \E k \in GoodAt(a) : a[k].chunk = w[i].chunk
           /\ \A k \in GoodAt(a) : \/ \E i \in DOMAIN d : d[i] = a[k].chunk
                                   \/ \E i \in GoodAt(w) : w[i].chunk = a[k].chunk
  <2>1. D \cup W = A <=> /\ \A x \in D : x \in A
                         /\ \A x \in W : x \in A
                         /\ \A x \in A : x \in D \/ x \in W
    <3>. HIDE DEF D, W, A
    <3>. QED OBVIOUS
  <2>2. /\ \A x : x \in D <=> \E i \in DOMAIN d : d[i] = x
        /\ \A x : x \in W <=> \E i \in GoodAt(w) : w[i].chunk = x
        /\ \A x : x \in A <=> \E i \in GoodAt(a) : a[i].chunk = x
    OBVIOUS
  <2>. HIDE DEF D, W, A
  <2>3. (\A x \in D : x \in A) <=> \A i \in DOMAIN d : \E k \in GoodAt(a) : a[k].chunk = d[i]
    BY <2>2
  <2>4. (\A x \in W : x \in A) <=> \A i \in GoodAt(w) : \E k \in GoodAt(a) : a[k].chunk = w[i].chunk
    BY <2>2
  <2>5. (\A x \in A : x \in D \/ x \in W) <=>
          \A k \in GoodAt(a) : \/ \E i \in DOMAIN d : d[i] = a[k].chunk
                              \/ \E i \in GoodAt(w) : w[i].chunk = a[k].chunk
    BY <2>2
  <2>. QED BY <2>1, <2>3, <2>4, <2>5
<1>. HIDE DEF D, W, A
<1>. QED BY <1>1 DEF Received, D, W, A

LEMMA GoodFrame == ASSUME NEW f \in Frames, Good(f) PROVE f.chunk \in 1..MaxOutput
BY DEF Good, Frames

LEMMA GoodAppended ==
  ASSUME NEW s \in Seq(Frames), NEW f \in Frames
  PROVE  /\ \A i \in GoodAt(s) : i \in 1..Len(s) /\ i \in GoodAt(Append(s, f)) /\ Append(s, f)[i] = s[i]
         /\ \A i \in GoodAt(Append(s, f)) : i \in GoodAt(s) \/ (i = Len(s) + 1 /\ Good(f))
         /\ Good(f) => Len(s) + 1 \in GoodAt(Append(s, f))
         /\ Append(s, f)[Len(s) + 1] = f /\ Len(s) \in Nat
<1>. DEFINE a == Append(s, f)
<1>1. /\ Len(s) \in Nat /\ DOMAIN s = 1..Len(s) /\ DOMAIN a = 1..(Len(s) + 1)
      /\ \A i \in 1..Len(s) : a[i] = s[i]
      /\ a[Len(s) + 1] = f
  OBVIOUS
<1>. HIDE DEF a
<1>. QED BY <1>1 DEF GoodAt, a

LEMMA GoodTail ==
  ASSUME NEW s \in Seq(Frames), s # <<>>
  PROVE  /\ \A i \in GoodAt(Tail(s)) : i \in Nat /\ i + 1 \in GoodAt(s) /\ Tail(s)[i] = s[i + 1]
         /\ \A i \in GoodAt(s) : i = 1 \/ (i > 1 /\ i - 1 \in GoodAt(Tail(s)))
         /\ \A i \in GoodAt(s) : i \in Nat
         /\ Head(s) = s[1] /\ Head(s) \in Frames /\ (1 \in GoodAt(s) <=> Good(Head(s)))
<1>. DEFINE t == Tail(s)
            F == Frames
<1>1. s \in Seq(F) /\ s # <<>>
  OBVIOUS
<1>2. /\ Len(s) \in Nat \ {0} /\ DOMAIN s = 1..Len(s) /\ DOMAIN t = 1..(Len(s) - 1)
      /\ \A i \in 1..(Len(s) - 1) : t[i] = s[i + 1]
      /\ Head(s) = s[1] /\ Head(s) \in F
  <2>. HIDE DEF F
  <2>. QED BY <1>1
<1>. HIDE DEF t
<1>3. ASSUME NEW i \in GoodAt(t)
      PROVE  i \in Nat /\ i + 1 \in GoodAt(s) /\ t[i] = s[i + 1]
  BY <1>2 DEF GoodAt
<1>4. ASSUME NEW i \in GoodAt(s), i # 1
      PROVE  i > 1 /\ i - 1 \in GoodAt(t)
  <2>1. i \in 1..Len(s) /\ Good(s[i])
    BY <1>2 DEF GoodAt
  <2>2. i - 1 \in 1..(Len(s) - 1) /\ t[i - 1] = s[(i - 1) + 1] /\ (i - 1) + 1 = i
    BY <1>2, <1>4, <2>1
  <2>. QED BY <1>2, <1>4, <2>1, <2>2 DEF GoodAt
<1>5. 1 \in GoodAt(s) <=> Good(Head(s))
  BY <1>2 DEF GoodAt
<1>6. \A i \in GoodAt(s) : i \in Nat
  BY <1>2 DEF GoodAt
<1>. QED BY <1>2, <1>3, <1>4, <1>5, <1>6 DEF t, F

\* The next chunk arrives, and authenticates or will not.
LEMMA GoodArrives ==
  ASSUME NEW d, NEW w \in Seq(Frames), NEW a \in Seq(Frames), NEW n \in Nat, Received(d, w, a, n),
         \A i \in DOMAIN d : d[i] \in Nat,
         NEW f \in Frames, Good(f), f.chunk = n
  PROVE  Received(d, Append(w, f), Append(a, f), n + 1)
<1>. DEFINE x == Append(w, f)
            y == Append(a, f)
<1>1. /\ \A i \in GoodAt(w) : i \in 1..Len(w) /\ i \in GoodAt(x) /\ x[i] = w[i]
      /\ \A i \in GoodAt(x) : i \in GoodAt(w) \/ i = Len(w) + 1
      /\ Len(w) + 1 \in GoodAt(x)
      /\ x[Len(w) + 1] = f /\ Len(w) \in Nat
  BY GoodAppended
<1>2. /\ \A i \in GoodAt(a) : i \in 1..Len(a) /\ i \in GoodAt(y) /\ y[i] = a[i]
      /\ \A i \in GoodAt(y) : i \in GoodAt(a) \/ i = Len(a) + 1
      /\ Len(a) + 1 \in GoodAt(y)
      /\ y[Len(a) + 1] = f /\ Len(a) \in Nat
  BY GoodAppended
<1>3. \A i \in GoodAt(w) : w[i].chunk \in Nat
  <2>1. \A i \in GoodAt(w) : w[i] \in Frames /\ Good(w[i])
    BY DEF GoodAt
  <2>. QED BY <2>1, GoodFrame
<1>4. \A i \in GoodAt(a) : a[i].chunk \in Nat
  <2>1. \A i \in GoodAt(a) : a[i] \in Frames /\ Good(a[i])
    BY DEF GoodAt
  <2>. QED BY <2>1, GoodFrame
<1>. HIDE DEF x, y
<1>5. /\ Rising(d) /\ \A i \in DOMAIN d : d[i] < n + 1
      /\ \A i \in DOMAIN d : \A j \in GoodAt(x) : d[i] < x[j].chunk
  BY <1>1 DEF Received
<1>6. /\ \A i, j \in GoodAt(x) : i < j => x[i].chunk < x[j].chunk
      /\ \A i \in GoodAt(x) : x[i].chunk < n + 1
  <2>1. ASSUME NEW i \in GoodAt(x), NEW j \in GoodAt(x), i < j
        PROVE  x[i].chunk < x[j].chunk
    <3>1. i \in GoodAt(w) /\ x[i] = w[i] /\ w[i].chunk < n
      BY <1>1, <2>1 DEF Received
    <3>2. CASE j \in GoodAt(w)
      BY <1>1, <2>1, <3>1, <3>2 DEF Received
    <3>3. CASE j = Len(w) + 1
      BY <1>1, <3>1, <3>3
    <3>. QED BY <1>1, <3>2, <3>3
  <2>2. ASSUME NEW i \in GoodAt(x)
        PROVE  x[i].chunk < n + 1
    <3>1. CASE i \in GoodAt(w)
      <4>1. w[i].chunk < n /\ w[i].chunk \in Nat /\ x[i] = w[i]
        BY <1>1, <1>3, <3>1 DEF Received
      <4>. QED BY <4>1
    <3>2. CASE i = Len(w) + 1
      BY <1>1, <3>2
    <3>. QED BY <1>1, <3>1, <3>2
  <2>. QED BY <2>1, <2>2
<1>7. /\ \A i, j \in GoodAt(y) : i < j => y[i].chunk < y[j].chunk
      /\ \A i \in GoodAt(y) : y[i].chunk < n + 1
  <2>1. ASSUME NEW i \in GoodAt(y), NEW j \in GoodAt(y), i < j
        PROVE  y[i].chunk < y[j].chunk
    <3>1. i \in GoodAt(a) /\ y[i] = a[i] /\ a[i].chunk < n
      BY <1>2, <2>1 DEF Received
    <3>2. CASE j \in GoodAt(a)
      BY <1>2, <2>1, <3>1, <3>2 DEF Received
    <3>3. CASE j = Len(a) + 1
      BY <1>2, <3>1, <3>3
    <3>. QED BY <1>2, <3>2, <3>3
  <2>2. ASSUME NEW i \in GoodAt(y)
        PROVE  y[i].chunk < n + 1
    <3>1. CASE i \in GoodAt(a)
      <4>1. a[i].chunk < n /\ a[i].chunk \in Nat /\ y[i] = a[i]
        BY <1>2, <1>4, <3>1 DEF Received
      <4>. QED BY <4>1
    <3>2. CASE i = Len(a) + 1
      BY <1>2, <3>2
    <3>. QED BY <1>2, <3>1, <3>2
  <2>. QED BY <2>1, <2>2
<1>8. /\ \A i \in DOMAIN d : \E k \in GoodAt(y) : y[k].chunk = d[i]
      /\ \A i \in GoodAt(x) : \E k \in GoodAt(y) : y[k].chunk = x[i].chunk
      /\ \A k \in GoodAt(y) : \/ \E i \in DOMAIN d : d[i] = y[k].chunk
                              \/ \E i \in GoodAt(x) : x[i].chunk = y[k].chunk
  <2>1. /\ \A i \in DOMAIN d : \E k \in GoodAt(a) : a[k].chunk = d[i]
        /\ \A i \in GoodAt(w) : \E k \in GoodAt(a) : a[k].chunk = w[i].chunk
        /\ \A k \in GoodAt(a) : \/ \E i \in DOMAIN d : d[i] = a[k].chunk
                                \/ \E i \in GoodAt(w) : w[i].chunk = a[k].chunk
    BY ReceivedIs
  <2>2. \A i \in DOMAIN d : \E k \in GoodAt(y) : y[k].chunk = d[i]
    BY <1>2, <2>1
  <2>3. \A i \in GoodAt(x) : \E k \in GoodAt(y) : y[k].chunk = x[i].chunk
    <3>1. ASSUME NEW i \in GoodAt(x)
          PROVE  \E k \in GoodAt(y) : y[k].chunk = x[i].chunk
      <4>1. CASE i \in GoodAt(w)
        <5>1. PICK k \in GoodAt(a) : a[k].chunk = w[i].chunk
          BY <2>1, <4>1
        <5>. QED BY <1>1, <1>2, <4>1, <5>1
      <4>2. CASE i = Len(w) + 1
        BY <1>1, <1>2, <4>2
      <4>. QED BY <1>1, <4>1, <4>2
    <3>. QED BY <3>1
  <2>4. \A k \in GoodAt(y) : \/ \E i \in DOMAIN d : d[i] = y[k].chunk
                             \/ \E i \in GoodAt(x) : x[i].chunk = y[k].chunk
    <3>1. ASSUME NEW k \in GoodAt(y)
          PROVE  \/ \E i \in DOMAIN d : d[i] = y[k].chunk
                 \/ \E i \in GoodAt(x) : x[i].chunk = y[k].chunk
      <4>1. CASE k \in GoodAt(a)
        <5>1. y[k] = a[k]
          BY <1>2, <4>1
        <5>2. \A i \in GoodAt(w) : i \in GoodAt(x) /\ x[i] = w[i]
          BY <1>1
        <5>. QED BY <2>1, <4>1, <5>1, <5>2
      <4>2. CASE k = Len(a) + 1
        BY <1>1, <1>2, <4>2
      <4>. QED BY <1>2, <4>1, <4>2
    <3>. QED BY <3>1
  <2>. QED BY <2>2, <2>3, <2>4
<1>. QED BY <1>5, <1>6, <1>7, <1>8, ReceivedIs DEF x, y

LEMMA QuietFrame ==
  ASSUME NEW s \in Seq(Frames), NEW f \in Frames, ~Good(f)
  PROVE  GoodAt(Append(s, f)) = GoodAt(s) /\ \A i \in GoodAt(s) : Append(s, f)[i] = s[i]
<1>. DEFINE a == Append(s, f)
<1>1. /\ \A i \in GoodAt(s) : i \in GoodAt(a) /\ a[i] = s[i]
      /\ \A i \in GoodAt(a) : i \in GoodAt(s)
  BY GoodAppended
<1>. HIDE DEF a
<1>. QED BY <1>1 DEF a

\* A frame arrives that is not output, or does not authenticate.
LEMMA OtherArrives ==
  ASSUME NEW d, NEW w \in Seq(Frames), NEW a \in Seq(Frames), NEW n \in Nat, Received(d, w, a, n),
         \A i \in DOMAIN d : d[i] \in Nat,
         NEW f \in Frames, ~Good(f), NEW b, b = a \/ b = Append(a, f), NEW m \in {n, n + 1}
  PROVE  Received(d, Append(w, f), b, m)
<1>. DEFINE x == Append(w, f)
<1>1. GoodAt(x) = GoodAt(w) /\ \A i \in GoodAt(w) : x[i] = w[i]
  BY QuietFrame
<1>2. GoodAt(b) = GoodAt(a) /\ \A i \in GoodAt(a) : b[i] = a[i]
  <2>1. GoodAt(Append(a, f)) = GoodAt(a) /\ \A i \in GoodAt(a) : Append(a, f)[i] = a[i]
    BY QuietFrame
  <2>. QED BY <2>1
<1>3. \A i \in GoodAt(w) : w[i].chunk \in Nat
  <2>1. \A i \in GoodAt(w) : w[i] \in Frames /\ Good(w[i])
    BY DEF GoodAt
  <2>. QED BY <2>1, GoodFrame
<1>4. \A i \in GoodAt(a) : a[i].chunk \in Nat
  <2>1. \A i \in GoodAt(a) : a[i] \in Frames /\ Good(a[i])
    BY DEF GoodAt
  <2>. QED BY <2>1, GoodFrame
<1>. HIDE DEF x
<1>5. {x[i].chunk : i \in GoodAt(x)} = {w[i].chunk : i \in GoodAt(w)}
  BY <1>1
<1>6. {b[i].chunk : i \in GoodAt(b)} = {a[i].chunk : i \in GoodAt(a)}
  BY <1>2
<1>7. /\ \A i \in DOMAIN d : d[i] < m
      /\ \A i \in GoodAt(w) : w[i].chunk < m
      /\ \A i \in GoodAt(a) : a[i].chunk < m
  BY <1>3, <1>4 DEF Received
<1>. QED BY <1>1, <1>2, <1>5, <1>6, <1>7 DEF Received, x

\* The frame at the head is drawn.
LEMMA HeadDrawn ==
  ASSUME NEW d \in Seq(1..MaxOutput), NEW w \in Seq(Frames), NEW a, NEW n \in Nat,
         Received(d, w, a, n), w # <<>>, Good(Head(w))
  PROVE  Received(Append(d, Head(w).chunk), Tail(w), a, n)
<1>. DEFINE e == Head(w).chunk
            x == Append(d, e)
            t == Tail(w)
<1>1. /\ \A i \in GoodAt(t) : i \in Nat /\ i + 1 \in GoodAt(w) /\ t[i] = w[i + 1]
      /\ \A i \in GoodAt(w) : i = 1 \/ (i > 1 /\ i - 1 \in GoodAt(t))
      /\ \A i \in GoodAt(w) : i \in Nat
      /\ 1 \in GoodAt(w) /\ w[1].chunk = e /\ Head(w) \in Frames
  BY GoodTail
<1>2. e \in 1..MaxOutput
  BY <1>1, GoodFrame
<1>. HIDE DEF e
<1>3. /\ Len(d) \in Nat /\ DOMAIN d = 1..Len(d) /\ DOMAIN x = 1..(Len(d) + 1)
      /\ \A i \in 1..Len(d) : x[i] = d[i] /\ d[i] \in 1..MaxOutput
      /\ x[Len(d) + 1] = e
  <2>. DEFINE S == 1..MaxOutput
  <2>1. d \in Seq(S) /\ e \in S
    BY <1>2
  <2>2. \A i \in DOMAIN d : d[i] \in S
    <3>. HIDE DEF S
    <3>. QED BY <2>1
  <2>3. /\ Len(d) \in Nat /\ DOMAIN d = 1..Len(d) /\ DOMAIN x = 1..(Len(d) + 1)
        /\ \A i \in 1..Len(d) : x[i] = d[i]
        /\ x[Len(d) + 1] = e
    <3>. HIDE DEF S
    <3>. QED BY <2>1
  <2>. QED BY <2>2, <2>3
<1>. HIDE DEF x, t
<1>4. /\ Rising(d) /\ \A i \in DOMAIN d : d[i] < n
      /\ \A i, j \in GoodAt(w) : i < j => w[i].chunk < w[j].chunk
      /\ \A i \in GoodAt(w) : w[i].chunk < n
      /\ \A i, j \in GoodAt(a) : i < j => a[i].chunk < a[j].chunk
      /\ \A i \in GoodAt(a) : a[i].chunk < n
      /\ \A i \in DOMAIN d : \A j \in GoodAt(w) : d[i] < w[j].chunk
      /\ \A i \in DOMAIN d : \E k \in GoodAt(a) : a[k].chunk = d[i]
      /\ \A i \in GoodAt(w) : \E k \in GoodAt(a) : a[k].chunk = w[i].chunk
      /\ \A k \in GoodAt(a) : \/ \E i \in DOMAIN d : d[i] = a[k].chunk
                              \/ \E i \in GoodAt(w) : w[i].chunk = a[k].chunk
  BY ReceivedIs
<1>5. \A i \in DOMAIN x : (i \in DOMAIN d /\ x[i] = d[i]) \/ (i = Len(d) + 1 /\ x[i] = e)
  BY <1>3
<1>6. Rising(x)
  <2>1. ASSUME NEW i \in DOMAIN x, NEW j \in DOMAIN x, i < j
        PROVE  x[i] < x[j]
    <3>1. i \in DOMAIN d /\ x[i] = d[i]
      BY <1>3, <2>1
    <3>2. CASE j \in DOMAIN d
      BY <1>3, <1>4, <2>1, <3>1, <3>2 DEF Rising
    <3>3. CASE j \notin DOMAIN d
      BY <1>1, <1>4, <1>5, <3>1, <3>3
    <3>. QED BY <3>2, <3>3
  <2>. QED BY <2>1 DEF Rising
<1>7. \A i \in DOMAIN x : x[i] < n
  BY <1>1, <1>4, <1>5
<1>8. /\ \A i, j \in GoodAt(t) : i < j => t[i].chunk < t[j].chunk
      /\ \A i \in GoodAt(t) : t[i].chunk < n
  <2>1. ASSUME NEW i \in GoodAt(t), NEW j \in GoodAt(t), i < j
        PROVE  t[i].chunk < t[j].chunk
    <3>1. /\ i + 1 \in GoodAt(w) /\ j + 1 \in GoodAt(w) /\ i + 1 < j + 1
          /\ t[i] = w[i + 1] /\ t[j] = w[j + 1]
      BY <1>1, <2>1
    <3>. QED BY <3>1 DEF Received
  <2>2. \A i \in GoodAt(t) : t[i].chunk < n
    BY <1>1 DEF Received
  <2>. QED BY <2>1, <2>2
<1>9. ASSUME NEW i \in DOMAIN x, NEW j \in GoodAt(t)
      PROVE  x[i] < t[j].chunk
  <2>1. j + 1 \in GoodAt(w) /\ t[j] = w[j + 1] /\ 1 < j + 1
    <3>1. j + 1 \in GoodAt(w) /\ t[j] = w[j + 1] /\ j \in Nat
      BY <1>1
    <3>2. j # 0
      BY DEF GoodAt, t
    <3>. QED BY <3>1, <3>2
  <2>2. CASE i \in DOMAIN d
    BY <1>4, <1>5, <1>3, <2>1, <2>2
  <2>3. CASE i \notin DOMAIN d
    BY <1>1, <1>4, <1>5, <2>1, <2>3
  <2>. QED BY <2>2, <2>3
<1>10. \A i \in DOMAIN x : \E k \in GoodAt(a) : a[k].chunk = x[i]
  BY <1>1, <1>4, <1>5
<1>11. ASSUME NEW i \in GoodAt(t)
       PROVE  \E k \in GoodAt(a) : a[k].chunk = t[i].chunk
  <2>1. i + 1 \in GoodAt(w) /\ t[i] = w[i + 1]
    BY <1>1
  <2>. QED BY <1>4, <2>1
<1>12. ASSUME NEW k \in GoodAt(a)
       PROVE  \/ \E i \in DOMAIN x : x[i] = a[k].chunk
              \/ \E i \in GoodAt(t) : t[i].chunk = a[k].chunk
  <2>1. CASE \E i \in DOMAIN d : d[i] = a[k].chunk
    BY <1>3, <2>1
  <2>2. ASSUME NEW i \in GoodAt(w), w[i].chunk = a[k].chunk
        PROVE  \/ \E j \in DOMAIN x : x[j] = a[k].chunk
               \/ \E j \in GoodAt(t) : t[j].chunk = a[k].chunk
    <3>1. CASE i = 1
      <4>1. Len(d) + 1 \in DOMAIN x /\ x[Len(d) + 1] = a[k].chunk
        BY <1>1, <1>3, <2>2, <3>1
      <4>. QED BY <4>1
    <3>2. CASE i # 1
      <4>1. i - 1 \in GoodAt(t) /\ t[i - 1] = w[(i - 1) + 1] /\ (i - 1) + 1 = i
        BY <1>1, <3>2
      <4>. QED BY <2>2, <4>1
    <3>. QED BY <3>1, <3>2
  <2>. QED BY <1>4, <2>1, <2>2
<1>. QED BY <1>4, <1>6, <1>7, <1>8, <1>9, <1>10, <1>11, <1>12, ReceivedIs DEF x, t, e

\* The frame at the head shows nothing.
LEMMA HeadDropped ==
  ASSUME NEW d, NEW w \in Seq(Frames), NEW a, NEW n \in Nat,
         Received(d, w, a, n), w # <<>>, ~Good(Head(w))
  PROVE  Received(d, Tail(w), a, n)
<1>. DEFINE t == Tail(w)
<1>1. /\ \A i \in GoodAt(t) : i \in Nat /\ i + 1 \in GoodAt(w) /\ t[i] = w[i + 1]
      /\ \A i \in GoodAt(w) : i > 1 /\ i - 1 \in GoodAt(t)
      /\ \A i \in GoodAt(w) : i \in Nat
  BY GoodTail
<1>. HIDE DEF t
<1>2. {t[i].chunk : i \in GoodAt(t)} = {w[i].chunk : i \in GoodAt(w)}
  <2>1. \A i \in GoodAt(w) : t[i - 1] = w[i]
    <3>1. \A i \in GoodAt(w) : (i - 1) + 1 = i /\ t[i - 1] = w[(i - 1) + 1]
      BY <1>1
    <3>. QED BY <3>1
  <2>2. \A i \in GoodAt(w) : \E j \in GoodAt(t) : t[j].chunk = w[i].chunk
    BY <1>1, <2>1
  <2>3. \A i \in GoodAt(t) : \E j \in GoodAt(w) : w[j].chunk = t[i].chunk
    BY <1>1
  <2>. QED BY <2>2, <2>3
<1>3. /\ \A i, j \in GoodAt(t) : i < j => t[i].chunk < t[j].chunk
      /\ \A i \in GoodAt(t) : t[i].chunk < n
      /\ \A i \in DOMAIN d : \A j \in GoodAt(t) : d[i] < t[j].chunk
  <2>1. ASSUME NEW i \in GoodAt(t), NEW j \in GoodAt(t), i < j
        PROVE  t[i].chunk < t[j].chunk
    <3>1. /\ i + 1 \in GoodAt(w) /\ j + 1 \in GoodAt(w) /\ i + 1 < j + 1
          /\ t[i] = w[i + 1] /\ t[j] = w[j + 1]
      BY <1>1, <2>1
    <3>. QED BY <3>1 DEF Received
  <2>2. \A i \in GoodAt(t) : t[i].chunk < n
    BY <1>1 DEF Received
  <2>3. \A i \in DOMAIN d : \A j \in GoodAt(t) : d[i] < t[j].chunk
    BY <1>1 DEF Received
  <2>. QED BY <2>1, <2>2, <2>3
<1>. QED BY <1>2, <1>3 DEF Received, t

\* The frame the relay adds: the next chunk, which authenticates or will not, or no output.
LEMMA RelayOutput ==
  ASSUME TypeOK, NEW c \in Conns, NEW m \in Frames, RelaySays(c, m)
  PROVE  /\ \/ Good(m) /\ m.chunk = next[c] /\ next' = [next EXCEPT ![c] = @ + 1]
            \/ ~Good(m) /\ (next' = next \/ next' = [next EXCEPT ![c] = @ + 1])
         /\ link.key = "none" /\ m.type = "DATA" => m.ok
         /\ Good(m) => m.type = "DATA"
<1>1. CASE m.type # "DATA"
  <2>1. next' = next \/ next' = [next EXCEPT ![c] = @ + 1]
    BY DEF RelaySays
  <2>. QED BY <1>1, <2>1 DEF Good
<1>2. CASE m.type = "DATA"
  <2>1. \A t \in {"ERROR", "RESIZE", "PING", "CLOSE", "GARBAGE"} : m # Control(t)
    BY <1>2 DEF Control
  <2>2. \A r, e : m # Ack(r, e)
    BY <1>2 DEF Ack
  <2>3. /\ \E ok \in IF "corrupt" \in Faults /\ link.key # "none" THEN BOOLEAN ELSE {TRUE} :
              m = Data(next[c], ok)
        /\ next' = [next EXCEPT ![c] = @ + 1]
    BY <2>1, <2>2 DEF RelaySays
  <2>4. PICK ok \in BOOLEAN : m = Data(next[c], ok) /\ (link.key = "none" => ok = TRUE)
    BY <2>3
  <2>5. m.chunk = next[c] /\ m.ok = ok
    BY <2>4 DEF Data
  <2>. QED BY <1>2, <2>3, <2>4, <2>5 DEF Good
<1>. QED BY <1>1, <1>2

\* What a step does to the output of one connection.
Quiets(d) ==
  UNCHANGED <<drawn[d], inbound[d], arrived[d], next[d]>>

Joins(d) ==
  \E f \in Frames :
    /\ inbound'[d] = Append(inbound[d], f) /\ drawn'[d] = drawn[d]
    /\ \/ Good(f) /\ f.chunk = next[d] /\ arrived'[d] = Append(arrived[d], f) /\ next'[d] = next[d] + 1
       \/ /\ ~Good(f) /\ arrived'[d] \in {arrived[d], Append(arrived[d], f)}
          /\ next'[d] \in {next[d], next[d] + 1}
    /\ link.key = "none" /\ f.type = "DATA" => f.ok

Leaves(d) ==
  /\ inbound[d] # <<>> /\ inbound'[d] = Tail(inbound[d])
  /\ UNCHANGED <<arrived[d], next[d]>>
  /\ \/ Good(Head(inbound[d])) /\ drawn'[d] = Append(drawn[d], Head(inbound[d]).chunk)
     \/ ~Good(Head(inbound[d])) /\ drawn'[d] = drawn[d]

LEMMA OutputEffect ==
  ASSUME TypeOK, Output, Next
  PROVE  /\ link' = link
         /\ arrived' \in [Conns -> Seq(Frames)]
         /\ \A d \in Conns : Quiets(d) \/ Joins(d) \/ Leaves(d)
<1>a. /\ inbound \in [Conns -> Seq(Frames)] /\ arrived \in [Conns -> Seq(Frames)]
      /\ drawn \in [Conns -> Seq(1..MaxOutput)] /\ next \in [Conns -> 1..(MaxOutput + 1)]
  BY DEF TypeOK, Output
<1>b. ASSUME UNCHANGED <<inbound, arrived, drawn, next, link>>
      PROVE  /\ link' = link
             /\ arrived' \in [Conns -> Seq(Frames)]
             /\ \A d \in Conns : Quiets(d) \/ Joins(d) \/ Leaves(d)
  BY <1>a, <1>b DEF Quiets
<1>1. CASE Page
  BY <1>1, <1>b DEF Page, LoadPage, Reconnect, Connect, Type, relayVars
<1>2. ASSUME NEW c \in Conns, Network(c) \/ SocketOpens(c) \/ SocketEnds(c) \/ Sealed(c)
      PROVE  UNCHANGED <<inbound, arrived, drawn, next, link>>
  BY <1>2 DEF Network, RelayHangsUp, ConnectionLost, SocketOpens, SocketEnds, Sealed,
     tunnelVars, relayVars, logVars
<1>3. ASSUME NEW c \in Conns, Arrives(c)
      PROVE  /\ link' = link
             /\ arrived' \in [Conns -> Seq(Frames)]
             /\ \A d \in Conns : Quiets(d) \/ Joins(d) \/ Leaves(d)
  <2>1. UNCHANGED <<link, drawn>>
    BY <1>3 DEF Arrives
  <2>2. CASE /\ RelaySays(c, Control("GARBAGE")) /\ UNCHANGED <<inbound, arrived>>
    <3>1. UNCHANGED next
      BY <2>2 DEF RelaySays, Control, Data, Ack
    <3>. QED BY <1>b, <2>1, <2>2, <3>1
  <2>3. ASSUME NEW m \in Frames, RelaySays(c, m),
               inbound' = [inbound EXCEPT ![c] = Append(@, m)],
               arrived' = IF m.type \in {"DATA", "CLOSE"}
                          THEN [arrived EXCEPT ![c] = Append(@, m)] ELSE arrived
        PROVE  /\ link' = link
               /\ arrived' \in [Conns -> Seq(Frames)]
               /\ \A d \in Conns : Quiets(d) \/ Joins(d) \/ Leaves(d)
    <3>1. [arrived EXCEPT ![c] = Append(@, m)] \in [Conns -> Seq(Frames)]
      BY <1>a, AppendAt
    <3>2. /\ \/ Good(m) /\ m.chunk = next[c] /\ next' = [next EXCEPT ![c] = @ + 1]
             \/ ~Good(m) /\ (next' = next \/ next' = [next EXCEPT ![c] = @ + 1])
          /\ link.key = "none" /\ m.type = "DATA" => m.ok
          /\ Good(m) => m.type = "DATA"
      BY <2>3, RelayOutput
    <3>3. \A d \in Conns : d # c => Quiets(d)
      BY <1>a, <2>1, <2>3, <3>2 DEF Quiets
    <3>4. /\ inbound'[c] = Append(inbound[c], m) /\ drawn'[c] = drawn[c]
          /\ arrived'[c] = IF m.type \in {"DATA", "CLOSE"} THEN Append(arrived[c], m)
                           ELSE arrived[c]
      BY <1>a, <2>1, <2>3
    <3>5. \/ Good(m) /\ m.chunk = next[c] /\ next'[c] = next[c] + 1
          \/ ~Good(m) /\ next'[c] \in {next[c], next[c] + 1}
      BY <1>a, <3>2
    <3>6. Joins(c)
      BY <3>2, <3>4, <3>5 DEF Joins
    <3>. QED BY <1>a, <2>1, <2>3, <3>1, <3>3, <3>6
  <2>. QED BY <1>3, <2>2, <2>3 DEF Arrives
<1>4. ASSUME NEW c \in Conns, Chain(c), ~Sealed(c)
      PROVE  /\ link' = link
             /\ arrived' \in [Conns -> Seq(Frames)]
             /\ \A d \in Conns : Quiets(d) \/ Joins(d) \/ Leaves(d)
  <2>1. /\ inbound[c] # <<>> /\ Handled(c) /\ UNCHANGED <<link, arrived, next>>
    <3>1. UNCHANGED <<arrived, next>>
      BY <1>4 DEF Chain, HandleOpen, HandleData, HandleControl, HandleClose, HandleError,
         Decrypted, relayVars
    <3>. QED BY <1>4, <3>1, ChainEffect
  <2>2. inbound'[c] = Tail(inbound[c]) /\ \A d \in Conns : d # c => inbound'[d] = inbound[d]
    BY <1>a, <2>1 DEF Handled
  <2>3. \/ Good(Head(inbound[c])) /\ Draw(c, Head(inbound[c]).chunk)
        \/ ~Good(Head(inbound[c])) /\ UNCHANGED drawn
    <3>1. CASE HandleData(c)
      <4>1. link.key = "none" /\ Head(inbound[c]).type = "DATA"
        BY <3>1 DEF HandleData, Turn, Runnable, Decrypting
      <4>2. inbound[c] \in Seq(Frames)
        BY <1>a
      <4>3. Head(inbound[c]) = inbound[c][1] /\ 1 \in DOMAIN inbound[c]
        BY <2>1, <4>2, TailElements
      <4>. QED BY <3>1, <4>1, <4>3 DEF HandleData, Output, Good
    <3>2. CASE Decrypted(c)
      BY <3>2 DEF Decrypted, Decrypting, Good
    <3>3. CASE HandleOpen(c) \/ HandleControl(c) \/ HandleClose(c) \/ HandleError(c)
      BY <3>3 DEF HandleOpen, HandleControl, HandleClose, HandleError, Turn, Good
    <3>. QED BY <1>4, <3>1, <3>2, <3>3 DEF Chain
  <2>4. \A d \in Conns : d # c => drawn'[d] = drawn[d]
    BY <1>a, <2>3 DEF Draw
  <2>5. \/ Good(Head(inbound[c])) /\ drawn'[c] = Append(drawn[c], Head(inbound[c]).chunk)
        \/ ~Good(Head(inbound[c])) /\ drawn'[c] = drawn[c]
    BY <1>a, <2>3 DEF Draw
  <2>6. Leaves(c)
    BY <2>1, <2>2, <2>5 DEF Leaves
  <2>7. \A d \in Conns : d # c => Quiets(d)
    BY <2>1, <2>2, <2>4 DEF Quiets
  <2>. QED BY <1>a, <2>1, <2>6, <2>7
<1>. QED BY <1>1, <1>2, <1>3, <1>4, <1>b DEF Next, Chain, Socket

\* The output a connection was given stays the output it has drawn or has on its chain.
LEMMA OutputNext ==
  ASSUME TypeOK, Output, DrawnAsReceived, Next
  PROVE  Output' /\ DrawnAsReceived'
<1>1. /\ link' = link /\ arrived' \in [Conns -> Seq(Frames)]
      /\ \A d \in Conns : Quiets(d) \/ Joins(d) \/ Leaves(d)
  BY OutputEffect
<1>2. ASSUME NEW d \in Conns
      PROVE  /\ Received(drawn'[d], inbound'[d], arrived'[d], next'[d])
             /\ link.key = "none" => \A i \in DOMAIN inbound'[d] :
                                       inbound'[d][i].type = "DATA" => inbound'[d][i].ok
  <2>1. /\ inbound[d] \in Seq(Frames) /\ arrived[d] \in Seq(Frames)
        /\ drawn[d] \in Seq(1..MaxOutput) /\ next[d] \in Nat
        /\ \A i \in DOMAIN drawn[d] : drawn[d][i] \in Nat
    <3>1. /\ inbound[d] \in Seq(Frames) /\ arrived[d] \in Seq(Frames)
          /\ drawn[d] \in Seq(1..MaxOutput) /\ next[d] \in 1..(MaxOutput + 1)
      BY DEF TypeOK, Output
    <3>2. next[d] \in Nat
      BY <3>1
    <3>3. \A i \in DOMAIN drawn[d] : drawn[d][i] \in 1..MaxOutput
      <4>. DEFINE S == 1..MaxOutput
      <4>1. drawn[d] \in Seq(S)
        BY <3>1
      <4>. HIDE DEF S
      <4>2. \A i \in DOMAIN drawn[d] : drawn[d][i] \in S
        BY <4>1
      <4>. QED BY <4>2 DEF S
    <3>4. \A i \in DOMAIN drawn[d] : drawn[d][i] \in Nat
      BY <3>3
    <3>. QED BY <3>1, <3>2, <3>4
  <2>2. Received(drawn[d], inbound[d], arrived[d], next[d])
    BY DEF Received, Output, DrawnAsReceived
  <2>3. link.key = "none" => \A i \in DOMAIN inbound[d] :
                               inbound[d][i].type = "DATA" => inbound[d][i].ok
    BY DEF Output
  <2>4. CASE Quiets(d)
    BY <2>2, <2>3, <2>4 DEF Quiets
  <2>5. CASE Joins(d)
    <3>1. PICK f \in Frames :
            /\ inbound'[d] = Append(inbound[d], f) /\ drawn'[d] = drawn[d]
            /\ \/ /\ Good(f) /\ f.chunk = next[d] /\ arrived'[d] = Append(arrived[d], f)
                  /\ next'[d] = next[d] + 1
               \/ /\ ~Good(f) /\ arrived'[d] \in {arrived[d], Append(arrived[d], f)}
                  /\ next'[d] \in {next[d], next[d] + 1}
            /\ link.key = "none" /\ f.type = "DATA" => f.ok
      BY <2>5 DEF Joins
    <3>2. \A i \in DOMAIN Append(inbound[d], f) :
            \/ i \in DOMAIN inbound[d] /\ Append(inbound[d], f)[i] = inbound[d][i]
            \/ Append(inbound[d], f)[i] = f
      BY <2>1, AppendElements
    <3>3. link.key = "none" => \A i \in DOMAIN inbound'[d] :
                                 inbound'[d][i].type = "DATA" => inbound'[d][i].ok
      BY <2>3, <3>1, <3>2
    <3>4. CASE /\ Good(f) /\ f.chunk = next[d] /\ arrived'[d] = Append(arrived[d], f)
               /\ next'[d] = next[d] + 1
      <4>1. Received(drawn[d], Append(inbound[d], f), Append(arrived[d], f), next[d] + 1)
        BY <2>1, <2>2, <3>4, GoodArrives
      <4>. QED BY <3>1, <3>3, <3>4, <4>1
    <3>5. CASE /\ ~Good(f) /\ arrived'[d] \in {arrived[d], Append(arrived[d], f)}
               /\ next'[d] \in {next[d], next[d] + 1}
      <4>1. Received(drawn[d], Append(inbound[d], f), arrived'[d], next'[d])
        BY <2>1, <2>2, <3>5, OtherArrives
      <4>. QED BY <3>1, <3>3, <4>1
    <3>. QED BY <3>1, <3>4, <3>5
  <2>6. CASE Leaves(d)
    <3>1. \A i \in DOMAIN Tail(inbound[d]) :
            i + 1 \in DOMAIN inbound[d] /\ Tail(inbound[d])[i] = inbound[d][i + 1]
      BY <2>1, <2>6, TailElements DEF Leaves
    <3>2. inbound'[d] = Tail(inbound[d])
      BY <2>6 DEF Leaves
    <3>3. link.key = "none" => \A i \in DOMAIN inbound'[d] :
                                 inbound'[d][i].type = "DATA" => inbound'[d][i].ok
      BY <2>3, <3>1, <3>2
    <3>4. Received(drawn'[d], inbound'[d], arrived'[d], next'[d])
      BY <2>1, <2>2, <2>6, HeadDrawn, HeadDropped DEF Leaves
    <3>. QED BY <3>3, <3>4
  <2>. QED BY <1>1, <2>4, <2>5, <2>6
<1>3. Output'
  BY <1>1, <1>2 DEF Output, Received
<1>4. DrawnAsReceived'
  BY <1>2 DEF DrawnAsReceived, Received
<1>. QED BY <1>3, <1>4

-----------------------------------------------------------------------------
(* Keys: out was sent, took was accepted, wait is being sealed, n keys were   *)
(* typed, and live says that the socket may still carry them.                 *)

Kept(out, took, wait, n, live) ==
  /\ Rising(took) /\ \A k \in DOMAIN took : took[k] <= n
  /\ \A i, j \in KeyAt(out) : i < j => out[i].key < out[j].key
  /\ \A i \in KeyAt(out) : \E k \in DOMAIN took : took[k] = out[i].key
  /\ \A i \in KeyAt(out) : \A k \in DOMAIN took :
       took[k] < out[i].key => \E j \in KeyAt(out) : out[j].key = took[k]
  /\ Rising(wait)
  /\ \A i \in KeyAt(out) : \A j \in DOMAIN wait : out[i].key < wait[j]
  /\ \A j \in DOMAIN wait : \E k \in DOMAIN took : took[k] = wait[j]
  /\ live => \A k \in DOMAIN took : \/ \E i \in KeyAt(out) : out[i].key = took[k]
                                    \/ \E j \in DOMAIN wait : wait[j] = took[k]

\* Numbers with one more at the end, and without the first.
LEMMA NumberAppended ==
  ASSUME NEW M \in Nat, NEW s \in Seq(1..M), NEW e \in 1..M
  PROVE  /\ Append(s, e) \in Seq(1..M) /\ Len(s) \in Nat
         /\ \A i \in DOMAIN s : i \in 1..Len(s) /\ s[i] \in 1..M
                                  /\ i \in DOMAIN Append(s, e) /\ Append(s, e)[i] = s[i]
         /\ Len(s) + 1 \in DOMAIN Append(s, e) /\ Append(s, e)[Len(s) + 1] = e
         /\ \A i \in DOMAIN Append(s, e) : i \in DOMAIN s \/ i = Len(s) + 1
<1>. DEFINE S == 1..M
            a == Append(s, e)
<1>1. s \in Seq(S) /\ e \in S
  OBVIOUS
<1>. HIDE DEF S
<1>2. /\ a \in Seq(S) /\ Len(s) \in Nat /\ DOMAIN s = 1..Len(s) /\ DOMAIN a = 1..(Len(s) + 1)
      /\ \A i \in 1..Len(s) : s[i] \in S /\ a[i] = s[i]
      /\ a[Len(s) + 1] = e
  BY <1>1
<1>. HIDE DEF a
<1>. QED BY <1>2 DEF S, a

LEMMA NumberTail ==
  ASSUME NEW M \in Nat, NEW s \in Seq(1..M), s # <<>>
  PROVE  /\ Tail(s) \in Seq(1..M) /\ Head(s) \in 1..M
         /\ Head(s) = s[1] /\ 1 \in DOMAIN s
         /\ \A i \in DOMAIN s : s[i] \in 1..M /\ i \in Nat
         /\ \A i \in DOMAIN Tail(s) : /\ i \in Nat /\ i > 0 /\ i + 1 \in DOMAIN s
                                      /\ Tail(s)[i] = s[i + 1]
         /\ \A i \in DOMAIN s : i = 1 \/ (i > 1 /\ i - 1 \in DOMAIN Tail(s))
<1>. DEFINE S == 1..M
            t == Tail(s)
<1>1. s \in Seq(S) /\ s # <<>>
  OBVIOUS
<1>. HIDE DEF S
<1>2. /\ t \in Seq(S) /\ Len(s) \in Nat \ {0} /\ DOMAIN s = 1..Len(s)
      /\ DOMAIN t = 1..(Len(s) - 1)
      /\ \A i \in 1..Len(s) : s[i] \in S
      /\ \A i \in 1..(Len(s) - 1) : t[i] = s[i + 1]
      /\ Head(s) = s[1] /\ Head(s) \in S
  BY <1>1
<1>. HIDE DEF t
<1>. QED BY <1>2 DEF S, t

\* What was sent, with one message more.
LEMMA MessageAppended ==
  ASSUME NEW out \in Seq(Sent), NEW m \in Sent
  PROVE  /\ Len(out) \in Nat
         /\ \A i \in KeyAt(out) : /\ i \in 1..Len(out) /\ i \in KeyAt(Append(out, m))
                                  /\ Append(out, m)[i] = out[i]
                                  /\ out[i].key \in 1..MaxKeys
         /\ \A i \in KeyAt(Append(out, m)) :
              i \in KeyAt(out) \/ (i = Len(out) + 1 /\ m.type = "DATA")
         /\ m.type = "DATA" => Len(out) + 1 \in KeyAt(Append(out, m))
         /\ Append(out, m)[Len(out) + 1] = m
<1>. DEFINE a == Append(out, m)
            S == Sent
<1>1. /\ Len(out) \in Nat /\ DOMAIN out = 1..Len(out) /\ DOMAIN a = 1..(Len(out) + 1)
      /\ \A i \in 1..Len(out) : out[i] \in S /\ a[i] = out[i]
      /\ a[Len(out) + 1] = m
  <2>1. out \in Seq(S)
    OBVIOUS
  <2>. HIDE DEF S
  <2>. QED BY <2>1
<1>2. \A x \in Sent : x.type = "DATA" => x.key \in 1..MaxKeys
  BY DEF Sent
<1>. HIDE DEF a
<1>. QED BY <1>1, <1>2 DEF KeyAt, a

\* A message that is not a key, or none; time passes, the socket may close.
LEMMA KeptAside ==
  ASSUME NEW out \in Seq(Sent), NEW took \in Seq(1..MaxKeys), NEW wait, NEW n \in Nat,
         NEW live \in BOOLEAN, Kept(out, took, wait, n, live),
         NEW m \in Sent, m.type # "DATA", NEW out1, out1 = out \/ out1 = Append(out, m),
         NEW n1 \in {n, n + 1}, NEW live1 \in BOOLEAN, live1 => live \/ took = <<>>
  PROVE  Kept(out1, took, wait, n1, live1)
<1>1. KeyAt(out1) = KeyAt(out) /\ \A i \in KeyAt(out) : out1[i] = out[i]
  <2>1. CASE out1 = Append(out, m)
    <3>1. /\ \A i \in KeyAt(out) : i \in KeyAt(out1) /\ out1[i] = out[i]
          /\ \A i \in KeyAt(out1) : i \in KeyAt(out)
      BY <2>1, MessageAppended
    <3>. QED BY <3>1
  <2>. QED BY <2>1
<1>2. took = <<>> => DOMAIN took = {}
  OBVIOUS
<1>3. live1 => \A k \in DOMAIN took : \/ \E i \in KeyAt(out) : out[i].key = took[k]
                                      \/ \E j \in DOMAIN wait : wait[j] = took[k]
  BY <1>2 DEF Kept
<1>4. \A i \in KeyAt(out1) : i \in KeyAt(out) /\ out1[i] = out[i]
  BY <1>1
<1>5. \A i \in KeyAt(out) : i \in KeyAt(out1) /\ out1[i] = out[i]
  BY <1>1
<1>. HIDE <1>1
<1>6. /\ \A i, j \in KeyAt(out1) : i < j => out1[i].key < out1[j].key
      /\ \A i \in KeyAt(out1) : \E k \in DOMAIN took : took[k] = out1[i].key
      /\ \A i \in KeyAt(out1) : \A j \in DOMAIN wait : out1[i].key < wait[j]
  <2>1. /\ \A i, j \in KeyAt(out) : i < j => out[i].key < out[j].key
        /\ \A i \in KeyAt(out) : \E k \in DOMAIN took : took[k] = out[i].key
        /\ \A i \in KeyAt(out) : \A j \in DOMAIN wait : out[i].key < wait[j]
    BY DEF Kept
  <2>. QED BY <1>4, <2>1
<1>7. ASSUME NEW i \in KeyAt(out1), NEW k \in DOMAIN took, took[k] < out1[i].key
      PROVE  \E j \in KeyAt(out1) : out1[j].key = took[k]
  <2>1. PICK j \in KeyAt(out) : out[j].key = took[k]
    BY <1>4, <1>7 DEF Kept
  <2>. QED BY <1>5, <2>1
<1>8. live1 => \A k \in DOMAIN took : \/ \E i \in KeyAt(out1) : out1[i].key = took[k]
                                      \/ \E j \in DOMAIN wait : wait[j] = took[k]
  <2>1. ASSUME live1, NEW k \in DOMAIN took
        PROVE  \/ \E i \in KeyAt(out1) : out1[i].key = took[k]
               \/ \E j \in DOMAIN wait : wait[j] = took[k]
    <3>1. CASE \E i \in KeyAt(out) : out[i].key = took[k]
      BY <1>5, <3>1
    <3>. QED BY <1>3, <2>1, <3>1
  <2>. QED BY <2>1
<1>9. \A k \in DOMAIN took : took[k] <= n1
  <2>1. \A k \in DOMAIN took : took[k] \in 1..MaxKeys
    <3>. DEFINE S == 1..MaxKeys
    <3>1. took \in Seq(S)
      OBVIOUS
    <3>. HIDE DEF S
    <3>2. \A k \in DOMAIN took : took[k] \in S
      BY <3>1
    <3>. QED BY <3>2 DEF S
  <2>2. \A k \in DOMAIN took : took[k] <= n /\ took[k] \in Nat
    BY <2>1 DEF Kept
  <2>. QED BY <2>2
<1>. QED BY <1>6, <1>7, <1>8, <1>9 DEF Kept

\* The key n + 1 is accepted and joins the keys that are sealed.
LEMMA KeptSealing ==
  ASSUME NEW out \in Seq(Sent), NEW took \in Seq(1..MaxKeys), NEW wait \in Seq(1..MaxKeys),
         NEW n \in Nat, n + 1 \in 1..MaxKeys, NEW live \in BOOLEAN,
         Kept(out, took, wait, n, live)
  PROVE  Kept(out, Append(took, n + 1), Append(wait, n + 1), n + 1, live)
<1>. DEFINE e == n + 1
            t == Append(took, e)
            w == Append(wait, e)
<1>1. /\ Len(took) \in Nat
      /\ \A i \in DOMAIN took : /\ i \in 1..Len(took) /\ took[i] \in 1..MaxKeys
                                /\ i \in DOMAIN t /\ t[i] = took[i]
      /\ Len(took) + 1 \in DOMAIN t /\ t[Len(took) + 1] = e
      /\ \A i \in DOMAIN t : i \in DOMAIN took \/ i = Len(took) + 1
  BY NumberAppended, TunnelAssumption
<1>2. /\ Len(wait) \in Nat
      /\ \A i \in DOMAIN wait : /\ i \in 1..Len(wait) /\ wait[i] \in 1..MaxKeys
                                /\ i \in DOMAIN w /\ w[i] = wait[i]
      /\ Len(wait) + 1 \in DOMAIN w /\ w[Len(wait) + 1] = e
      /\ \A i \in DOMAIN w : i \in DOMAIN wait \/ i = Len(wait) + 1
  BY NumberAppended, TunnelAssumption
<1>3. \A i \in KeyAt(out) : out[i].key \in 1..MaxKeys
  <2>1. Control("OPEN") \in Sent
    BY DEF Sent, Control
  <2>. QED BY <2>1, MessageAppended
<1>. HIDE DEF t, w
<1>4. \A k \in DOMAIN took : took[k] < e
  BY <1>1 DEF Kept
<1>5. \A i \in DOMAIN wait : wait[i] < e
  BY <1>2, <1>4 DEF Kept
<1>6. \A i \in KeyAt(out) : out[i].key < e
  BY <1>3, <1>4 DEF Kept
<1>7. Rising(t)
  <2>1. ASSUME NEW i \in DOMAIN t, NEW j \in DOMAIN t, i < j
        PROVE  t[i] < t[j]
    <3>1. i \in DOMAIN took
      BY <1>1, <2>1
    <3>2. CASE j \in DOMAIN took
      BY <1>1, <2>1, <3>1, <3>2 DEF Kept, Rising
    <3>3. CASE j = Len(took) + 1
      BY <1>1, <1>4, <3>1, <3>3
    <3>. QED BY <1>1, <3>2, <3>3
  <2>. QED BY <2>1 DEF Rising
<1>8. Rising(w)
  <2>1. ASSUME NEW i \in DOMAIN w, NEW j \in DOMAIN w, i < j
        PROVE  w[i] < w[j]
    <3>1. i \in DOMAIN wait
      BY <1>2, <2>1
    <3>2. CASE j \in DOMAIN wait
      BY <1>2, <2>1, <3>1, <3>2 DEF Kept, Rising
    <3>3. CASE j = Len(wait) + 1
      BY <1>2, <1>5, <3>1, <3>3
    <3>. QED BY <1>2, <3>2, <3>3
  <2>. QED BY <2>1 DEF Rising
<1>9. /\ \A k \in DOMAIN t : t[k] <= e
      /\ \A i, j \in KeyAt(out) : i < j => out[i].key < out[j].key
      /\ \A i \in KeyAt(out) : \E k \in DOMAIN t : t[k] = out[i].key
  <2>1. \A k \in DOMAIN t : t[k] <= e
    BY <1>1, <1>4
  <2>2. \A i \in KeyAt(out) : \E k \in DOMAIN t : t[k] = out[i].key
    BY <1>1 DEF Kept
  <2>. QED BY <2>1, <2>2 DEF Kept
<1>10. ASSUME NEW i \in KeyAt(out), NEW k \in DOMAIN t, t[k] < out[i].key
       PROVE  \E j \in KeyAt(out) : out[j].key = t[k]
  <2>1. k \in DOMAIN took
    BY <1>1, <1>3, <1>6, <1>10
  <2>2. t[k] = took[k] /\ took[k] < out[i].key
    BY <1>1, <1>10, <2>1
  <2>. QED BY <2>1, <2>2 DEF Kept
<1>11. \A i \in KeyAt(out) : \A j \in DOMAIN w : out[i].key < w[j]
  BY <1>2, <1>6 DEF Kept
<1>12. \A j \in DOMAIN w : \E k \in DOMAIN t : t[k] = w[j]
  <2>1. \A j \in DOMAIN wait : \E k \in DOMAIN took : took[k] = wait[j]
    BY DEF Kept
  <2>. QED BY <1>1, <1>2, <2>1
<1>13. ASSUME live, NEW k \in DOMAIN t
       PROVE  \/ \E i \in KeyAt(out) : out[i].key = t[k]
              \/ \E j \in DOMAIN w : w[j] = t[k]
  <2>1. CASE k \in DOMAIN took
    <3>1. \/ \E i \in KeyAt(out) : out[i].key = took[k]
          \/ \E j \in DOMAIN wait : wait[j] = took[k]
      BY <1>13, <2>1 DEF Kept
    <3>. QED BY <1>1, <1>2, <2>1, <3>1
  <2>2. CASE k = Len(took) + 1
    BY <1>1, <1>2, <2>2
  <2>. QED BY <1>1, <1>13, <2>1, <2>2
<1>. QED BY <1>7, <1>8, <1>9, <1>10, <1>11, <1>12, <1>13 DEF Kept, t, w

\* The key n + 1 is accepted, and goes nowhere.
LEMMA KeptUnsent ==
  ASSUME NEW out \in Seq(Sent), NEW took \in Seq(1..MaxKeys), NEW wait \in Seq(1..MaxKeys),
         NEW n \in Nat, n + 1 \in 1..MaxKeys, NEW live,
         Kept(out, took, wait, n, live)
  PROVE  Kept(out, Append(took, n + 1), wait, n + 1, FALSE)
<1>. DEFINE e == n + 1
            t == Append(took, e)
<1>1. /\ Len(took) \in Nat
      /\ \A i \in DOMAIN took : /\ i \in 1..Len(took) /\ took[i] \in 1..MaxKeys
                                /\ i \in DOMAIN t /\ t[i] = took[i]
      /\ Len(took) + 1 \in DOMAIN t /\ t[Len(took) + 1] = e
      /\ \A i \in DOMAIN t : i \in DOMAIN took \/ i = Len(took) + 1
  BY NumberAppended, TunnelAssumption
<1>. HIDE DEF t
<1>4. \A k \in DOMAIN took : took[k] < e
  BY <1>1 DEF Kept
<1>6. \A i \in KeyAt(out) : out[i].key < e
  BY <1>4 DEF Kept
<1>7. Rising(t)
  <2>1. ASSUME NEW i \in DOMAIN t, NEW j \in DOMAIN t, i < j
        PROVE  t[i] < t[j]
    <3>1. i \in DOMAIN took
      BY <1>1, <2>1
    <3>2. CASE j \in DOMAIN took
      BY <1>1, <2>1, <3>1, <3>2 DEF Kept, Rising
    <3>3. CASE j = Len(took) + 1
      BY <1>1, <1>4, <3>1, <3>3
    <3>. QED BY <1>1, <3>2, <3>3
  <2>. QED BY <2>1 DEF Rising
<1>8. \A k \in DOMAIN t : t[k] <= e
  BY <1>1, <1>4
<1>9. /\ \A i \in KeyAt(out) : \E k \in DOMAIN t : t[k] = out[i].key
      /\ \A j \in DOMAIN wait : \E k \in DOMAIN t : t[k] = wait[j]
  <2>1. /\ \A i \in KeyAt(out) : \E k \in DOMAIN took : took[k] = out[i].key
        /\ \A j \in DOMAIN wait : \E k \in DOMAIN took : took[k] = wait[j]
    BY DEF Kept
  <2>. QED BY <1>1, <2>1
<1>10. ASSUME NEW i \in KeyAt(out), NEW k \in DOMAIN t, t[k] < out[i].key
       PROVE  \E j \in KeyAt(out) : out[j].key = t[k]
  <2>1. out[i].key \in Nat
    BY <1>1 DEF Kept
  <2>2. k \in DOMAIN took
    BY <1>1, <1>6, <1>10, <2>1
  <2>3. t[k] = took[k] /\ took[k] < out[i].key
    BY <1>1, <1>10, <2>2
  <2>. QED BY <2>2, <2>3 DEF Kept
<1>. QED BY <1>7, <1>8, <1>9, <1>10 DEF Kept, t

\* The key n + 1 is accepted and sent, with none waiting.
LEMMA KeptSent ==
  ASSUME NEW out \in Seq(Sent), NEW took \in Seq(1..MaxKeys), NEW n \in Nat,
         n + 1 \in 1..MaxKeys, Kept(out, took, <<>>, n, TRUE)
  PROVE  Kept(Append(out, Key(n + 1)), Append(took, n + 1), <<>>, n + 1, TRUE)
<1>. DEFINE e == n + 1
            t == Append(took, e)
            m == Key(e)
            o == Append(out, m)
<1>1. /\ Len(took) \in Nat
      /\ \A i \in DOMAIN took : /\ i \in 1..Len(took) /\ took[i] \in 1..MaxKeys
                                /\ i \in DOMAIN t /\ t[i] = took[i]
      /\ Len(took) + 1 \in DOMAIN t /\ t[Len(took) + 1] = e
      /\ \A i \in DOMAIN t : i \in DOMAIN took \/ i = Len(took) + 1
  BY NumberAppended, TunnelAssumption
<1>2. m \in Sent /\ m.type = "DATA" /\ m.key = e
  BY DEF Sent, Key
<1>3. /\ Len(out) \in Nat
      /\ \A i \in KeyAt(out) : /\ i \in 1..Len(out) /\ i \in KeyAt(o) /\ o[i] = out[i]
                               /\ out[i].key \in 1..MaxKeys
      /\ \A i \in KeyAt(o) : i \in KeyAt(out) \/ i = Len(out) + 1
      /\ Len(out) + 1 \in KeyAt(o) /\ o[Len(out) + 1].key = e
  <2>. HIDE DEF m
  <2>. QED BY <1>2, MessageAppended
<1>0. Kept(out, Append(took, n + 1), <<>>, n + 1, FALSE)
  <2>1. <<>> \in Seq(1..MaxKeys)
    OBVIOUS
  <2>. QED BY <2>1, KeptUnsent
<1>. HIDE DEF t, m, o
<1>4. \A k \in DOMAIN took : took[k] < e
  BY <1>1 DEF Kept
<1>5. \A i \in KeyAt(out) : out[i].key < e
  BY <1>3, <1>4 DEF Kept
<1>6. DOMAIN <<>> = {}
  OBVIOUS
<1>7. \A k \in DOMAIN t : \E i \in KeyAt(o) : o[i].key = t[k]
  <2>1. ASSUME NEW k \in DOMAIN took
        PROVE  \E i \in KeyAt(o) : o[i].key = took[k]
    <3>1. PICK i \in KeyAt(out) : out[i].key = took[k]
      BY <1>6 DEF Kept
    <3>. QED BY <1>3, <3>1
  <2>. QED BY <1>1, <1>3, <2>1
<1>8. ASSUME NEW i \in KeyAt(o), NEW j \in KeyAt(o), i < j
      PROVE  o[i].key < o[j].key
  <2>1. i \in KeyAt(out) /\ o[i] = out[i]
    BY <1>3, <1>8
  <2>2. CASE j \in KeyAt(out)
    BY <1>3, <1>8, <2>1, <2>2 DEF Kept
  <2>3. CASE j = Len(out) + 1
    BY <1>3, <1>5, <2>1, <2>3
  <2>. QED BY <1>3, <2>2, <2>3
<1>9. \A i \in KeyAt(o) : \E k \in DOMAIN t : t[k] = o[i].key
  BY <1>1, <1>3 DEF Kept
<1>10. Rising(t) /\ Rising(<<>>) /\ \A k \in DOMAIN t : t[k] <= e
  BY <1>0 DEF Kept, t
<1>. QED BY <1>6, <1>7, <1>8, <1>9, <1>10 DEF Kept, t, o, m

\* The key at the head is sealed and sent.
LEMMA KeptSealed ==
  ASSUME NEW out \in Seq(Sent), NEW took \in Seq(1..MaxKeys), NEW wait \in Seq(1..MaxKeys),
         NEW n \in Nat, Kept(out, took, wait, n, TRUE), wait # <<>>
  PROVE  Kept(Append(out, Key(Head(wait))), took, Tail(wait), n, TRUE)
<1>. DEFINE e == Head(wait)
            t == Tail(wait)
            m == Key(e)
            o == Append(out, m)
<1>1. /\ e \in 1..MaxKeys /\ e = wait[1] /\ 1 \in DOMAIN wait
      /\ \A i \in DOMAIN wait : wait[i] \in 1..MaxKeys /\ i \in Nat
      /\ \A i \in DOMAIN t : i \in Nat /\ i > 0 /\ i + 1 \in DOMAIN wait /\ t[i] = wait[i + 1]
      /\ \A i \in DOMAIN wait : i = 1 \/ (i > 1 /\ i - 1 \in DOMAIN t)
  BY NumberTail, TunnelAssumption
<1>2. m \in Sent /\ m.type = "DATA" /\ m.key = e
  BY <1>1 DEF Sent, Key
<1>3. /\ Len(out) \in Nat
      /\ \A i \in KeyAt(out) : /\ i \in 1..Len(out) /\ i \in KeyAt(o) /\ o[i] = out[i]
                               /\ out[i].key \in 1..MaxKeys
      /\ \A i \in KeyAt(o) : i \in KeyAt(out) \/ i = Len(out) + 1
      /\ Len(out) + 1 \in KeyAt(o) /\ o[Len(out) + 1].key = e
  <2>. HIDE DEF m
  <2>. QED BY <1>2, MessageAppended
<1>. HIDE DEF e, t, m, o
<1>4. /\ \A i \in KeyAt(out) : out[i].key < e
      /\ \A j \in DOMAIN t : e < t[j]
  <2>1. \A i \in KeyAt(out) : out[i].key < e
    BY <1>1 DEF Kept
  <2>2. \A j \in DOMAIN t : 1 < j + 1 /\ wait[1] < wait[j + 1]
    BY <1>1 DEF Kept, Rising
  <2>. QED BY <1>1, <2>1, <2>2
<1>5. ASSUME NEW i \in KeyAt(o), NEW j \in KeyAt(o), i < j
      PROVE  o[i].key < o[j].key
  <2>1. i \in KeyAt(out) /\ o[i] = out[i]
    BY <1>3, <1>5
  <2>2. CASE j \in KeyAt(out)
    BY <1>3, <1>5, <2>1, <2>2 DEF Kept
  <2>3. CASE j = Len(out) + 1
    BY <1>3, <1>4, <2>1, <2>3
  <2>. QED BY <1>3, <2>2, <2>3
<1>6. \A i \in KeyAt(o) : \E k \in DOMAIN took : took[k] = o[i].key
  BY <1>1, <1>3 DEF Kept
<1>7. \A k \in DOMAIN took : \/ \E i \in KeyAt(o) : o[i].key = took[k]
                             \/ \E j \in DOMAIN t : t[j] = took[k]
  <2>1. ASSUME NEW k \in DOMAIN took
        PROVE  \/ \E i \in KeyAt(o) : o[i].key = took[k]
               \/ \E j \in DOMAIN t : t[j] = took[k]
    <3>1. CASE \E i \in KeyAt(out) : out[i].key = took[k]
      BY <1>3, <3>1
    <3>2. ASSUME NEW j \in DOMAIN wait, wait[j] = took[k]
          PROVE  \/ \E i \in KeyAt(o) : o[i].key = took[k]
                 \/ \E i \in DOMAIN t : t[i] = took[k]
      <4>1. CASE j = 1
        <5>1. o[Len(out) + 1].key = took[k]
          BY <1>1, <1>3, <3>2, <4>1
        <5>. QED BY <1>3, <5>1
      <4>2. CASE j > 1 /\ j - 1 \in DOMAIN t
        <5>1. t[j - 1] = wait[(j - 1) + 1] /\ (j - 1) + 1 = j
          BY <1>1, <4>2
        <5>. QED BY <3>2, <4>2, <5>1
      <4>. QED BY <1>1, <4>1, <4>2
    <3>. QED BY <3>1, <3>2 DEF Kept
  <2>. QED BY <2>1
<1>8. ASSUME NEW i \in KeyAt(o), NEW k \in DOMAIN took, took[k] < o[i].key
      PROVE  \E j \in KeyAt(o) : o[j].key = took[k]
  <2>1. ASSUME NEW j \in DOMAIN t, t[j] = took[k] PROVE FALSE
    <3>1. o[i].key <= e /\ o[i].key \in Nat /\ e \in Nat
      <4>1. CASE i \in KeyAt(out)
        <5>1. o[i] = out[i] /\ out[i].key \in 1..MaxKeys /\ out[i].key < e /\ e \in 1..MaxKeys
          BY <1>1, <1>3, <1>4, <4>1
        <5>. QED BY <5>1
      <4>2. CASE i = Len(out) + 1
        BY <1>1, <1>3, <4>2
      <4>. QED BY <1>3, <4>1, <4>2
    <3>2. t[j] \in Nat /\ e < t[j]
      BY <1>1, <1>4
    <3>. QED BY <1>8, <2>1, <3>1, <3>2
  <2>. QED BY <1>7, <2>1
<1>9. Rising(t)
  <2>1. ASSUME NEW i \in DOMAIN t, NEW j \in DOMAIN t, i < j
        PROVE  t[i] < t[j]
    <3>1. /\ i + 1 \in DOMAIN wait /\ j + 1 \in DOMAIN wait /\ i + 1 < j + 1
          /\ t[i] = wait[i + 1] /\ t[j] = wait[j + 1]
      BY <1>1, <2>1
    <3>. QED BY <3>1 DEF Kept, Rising
  <2>. QED BY <2>1 DEF Rising
<1>10. ASSUME NEW i \in KeyAt(o), NEW j \in DOMAIN t
       PROVE  o[i].key < t[j]
  <2>1. CASE i \in KeyAt(out)
    <3>1. o[i] = out[i] /\ j + 1 \in DOMAIN wait /\ t[j] = wait[j + 1]
      BY <1>1, <1>3, <2>1
    <3>. QED BY <2>1, <3>1 DEF Kept
  <2>2. CASE i = Len(out) + 1
    BY <1>3, <1>4, <2>2
  <2>. QED BY <1>3, <2>1, <2>2
<1>11. \A j \in DOMAIN t : \E k \in DOMAIN took : took[k] = t[j]
  BY <1>1 DEF Kept
<1>. QED BY <1>5, <1>6, <1>7, <1>8, <1>9, <1>10, <1>11 DEF Kept, t, o, m, e

\* The key at the head is sealed, too late.
LEMMA KeptDropped ==
  ASSUME NEW out, NEW took, NEW wait \in Seq(1..MaxKeys), NEW n, NEW live,
         Kept(out, took, wait, n, live), wait # <<>>
  PROVE  Kept(out, took, Tail(wait), n, FALSE)
<1>. DEFINE t == Tail(wait)
<1>1. \A i \in DOMAIN t : i \in Nat /\ i > 0 /\ i + 1 \in DOMAIN wait /\ t[i] = wait[i + 1]
  BY NumberTail, TunnelAssumption
<1>. HIDE DEF t
<1>2. Rising(t)
  <2>1. ASSUME NEW i \in DOMAIN t, NEW j \in DOMAIN t, i < j
        PROVE  t[i] < t[j]
    <3>1. /\ i + 1 \in DOMAIN wait /\ j + 1 \in DOMAIN wait /\ i + 1 < j + 1
          /\ t[i] = wait[i + 1] /\ t[j] = wait[j + 1]
      BY <1>1, <2>1
    <3>. QED BY <3>1 DEF Kept, Rising
  <2>. QED BY <2>1 DEF Rising
<1>3. /\ \A i \in KeyAt(out) : \A j \in DOMAIN t : out[i].key < t[j]
      /\ \A j \in DOMAIN t : \E k \in DOMAIN took : took[k] = t[j]
  BY <1>1 DEF Kept
<1>. QED BY <1>2, <1>3 DEF Kept, t

\* A socket opens once, and never again becomes one that is not open yet.
LEMMA SocketEffect ==
  ASSUME TypeOK, Sockets, Next, NEW d \in Conns
  PROVE  /\ socket'[d] \in {"none", "connecting"} => socket[d] \in {"none", "connecting"}
         /\ socket'[d] = "open" /\ held'[d] =>
              (socket[d] = "open" /\ held[d]) \/ socket[d] \in {"none", "connecting"}
<1>a. socket \in [Conns -> States] /\ held \in [Conns -> BOOLEAN]
  BY DEF TypeOK, States
<1>1. CASE Connect
  <2>1. current + 1 > current
    <3>1. current \in 0..MaxConns
      BY DEF TypeOK
    <3>. QED BY <3>1
  <2>2. d = current + 1 => socket[d] = "none"
    BY <2>1 DEF Sockets
  <2>. QED BY <1>1, <2>2, ConnectEffect
<1>2. CASE UNCHANGED <<socket, held>>
  BY <1>2
<1>3. ASSUME NEW c \in Conns, CloseSocket(c)
      PROVE  /\ socket'[d] \in {"none", "connecting"} => socket[d] \in {"none", "connecting"}
             /\ socket'[d] = "open" => socket[d] = "open" /\ held[d]
  BY <1>a, <1>3 DEF CloseSocket, Sockets
<1>4. ASSUME NEW c \in Conns, SocketOpens(c)
      PROVE  /\ socket'[d] \in {"none", "connecting"} => socket[d] \in {"none", "connecting"}
             /\ socket'[d] = "open" /\ held'[d] =>
                  (socket[d] = "open" /\ held[d]) \/ socket[d] \in {"none", "connecting"}
  BY <1>a, <1>4 DEF SocketOpens
<1>5. ASSUME NEW c \in Conns, SocketEnds(c)
      PROVE  /\ socket'[d] \in {"none", "connecting"} => socket[d] \in {"none", "connecting"}
             /\ socket'[d] = "open" => socket[d] = "open" /\ held[d]
  <2>1. socket' = [socket EXCEPT ![c] = "closed"]
    BY <1>5 DEF SocketEnds
  <2>. QED BY <1>a, <2>1 DEF Sockets
<1>6. \/ Connect
      \/ UNCHANGED <<socket, held>>
      \/ \E c \in Conns : CloseSocket(c) \/ SocketOpens(c) \/ SocketEnds(c)
  <2>1. CASE Page
    BY <2>1 DEF Page, LoadPage, Reconnect, Type
  <2>2. ASSUME NEW c \in Conns, Chain(c)
        PROVE  UNCHANGED <<socket, held>> \/ CloseSocket(c)
    BY <2>2, ChainEffect
  <2>3. ASSUME NEW c \in Conns, Arrives(c)
        PROVE  UNCHANGED <<socket, held>> \/ CloseSocket(c)
    BY <2>3 DEF Arrives, Fail
  <2>4. ASSUME NEW c \in Conns, Network(c)
        PROVE  UNCHANGED <<socket, held>>
    BY <2>4 DEF Network, RelayHangsUp, ConnectionLost, tunnelVars
  <2>. QED BY <2>1, <2>2, <2>3, <2>4 DEF Next, Socket
<1>. QED BY <1>1, <1>2, <1>3, <1>4, <1>5, <1>6

\* What a step does to the keys of one connection.
Aside(d) ==
  /\ \E m \in Sent : m.type # "DATA" /\ sent'[d] \in {sent[d], Append(sent[d], m)}
  /\ UNCHANGED <<accepted[d], outbound[d]>>

Takes(d) ==
  /\ typed + 1 \in 1..MaxKeys /\ typed' = typed + 1
  /\ held[d] /\ socket[d] = "open"
  /\ accepted'[d] = Append(accepted[d], typed + 1)
  /\ \/ /\ link.key = "root" /\ sent'[d] = sent[d]
        /\ outbound'[d] = Append(outbound[d], typed + 1)
     \/ /\ link.key = "none" /\ sent'[d] = Append(sent[d], Key(typed + 1))
        /\ outbound'[d] = outbound[d]
     \/ /\ link.key = "viewer" /\ UNCHANGED <<sent[d], outbound[d]>>

Seals(d) ==
  /\ outbound[d] # <<>> /\ outbound'[d] = Tail(outbound[d])
  /\ typed' = typed /\ UNCHANGED <<accepted[d], held[d], socket[d]>>
  /\ sent'[d] = IF held[d] /\ socket[d] = "open" THEN Append(sent[d], Key(Head(outbound[d])))
                ELSE sent[d]

LEMMA KeysEffect ==
  ASSUME TypeOK, Typing, Next
  PROVE  /\ link' = link /\ typed' \in {typed, typed + 1}
         /\ accepted' \in [Conns -> Seq(1..MaxKeys)]
         /\ \A d \in Conns : Aside(d) \/ Takes(d) \/ Seals(d)
<1>a. /\ sent \in [Conns -> Seq(Sent)] /\ outbound \in [Conns -> Seq(1..MaxKeys)]
      /\ accepted \in [Conns -> Seq(1..MaxKeys)] /\ link.key \in {"none", "root", "viewer"}
  <2>1. link \in Links
    BY DEF TypeOK
  <2>. QED BY <2>1 DEF TypeOK, Typing, Sent, Links
<1>b. /\ Control("OPEN") \in Sent /\ Control("OPEN").type # "DATA"
      /\ Control("PONG") \in Sent /\ Control("PONG").type # "DATA"
  BY DEF Sent, Control
<1>c. ASSUME NEW c \in Conns, NEW m \in Sent, m.type # "DATA",
             \/ sent' = sent
             \/ Send(c, m)
             \/ sent' = [sent EXCEPT ![c] = Append(@, m)],
             UNCHANGED <<accepted, outbound>>
      PROVE  \A d \in Conns : Aside(d)
  <2>1. \A d \in Conns : sent'[d] \in {sent[d], Append(sent[d], m)}
    BY <1>a, <1>c DEF Send
  <2>. QED BY <1>c, <2>1 DEF Aside
<1>1. CASE Type
  <2>1. /\ current \in Conns /\ typed' = typed + 1 /\ typed + 1 \in 1..MaxKeys /\ link' = link
        /\ UNCHANGED <<held, socket>>
    <3>1. /\ current \in Conns /\ typed' = typed + 1 /\ typed \in Nat /\ typed + 1 <= MaxKeys
          /\ link' = link
      BY <1>1, TypeEffect
    <3>. QED BY <1>1, <3>1, TunnelAssumption DEF Type
  <2>2. [accepted EXCEPT ![current] = Append(@, typed + 1)] \in [Conns -> Seq(1..MaxKeys)]
    BY <1>a, <2>1, AppendAt
  <2>3. accepted' \in [Conns -> Seq(1..MaxKeys)]
    BY <1>1, <1>a, <2>2 DEF Type
  <2>4. ASSUME NEW d \in Conns, d # current
        PROVE  Aside(d)
    <3>1. sent'[d] = sent[d] /\ UNCHANGED <<accepted[d], outbound[d]>>
      BY <1>1, <1>a, <2>1, <2>4 DEF Type, Send
    <3>. QED BY <1>b, <3>1 DEF Aside
  <2>5. CASE ~readOnly[current] /\ held[current] /\ socket[current] = "open"
    <3>1. accepted'[current] = Append(accepted[current], typed + 1)
      BY <1>1, <1>a, <2>1, <2>5 DEF Type
    <3>2. \/ /\ link.key = "root" /\ sent'[current] = sent[current]
             /\ outbound'[current] = Append(outbound[current], typed + 1)
          \/ /\ link.key = "none" /\ sent'[current] = Append(sent[current], Key(typed + 1))
             /\ outbound'[current] = outbound[current]
          \/ /\ link.key = "viewer" /\ UNCHANGED <<sent[current], outbound[current]>>
      BY <1>1, <1>a, <2>1, <2>5 DEF Type, Send
    <3>3. Takes(current)
      BY <2>1, <2>5, <3>1, <3>2 DEF Takes
    <3>. QED BY <2>1, <2>3, <2>4, <3>3
  <2>6. CASE ~(~readOnly[current] /\ held[current] /\ socket[current] = "open")
    <3>1. UNCHANGED <<sent, accepted, outbound>>
      BY <1>1, <2>6 DEF Type
    <3>. QED BY <1>b, <1>c, <2>1, <2>3, <3>1
  <2>. QED BY <2>5, <2>6
<1>2. ASSUME NEW c \in Conns, Sealed(c)
      PROVE  /\ link' = link /\ typed' = typed
             /\ accepted' \in [Conns -> Seq(1..MaxKeys)]
             /\ \A d \in Conns : Aside(d) \/ Takes(d) \/ Seals(d)
  <2>1. UNCHANGED <<link, typed, accepted, held, socket>> /\ outbound[c] # <<>>
    BY <1>2 DEF Sealed, pageVars
  <2>2. ASSUME NEW d \in Conns, d # c
        PROVE  Aside(d)
    <3>1. sent'[d] = sent[d] /\ UNCHANGED <<accepted[d], outbound[d]>>
      BY <1>2, <1>a, <2>1, <2>2 DEF Sealed, Send
    <3>. QED BY <1>b, <3>1 DEF Aside
  <2>3. /\ outbound'[c] = Tail(outbound[c])
        /\ sent'[c] = IF held[c] /\ socket[c] = "open"
                      THEN Append(sent[c], Key(Head(outbound[c]))) ELSE sent[c]
    BY <1>2, <1>a DEF Sealed, Send
  <2>4. Seals(c)
    BY <2>1, <2>3 DEF Seals
  <2>. QED BY <1>a, <2>1, <2>2, <2>4
<1>3. ASSUME ~Type, \A c \in Conns : ~Sealed(c)
      PROVE  /\ UNCHANGED <<link, typed, accepted, outbound>>
             /\ \/ sent' = sent
                \/ \E c \in Conns : Send(c, Control("PONG"))
                \/ \E c \in Conns : sent' = [sent EXCEPT ![c] = Append(@, Control("OPEN"))]
  <2>1. CASE Page
    BY <1>3, <2>1 DEF Page, LoadPage, Reconnect, Connect
  <2>2. ASSUME NEW c \in Conns, Chain(c)
        PROVE  /\ UNCHANGED <<link, typed, accepted, outbound>>
               /\ sent' = sent \/ Send(c, Control("PONG"))
    BY <1>3, <2>2 DEF Chain, HandleOpen, HandleData, HandleControl, HandleClose, HandleError,
       Decrypted, pageVars
  <2>3. ASSUME NEW c \in Conns, Socket(c) \/ Network(c)
        PROVE  /\ UNCHANGED <<link, typed, accepted, outbound>>
               /\ sent' = sent \/ sent' = [sent EXCEPT ![c] = Append(@, Control("OPEN"))]
    BY <2>3 DEF Socket, SocketOpens, Arrives, SocketEnds, Network, RelayHangsUp,
       ConnectionLost, tunnelVars, pageVars, logVars
  <2>. QED BY <2>1, <2>2, <2>3 DEF Next
<1>4. ASSUME ~Type, \A c \in Conns : ~Sealed(c)
      PROVE  \A d \in Conns : Aside(d)
  <2>1. ASSUME NEW d \in Conns PROVE Aside(d)
    BY <1>3, <1>4, <1>b, <1>c, <2>1
  <2>. QED BY <2>1
<1>5. CASE ~Type /\ \A c \in Conns : ~Sealed(c)
  BY <1>3, <1>4, <1>5, <1>a
<1>. QED BY <1>1, <1>2, <1>5

\* The parts of Typing and KeysInOrder that Kept gathers.
LEMMA KeysNext ==
  ASSUME TypeOK, Sockets, Typing, KeysInOrder, Next
  PROVE  Typing' /\ KeysInOrder'
<1>1. /\ link' = link /\ typed' \in {typed, typed + 1}
      /\ accepted' \in [Conns -> Seq(1..MaxKeys)]
      /\ \A d \in Conns : Aside(d) \/ Takes(d) \/ Seals(d)
  BY KeysEffect
<1>2. ASSUME NEW d \in Conns
      PROVE  /\ Kept(sent'[d], accepted'[d], outbound'[d], typed', Live(d)')
             /\ socket'[d] \in {"none", "connecting"} => accepted'[d] = <<>>
             /\ link.key # "root" => outbound'[d] = <<>>
  <2>1. /\ sent[d] \in Seq(Sent) /\ accepted[d] \in Seq(1..MaxKeys)
        /\ outbound[d] \in Seq(1..MaxKeys) /\ typed \in Nat
    <3>1. typed \in 0..MaxKeys
      BY DEF TypeOK
    <3>2. typed \in Nat
      BY <3>1
    <3>3. sent[d] \in Seq(Sent) /\ outbound[d] \in Seq(1..MaxKeys)
      BY DEF TypeOK, Sent
    <3>4. accepted[d] \in Seq(1..MaxKeys)
      BY DEF Typing
    <3>. QED BY <3>2, <3>3, <3>4
  <2>2. /\ Kept(sent[d], accepted[d], outbound[d], typed, Live(d))
        /\ socket[d] \in {"none", "connecting"} => accepted[d] = <<>>
        /\ link.key # "root" => outbound[d] = <<>>
    BY DEF Kept, Typing, KeysInOrder
  <2>3. /\ socket'[d] \in {"none", "connecting"} => socket[d] \in {"none", "connecting"}
        /\ socket'[d] = "open" /\ held'[d] =>
             (socket[d] = "open" /\ held[d]) \/ socket[d] \in {"none", "connecting"}
    BY SocketEffect
  <2>4. /\ Live(d) \in BOOLEAN /\ Live(d)' \in BOOLEAN
        /\ Live(d)' => Live(d) \/ accepted[d] = <<>>
    <3>1. held \in [Conns -> BOOLEAN] /\ held' \in [Conns -> BOOLEAN]
      BY NextType DEF TypeOK
    <3>. QED BY <1>1, <2>2, <2>3, <3>1 DEF Live
  <2>5. CASE Aside(d)
    <3>1. PICK m \in Sent : m.type # "DATA" /\ sent'[d] \in {sent[d], Append(sent[d], m)}
      BY <2>5 DEF Aside
    <3>2. UNCHANGED <<accepted[d], outbound[d]>>
      BY <2>5 DEF Aside
    <3>3. Kept(sent'[d], accepted[d], outbound[d], typed', Live(d)')
      <4>. DEFINE o == sent'[d]
                  n == typed'
                  v == Live(d)'
                  u == Live(d)
      <4>1. /\ o = sent[d] \/ o = Append(sent[d], m)
            /\ n \in {typed, typed + 1} /\ u \in BOOLEAN /\ v \in BOOLEAN
            /\ v => u \/ accepted[d] = <<>>
            /\ Kept(sent[d], accepted[d], outbound[d], typed, u)
        BY <1>1, <2>2, <2>4, <3>1
      <4>. HIDE DEF o, n, v, u
      <4>2. Kept(o, accepted[d], outbound[d], n, v)
        BY <2>1, <3>1, <4>1, KeptAside
      <4>. QED BY <4>2 DEF o, n, v
    <3>. QED BY <2>2, <2>3, <3>2, <3>3
  <2>6. CASE Takes(d)
    <3>1. /\ typed + 1 \in 1..MaxKeys /\ typed' = typed + 1
          /\ held[d] /\ socket[d] = "open"
          /\ accepted'[d] = Append(accepted[d], typed + 1)
          /\ socket'[d] \notin {"none", "connecting"}
      BY <2>3, <2>6 DEF Takes
    <3>2. CASE /\ link.key = "root" /\ sent'[d] = sent[d]
               /\ outbound'[d] = Append(outbound[d], typed + 1)
      <4>1. Live(d)
        BY <3>1, <3>2 DEF Live
      <4>2. Kept(sent[d], Append(accepted[d], typed + 1), Append(outbound[d], typed + 1),
                 typed + 1, Live(d))
        BY <2>1, <2>2, <2>4, <3>1, KeptSealing
      <4>3. Kept(sent[d], Append(accepted[d], typed + 1), Append(outbound[d], typed + 1),
                 typed + 1, Live(d)')
        BY <4>1, <4>2 DEF Kept
      <4>. QED BY <3>1, <3>2, <4>3
    <3>3. CASE /\ link.key = "none" /\ sent'[d] = Append(sent[d], Key(typed + 1))
               /\ outbound'[d] = outbound[d]
      <4>1. outbound[d] = <<>> /\ Live(d)
        BY <2>2, <3>1, <3>3 DEF Live
      <4>2. Kept(sent[d], accepted[d], <<>>, typed, TRUE)
        BY <2>2, <4>1 DEF Kept
      <4>3. Kept(Append(sent[d], Key(typed + 1)), Append(accepted[d], typed + 1), <<>>,
                 typed + 1, TRUE)
        BY <2>1, <3>1, <4>2, KeptSent
      <4>4. Kept(Append(sent[d], Key(typed + 1)), Append(accepted[d], typed + 1), <<>>,
                 typed + 1, Live(d)')
        BY <4>3 DEF Kept
      <4>. QED BY <3>1, <3>3, <4>1, <4>4
    <3>4. CASE link.key = "viewer" /\ UNCHANGED <<sent[d], outbound[d]>>
      <4>1. Kept(sent[d], Append(accepted[d], typed + 1), outbound[d], typed + 1, FALSE)
        BY <2>1, <2>2, <3>1, KeptUnsent
      <4>2. ~Live(d)'
        BY <1>1, <3>4 DEF Live
      <4>3. Kept(sent[d], Append(accepted[d], typed + 1), outbound[d], typed + 1, Live(d)')
        BY <4>1, <4>2 DEF Kept
      <4>. QED BY <2>2, <3>1, <3>4, <4>3
    <3>. QED BY <2>6, <3>2, <3>3, <3>4 DEF Takes
  <2>7. CASE Seals(d)
    <3>1. /\ outbound[d] # <<>> /\ outbound'[d] = Tail(outbound[d])
          /\ typed' = typed /\ UNCHANGED <<accepted[d], held[d], socket[d]>>
          /\ link.key = "root"
      BY <2>2, <2>7 DEF Seals
    <3>2. Live(d)' = Live(d) /\ (Live(d) <=> held[d] /\ socket[d] = "open")
      BY <1>1, <3>1 DEF Live
    <3>3. CASE held[d] /\ socket[d] = "open"
      <4>1. sent'[d] = Append(sent[d], Key(Head(outbound[d])))
        BY <2>7, <3>3 DEF Seals
      <4>2. Kept(sent[d], accepted[d], outbound[d], typed, TRUE)
        BY <2>2, <3>2, <3>3 DEF Kept
      <4>3. Kept(Append(sent[d], Key(Head(outbound[d]))), accepted[d], Tail(outbound[d]),
                 typed, TRUE)
        BY <2>1, <3>1, <4>2, KeptSealed
      <4>4. Kept(Append(sent[d], Key(Head(outbound[d]))), accepted[d], Tail(outbound[d]),
                 typed, Live(d)')
        BY <4>3 DEF Kept
      <4>. QED BY <2>2, <3>1, <4>1, <4>4
    <3>4. CASE ~(held[d] /\ socket[d] = "open")
      <4>1. sent'[d] = sent[d]
        BY <2>7, <3>4 DEF Seals
      <4>2. Kept(sent[d], accepted[d], Tail(outbound[d]), typed, FALSE)
        BY <2>1, <2>2, <3>1, KeptDropped
      <4>3. Kept(sent[d], accepted[d], Tail(outbound[d]), typed, Live(d)')
        BY <3>2, <3>4, <4>2 DEF Kept
      <4>. QED BY <2>2, <3>1, <4>1, <4>3
    <3>. QED BY <3>3, <3>4
  <2>. QED BY <1>1, <2>5, <2>6, <2>7
<1>3. Typing'
  BY <1>1, <1>2 DEF Typing, Kept
<1>4. KeysInOrder'
  BY <1>2 DEF KeysInOrder, Kept
<1>. QED BY <1>3, <1>4

-----------------------------------------------------------------------------
(* The invariant behind the order of output and of keys. *)

LEMMA InitOrder == Init => OInv
<1>. SUFFICES ASSUME Init PROVE OInv
  OBVIOUS
<1>0. ASSUME NEW S PROVE [c \in Conns |-> <<>>] \in [Conns -> Seq(S)]
  <2>1. <<>> \in Seq(S)
    OBVIOUS
  <2>. QED BY <2>1
<1>1. /\ arrived \in [Conns -> Seq(Frames)] /\ accepted \in [Conns -> Seq(1..MaxKeys)]
      /\ \A c \in Conns : /\ inbound[c] = <<>> /\ outbound[c] = <<>> /\ sent[c] = <<>>
                          /\ drawn[c] = <<>> /\ arrived[c] = <<>> /\ accepted[c] = <<>>
  BY <1>0 DEF Init
<1>2. DOMAIN <<>> = {} /\ GoodAt(<<>>) = {} /\ KeyAt(<<>>) = {} /\ Rising(<<>>)
  BY DEF GoodAt, KeyAt, Rising
<1>3. Output /\ Typing
  BY <1>1, <1>2 DEF Output, Typing
<1>4. DrawnAsReceived
  BY <1>1, <1>2 DEF DrawnAsReceived
<1>5. KeysInOrder
  BY <1>1, <1>2 DEF KeysInOrder
<1>. QED BY <1>3, <1>4, <1>5 DEF OInv

LEMMA NextOrder ==
  ASSUME TypeOK, Sockets, OInv, [Next]_vars
  PROVE  OInv'
<1>1. CASE Next
  BY <1>1, OutputNext, KeysNext DEF OInv
<1>2. CASE UNCHANGED vars
  <2>1. UNCHANGED <<link, socket, held, inbound, outbound, typed, next, sent, arrived, drawn,
                    accepted>>
    BY <1>2 DEF vars, tunnelVars, pageVars, relayVars, logVars
  <2>2. Output' /\ Typing'
    BY <2>1 DEF OInv, Output, Typing, Live
  <2>3. DrawnAsReceived'
    <3>1. \A c \in Conns : Received(drawn[c], inbound[c], arrived[c], next[c])
      BY DEF OInv, Output, DrawnAsReceived, Received
    <3>2. \A c \in Conns : Received(drawn'[c], inbound'[c], arrived'[c], next'[c])
      BY <2>1, <3>1
    <3>. QED BY <3>2 DEF DrawnAsReceived, Received
  <2>4. KeysInOrder'
    BY <2>1 DEF OInv, KeysInOrder
  <2>. QED BY <2>2, <2>3, <2>4 DEF OInv
<1>. QED BY <1>1, <1>2

\* What waits on the chains lies between what has left them and what is still to come.
THEOREM OrderHolds == Spec => []OInv
<1>1. OInv /\ IInv /\ [Next]_vars => OInv'
  BY NextOrder DEF IInv
<1>. QED BY <1>1, InitOrder, Invariance, PTL DEF Spec

\* No frame that authenticates is lost, doubled or overtaken (tunnel.ts:93).
THEOREM DrawnAsReceivedHolds == Spec => []DrawnAsReceived
<1>1. OInv => DrawnAsReceived
  BY DEF OInv
<1>. QED BY <1>1, OrderHolds, PTL

\* Keys leave in the order they were typed, none skipped before one that is sent
\* (tunnel.ts:296).
THEOREM KeysInOrderHolds == Spec => []KeysInOrder
<1>1. OInv => KeysInOrder
  BY DEF OInv
<1>. QED BY <1>1, OrderHolds, PTL
=============================================================================
