---------------------------- MODULE BrowserPage -----------------------------
(***************************************************************************)
(* From a ticket to the screen: the page of web/src/main.ts finds its       *)
(* session in its URL (BrowserLink), derives its keys, reads and writes     *)
(* messages (BrowserWire) and scales the host's grid to its window.  The    *)
(* order of a connection's events is BrowserTunnel's subject; here a        *)
(* message is taken from end to end in one step.                            *)
(***************************************************************************)
EXTENDS BrowserLink, BrowserWire

CONSTANTS
  Roots,     \* root keys a host may have drawn
  Misread,   \* digits that another may be taken for
  Channels,  \* channels a frame may be on
  HostReads, \* lengths of what the host reads of its terminal at once, 16 KiB at most
  Pastes,    \* lengths of what the user types or pastes at once
  Grids,     \* sizes of the host's terminal
  Windows    \* sizes of the page's terminal element, in pixels

ASSUME PageAssumption ==
  /\ Roots \subseteq [1..KeySize -> Byte] /\ Misread \subseteq Digit
  /\ Channels \subseteq Channel /\ CHANNEL_CONTROL \in Channels
  /\ Pastes \subseteq Nat
  /\ \A n \in HostReads : n \in Nat /\ n + Overhead <= MaxPayloadLen
  /\ \A g \in Grids \cup Windows : g[1] \in Nat \ {0} /\ g[2] \in Nat \ {0}

VARIABLES
  shared,     \* what the host shares: its root key, and the kind of ticket it gave out
  url,        \* the page's location
  hashchange, \* the event is queued
  submitted,  \* history: the locator the form was left with, as a set
  view,       \* "loading", "landing", "rejected", "incomplete", "blank" or "session"
  locator,    \* of a session view, as a set
  keys,       \* what crypto holds; NoKeys until it is set
  ready,      \* showSession has its keys and has connected
  live,       \* the tunnel has not failed
  shown,      \* chunks drawn, with their channels
  heard,      \* keys the host took
  delivered,  \* history: chunks and keys that are due, having arrived as they were sent
  grid,       \* hostCols and hostRows
  window,     \* the size of the terminal element
  font        \* term.options.fontSize

linkVars == <<shared, url, hashchange, submitted, view, locator, keys, ready>>
wireVars == <<live, shown, heard, delivered>>
fitVars == <<grid, window, font>>
vars == <<linkVars, wireVars, fitVars>>

NoKeys == [reading |-> <<>>, writing |-> <<>>]

-----------------------------------------------------------------------------
(* The host: its keys and the ticket it prints. *)

HostKeys == FromTicketKey("s", shared.root, "root")

\* Go's base32.StdEncoding without padding, by its definition: the bytes are one row of bits,
\* with zeros behind it to fill the last digit, and a digit is the next five.
GoDigits(n) == (8 * n + 4) \div 5
ByteOrZero(bytes, j) == IF j \in DOMAIN bytes THEN bytes[j] ELSE 0
FiveBits(bytes, from) ==
  LET j == (from \div 8) + 1
      pair == 256 * ByteOrZero(bytes, j) + ByteOrZero(bytes, j + 1)
  IN  (pair \div Pow2[11 - (from % 8)]) % 32
GoBase32(bytes) == [i \in 1..GoDigits(Len(bytes)) |-> FiveBits(bytes, 5 * (i - 1))]

\* Ticket.String and Ticket.Fragment, behind the session.
Printed ==
  LET field(letter, key) == << [letter |-> letter, digits |-> GoBase32(key)] >> IN
  [token |-> "token",
   fields |-> CASE shared.kind = "none" -> <<>>
                [] shared.kind = "root" -> field("k", shared.root)
                [] shared.kind = "viewer" -> field("v", HostKeys.reading)]

\* Readings of a ticket that are as well-formed as it is: a digit is taken for another, or a
\* letter for the other.
MisreadFields(f) ==
  { [f EXCEPT !.letter = letter] : letter \in {"k", "v"} \ {f.letter} }
  \cup (UNION { { [f EXCEPT !.digits[n] = d] : d \in Misread \ {f.digits[n]} } :
                n \in 1..Len(f.digits) })

MisreadTexts(text) ==
  UNION { { [token |-> text.token, fields |-> <<g>>] : g \in MisreadFields(f) } :
          f \in ToSet(text.fields) }

\* What becomes of a ticket on its way: it is misread, cut short, a full stop follows it, a
\* digit becomes a character base32 does not have, its letter is capitalised, or a percent sign
\* gets into its token.
Mangled(text) ==
  MisreadTexts(text)
  \cup { [token |-> "", fields |-> <<>>], [token |-> "cut", fields |-> <<>>],
         [token |-> text.token, fields |-> <<>>],
         [token |-> text.token, fields |-> Append(text.fields, NotAField)] }
  \cup { [token |-> token, fields |-> <<>>] : token \in Escaping }
  \cup { [token |-> token, fields |-> text.fields] : token \in Escaping }
  \cup (UNION { { [token |-> text.token, fields |-> << [f EXCEPT !.digits = SubSeq(@, 1, n)] >>] :
                    n \in 0..(Len(f.digits) - 1) }
                \cup { [token |-> text.token, fields |-> << [f EXCEPT !.digits[n] = NotADigit] >>] :
                         n \in 1..Len(f.digits) }
                \cup { [token |-> text.token, fields |-> << [f EXCEPT !.letter = "K"] >>] } :
                f \in ToSet(text.fields) })

\* What a form or the fragment of a link may hold.
Tickets == {Printed} \cup Mangled(Printed)

\* The keys that a misreading leads to, nearly all of them nobody's.
MisreadKeys == UNION { KeysOf(text.fields) : text \in MisreadTexts(Printed) }

-----------------------------------------------------------------------------
(* The page. *)

MIN_FONT == 6
MAX_FONT == 22
BASE_FONT == 14

\* xterm's cell at a font size: widths scale, heights are whole pixels.
CellFits(w, cols, size) == 5 * w >= 3 * size * cols
CellHeight(size) == (6 * size + 4) \div 5

\* FitAddon.proposeDimensions, never less than 2 columns and 1 row.
ProposedCols(size) == LET n == (5 * window'[1]) \div (3 * size) IN IF n < 2 THEN 2 ELSE n
ProposedRows(size) == LET n == window'[2] \div CellHeight(size) IN IF n < 1 THEN 1 ELSE n

Least(a, b) == IF a < b THEN a ELSE b
Clamp(n) == IF n < MIN_FONT THEN MIN_FONT ELSE Least(MAX_FONT, n)

\* One pass of refit's loop, which scales the font by the ratio of the two grids.
Pass(size) == Clamp(Least((size * ProposedCols(size)) \div grid'[1],
                          (size * ProposedRows(size)) \div grid'[2]))

\* Mutant: one pass.
RefitOnce == font' = Pass(font)

\* refit; a pass that changes nothing ends the loop, and another would not either.
Refit == font' = Pass(Pass(font))

\* The page is left, and loads again.
Loading ==
  /\ view' = "loading" /\ locator' = {} /\ keys' = NoKeys /\ ready' = FALSE
  /\ live' = FALSE

Init ==
  /\ shared \in [root : Roots, kind : {"none", "root", "viewer"}]
  /\ \/ url \in [path : {"session"}, session : {"s"}, text : Tickets]
     \/ url = [path |-> "landing", session |-> "", text |-> [token |-> "", fields |-> <<>>]]
  /\ hashchange = FALSE /\ submitted = {}
  /\ view = "loading" /\ locator = {} /\ keys = NoKeys /\ ready = FALSE
  /\ live = FALSE /\ shown = {} /\ heard = {} /\ delivered = {}
  /\ grid = <<80, 24>> /\ window \in Windows /\ font = BASE_FONT

\* The entry of main.ts.  decodeURIComponent's error is nobody's, and the page stays blank.
Load ==
  /\ view = "loading"
  /\ LET found == ParseSessionURL(url) IN
     IF url.path = "session" /\ Malformed(url.text)
     THEN view' = "blank" /\ UNCHANGED <<locator, fitVars>>
     ELSE IF found # {}
     THEN /\ view' = "session" /\ locator' = found
          /\ grid' = <<80, 24>> /\ UNCHANGED window /\ font' = BASE_FONT
     ELSE /\ view' = IF url.path = "session" THEN "incomplete" ELSE "landing"
          /\ UNCHANGED <<locator, fitVars>>
  /\ UNCHANGED <<shared, url, hashchange, submitted, keys, ready, wireVars>>

\* showSession goes on when WebCrypto has the keys; parseKeyField has checked their length.
KeysReady ==
  /\ view = "session" /\ ~ready
  /\ \E l \in locator :
       keys' = IF l.kind = "none" THEN NoKeys ELSE FromTicketKey(l.session, l.key, l.kind)
  /\ ready' = TRUE /\ live' = TRUE
  /\ UNCHANGED <<grid, window>> /\ Refit
  /\ UNCHANGED <<shared, url, hashchange, submitted, view, locator, shown, heard, delivered>>

\* Mutant: the page pays no attention to its fragment.
EditUnnoticed ==
  /\ view # "loading" /\ url.path = "session"
  /\ \E text \in Tickets : url' = [url EXCEPT !.text = text]
  /\ UNCHANGED <<shared, hashchange, submitted, view, locator, keys, ready, wireVars, fitVars>>

\* The user pastes another link to the same session.
EditFragment ==
  /\ view # "loading" /\ url.path = "session"
  /\ \E text \in Tickets \ {url.text} : url' = [url EXCEPT !.text = text]
  /\ hashchange' = TRUE
  /\ UNCHANGED <<shared, submitted, view, locator, keys, ready, wireVars, fitVars>>

Reload ==
  /\ hashchange
  /\ hashchange' = FALSE /\ submitted' = {}
  /\ Loading
  /\ UNCHANGED <<shared, url, shown, heard, delivered, fitVars>>

\* The landing form.
Submit ==
  /\ view \in {"landing", "rejected"}
  /\ \E text \in Tickets :
       LET parsed == ParseTicket("s", text) IN
       IF parsed = {}
       THEN view' = "rejected" /\ UNCHANGED <<url, submitted, locator, keys, ready, live>>
       ELSE /\ \E l \in parsed : url' = SessionURL(l)
            /\ submitted' = parsed
            /\ Loading
  /\ UNCHANGED <<shared, hashchange, shown, heard, delivered, fitVars>>

-----------------------------------------------------------------------------
(* Messages. *)

\* The relay has acknowledged the page: the credential in its OPEN is right, and link and
\* session agree about encryption.
Attached ==
  /\ ready /\ live
  /\ \E l \in locator :
       /\ \E f \in Unmarshal(EncodeControl("OPEN", l.token, CHANNEL_CONTROL)) :
            f.type = "OPEN" /\ f.payload = "token"
       /\ l.kind = "none" <=> shared.kind = "none"

Encrypted == shared.kind # "none"

\* What may happen to a message on its way.  Without encryption the payload is in the
\* relay's hand; with it, so is only the outside.
Altered(m) ==
  { [m EXCEPT !.header = SubSeq(@, 1, 4)], [m EXCEPT !.header[1] = TypeValues.OPEN],
    [EncodeControl("PING", m.payload, 0) EXCEPT !.size = MaxPayloadLen + 1] }
  \cup { EncodeControl(type, m.payload, 0) : type \in {"DATA", "WINDOW", "constructor"} }
  \cup IF Encrypted
       THEN { [m EXCEPT !.payload.altered = TRUE] }
            \cup { [m EXCEPT !.header = <<TypeValues.DATA>> \o SetUint32(c)] : c \in Channels }
       ELSE {}

\* A message is due if its payload is within the limit and the page has the host's keys.
Due(m) == Within(m.payload) /\ (Encrypted => keys.reading = HostKeys.reading)

DataOf(frames) == { f \in frames : f.type = "DATA" }

\* Output, from crypter.outbound on the host to onData on the page.  Tunnel.handle passes over
\* a frame of a type it does not know.
OutputArrives ==
  /\ Attached
  /\ \E channel \in Channels, size \in HostReads :
       LET chunk == [channel |-> channel, from |-> "host", size |-> size] IN
       \E m \in Marshal([type |-> "DATA", channel |-> channel,
                         payload |-> IF Encrypted THEN Seal(HostKeys.reading, channel, chunk)
                                     ELSE Plain(chunk)]) :
         \E arrived \in {m} \cup Altered(m) :
           LET frames == Decode(arrived)
               opened == UNION { IF keys = NoKeys THEN {f.payload.bytes}
                                 ELSE Open(keys.reading, f.channel, f.payload) :
                                 f \in DataOf(frames) }
           IN  /\ shown' = shown \cup opened
               /\ live' = (frames # {} /\ (DataOf(frames) # {} => opened # {}))
               /\ delivered' = IF arrived = m /\ Due(m) THEN delivered \cup {chunk} ELSE delivered
  /\ UNCHANGED <<linkVars, heard, fitVars>>

\* What is typed or pasted, from Tunnel.write on the page to the host's crypter.inbound; a page
\* without a writing key sends nothing.  A relay that cannot read a frame drops the page, and a
\* host that cannot read one ends the session.
KeyArrives ==
  /\ Attached /\ shared.kind # "viewer"
  /\ keys = NoKeys \/ keys.writing # <<>>
  /\ \E size \in Pastes :
       LET key == [channel |-> CHANNEL_CONTROL, from |-> "page", size |-> size]
           m == EncodeData(IF keys = NoKeys THEN Plain(key)
                           ELSE Seal(keys.writing, CHANNEL_CONTROL, key), CHANNEL_CONTROL)
       IN  \E arrived \in {m} \cup Altered(m) :
             LET frames == Unmarshal(arrived)
                 opened == UNION { IF Encrypted THEN Open(HostKeys.writing, f.channel, f.payload)
                                   ELSE {f.payload.bytes} : f \in DataOf(frames) }
             IN  /\ heard' = heard \cup opened
                 /\ live' = (frames # {} /\ (DataOf(frames) # {} => opened # {}))
                 /\ delivered' = IF arrived = m /\ Due(m) THEN delivered \cup {key} ELSE delivered
  /\ UNCHANGED <<linkVars, shown, fitVars>>

\* The host tells its size, in a control frame.
HostResizes ==
  /\ Attached
  /\ \E g \in Grids :
       \E m \in Marshal([type |-> "RESIZE", channel |-> CHANNEL_CONTROL, payload |-> g]) :
         \E f \in Decode(m) : f.type = "RESIZE" /\ grid' = f.payload
  /\ UNCHANGED window /\ Refit
  /\ UNCHANGED <<linkVars, wireVars>>

WindowResizes ==
  /\ ready
  /\ window' \in Windows /\ UNCHANGED grid /\ Refit
  /\ UNCHANGED <<linkVars, wireVars>>

\* The overlay's button: a tunnel with the same keys.
Reconnect ==
  /\ ready /\ ~live
  /\ live' = TRUE
  /\ UNCHANGED <<linkVars, shown, heard, delivered, fitVars>>

Next ==
  \/ Load \/ KeysReady \/ EditFragment \/ Reload \/ Submit
  \/ OutputArrives \/ KeyArrives \/ HostResizes \/ WindowResizes \/ Reconnect

Spec == Init /\ [][Next]_vars

-----------------------------------------------------------------------------
(* Properties. *)

\* Wherever a link or ticket was cut or added to, a key that a page joins with is the host's:
\* its reading key is the one the host writes with, and it has the host's writing key exactly
\* if its ticket was not for a viewer (crypto.ts:179, crypto.ts:205).  Base32 has no check digit:
\* where a digit or the letter was taken for another that is as good, a page does join with
\* something else, but then neither of its keys is the host's - not even with the letters of a
\* viewer's and a full ticket exchanged.
KeyIsTheHosts ==
  ready /\ keys # NoKeys =>
    \/ /\ keys.reading = HostKeys.reading
       /\ keys.writing = IF shared.kind = "viewer" THEN <<>> ELSE HostKeys.writing
    \/ /\ \A l \in locator : [key |-> l.key, kind |-> l.kind] \in MisreadKeys
       /\ keys.reading # HostKeys.reading /\ keys.writing # HostKeys.writing

\* A ticket the form takes arrives: the page it leads to has the very locator that was typed
\* in, key and kind included, through base32, the URL and back (locator.ts:95).  Tokens with a
\* percent sign are apart: the form takes them, but the relay issues none (id.go:43).
TicketArrives ==
  submitted # {} /\ ~hashchange /\ view # "loading"
    /\ (\A l \in submitted : l.token \notin Escaping) =>
      view = "session" /\ locator = submitted

\* Not checked, for it does not hold: sessionURL writes the token as it was typed, and
\* parseSessionURL decodes it.  "s.100%" leads to a blank page, and an escaped letter or full
\* stop to another token.
TicketArrivesAsTyped ==
  submitted # {} /\ ~hashchange /\ view # "loading" => view = "session" /\ locator = submitted

\* Once a fragment that was edited has been noticed, page and URL agree: a terminal is there
\* exactly if the URL names one, and it is that one (main.ts:264).
PageFollowsURL ==
  url.path = "session" /\ ~hashchange /\ view # "loading" =>
    IF Malformed(url.text) THEN view = "blank"
    ELSE locator = ParseSessionURL(url) /\ (view = "session" <=> locator # {})

\* Both ends read exactly what the other wrote: the Go and the browser's framing and sealing
\* agree on every frame within MaxPayloadLen that arrives as it was sent, and nothing longer,
\* nothing altered on its way - cut, renamed, moved to another channel or to a text message -
\* and nothing sealed with a key that was misread is drawn or typed (crypto.ts:164,
\* wire.go:132).  encodeData neither splits nor measures: a paste that is too long when sealed
\* is refused whole, and ends the connection.
ReadAsWritten == shown \cup heard = delivered

Fits(size) == CellFits(window[1], grid[1], size) /\ CellHeight(size) * grid[2] <= window[2]

\* Whatever sizes went before, the font is at most one size away from the best: the next
\* smaller one lets the host's grid fit, and the next but one larger does not.  On terminals
\* with fewer rows or columns than MAX_FONT, refit may get stuck further below (main.ts:136).
FontNearlyBest ==
  ready /\ grid[1] >= MAX_FONT /\ grid[2] >= MAX_FONT =>
    /\ font = MIN_FONT \/ Fits(font - 1)
    /\ font + 2 > MAX_FONT \/ ~Fits(font + 2)
=============================================================================
