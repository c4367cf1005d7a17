---------------------------- MODULE BrowserLink -----------------------------
(***************************************************************************)
(* How a page finds out which session it is for and with which keys: the    *)
(* tickets and links of web/src/locator.ts, their base32 and the session    *)
(* keys of web/src/crypto.ts.                                               *)
(*                                                                         *)
(* A text - a ticket without its session, or the fragment of a link - is a  *)
(* token and the fields after it; the dots between them are left out, and   *)
(* so is surrounding space, which every reader trims.  A field is its first *)
(* letter and the base32 digits behind it: a digit is its value, whatever   *)
(* its case, and NotADigit stands for every other character.                *)
(***************************************************************************)
EXTENDS Naturals, Sequences, SequencesExt

CONSTANTS
  KeySize,  \* KEY_SIZE; as 32 does, 2 bytes leave four bits unused in their last digit
  Word      \* how many values the number has that base32 is shifted through, 2^32 in JavaScript

ASSUME LinkAssumption == KeySize \in Nat \ {0} /\ Word \in Nat \ {0} /\ Word % 8192 = 0

Byte == 0..255
Digit == 0..31
NotADigit == 32

\* 2^n, for the shifts made here; all of them divide Word.
Pow2 == [n \in 0..13 |-> 2^n]

\* The shifts and masks of JavaScript.  Shifting right keeps the sign, but every mask that
\* follows is narrower than the word.
ShiftIn(value, n, d) == (value * Pow2[n] + d) % Word
BitsAt(value, shift, n) == (value \div Pow2[shift]) % Pow2[n]

\* The loop of encodeBase32 takes a byte and puts out the digits that are complete.
TakeByte(s, b) ==
  LET value == ShiftIn(s.value, 8, b)
      bits == s.bits + 8
  IN  [value |-> value,
       bits |-> bits % 5,
       out |-> s.out \o [i \in 1..(bits \div 5) |-> BitsAt(value, bits - 5 * i, 5)]]

Empty == [value |-> 0, bits |-> 0, out |-> <<>>]

\* The loop itself, after n turns.
TakeBytes(bytes) ==
  LET after[n \in 0..Len(bytes)] == IF n = 0 THEN Empty ELSE TakeByte(after[n - 1], bytes[n])
  IN  after

\* Mutant: the bits that are left over are not put out.
EncodeWhole(bytes) == TakeBytes(bytes)[Len(bytes)].out

EncodeBase32(bytes) ==
  LET s == TakeBytes(bytes)[Len(bytes)]
  IN  IF s.bits = 0 THEN s.out
      ELSE Append(s.out, BitsAt(ShiftIn(s.value, 5 - s.bits, 0), 0, 5))

TakeDigit(s, d) ==
  LET value == ShiftIn(s.value, 5, d)
      bits == s.bits + 5
  IN  IF bits < 8 THEN [value |-> value, bits |-> bits, out |-> s.out]
      ELSE [value |-> value, bits |-> bits - 8, out |-> Append(s.out, BitsAt(value, bits - 8, 8))]

TakeDigits(digits) ==
  LET after[n \in 0..Len(digits)] == IF n = 0 THEN Empty ELSE TakeDigit(after[n - 1], digits[n])
  IN  after

\* decodeBase32, of digits only: it throws at anything else.
DecodeBase32(digits) == TakeDigits(digits)[Len(digits)].out

Letter == [root |-> "k", viewer |-> "v"]

\* Mutant: whatever bytes come out are a key.
KeyOfAnyLength(field) ==
  { [key |-> DecodeBase32(field.digits), kind |-> kind] :
      kind \in { k \in DOMAIN Letter : Letter[k] = field.letter /\ NotADigit \notin ToSet(field.digits) } }

\* parseKeyField: the key and its kind, or nothing; so are null and the locators below.
ParseKeyField(field) ==
  LET key == DecodeBase32(field.digits)
  IN  { [key |-> key, kind |-> kind] :
          kind \in { k \in DOMAIN Letter :
                       /\ Letter[k] = field.letter
                       /\ NotADigit \notin ToSet(field.digits)
                       /\ Len(key) = KeySize } }

NoKey == [key |-> <<>>, kind |-> "none"]

Locator(session, token, k) ==
  [session |-> session, token |-> token, key |-> k.key, kind |-> k.kind]

\* What follows the token: nothing, a key, or something that is neither.
KeysOf(fields) ==
  CASE Len(fields) = 0 -> {NoKey}
    [] Len(fields) = 1 -> ParseKeyField(fields[1])
    [] OTHER -> {}

\* parseTicket, of a ticket with its session.  A ticket of four fields is not one; a percent
\* sign is a character like any other.
ParseTicket(session, text) ==
  { Locator(session, text.token, k) :
      k \in IF session = "" \/ text.token = "" THEN {} ELSE KeysOf(text.fields) }

\* Tokens with a percent sign in them: an escape that is cut off, a letter of "token" that is
\* escaped, and a full stop that is.
Escaping == {"broken", "escaped", "dotted"}

NotAField == [letter |-> "", digits |-> <<>>]

\* decodeURIComponent, of a fragment: nothing where it throws.  An escaped full stop becomes
\* one that parts fields, and everything behind the first is one field.
Unescape(text) ==
  CASE text.token = "broken" -> {}
    [] text.token = "escaped" -> { [token |-> "token", fields |-> text.fields] }
    [] text.token = "dotted" -> { [token |-> "cut", fields |-> <<NotAField>>] }
    [] OTHER -> {text}

Malformed(text) == Unescape(text) = {}

KeysIn(path, text) == IF path # "session" \/ text.token = "" THEN {} ELSE KeysOf(text.fields)

\* parseSessionURL, of a path and a fragment.  Here too a dot behind the first is no digit.
ParseSessionURL(url) ==
  UNION { { Locator(url.session, text.token, k) : k \in KeysIn(url.path, text) } :
          text \in Unescape(url.text) }

\* sessionURL, which does not escape the token.
SessionURL(l) ==
  [path |-> "session", session |-> l.session,
   text |-> [token |-> l.token,
             fields |-> IF l.kind = "none" THEN <<>>
                        ELSE << [letter |-> Letter[l.kind], digits |-> EncodeBase32(l.key)] >>]]

\* A stand-in for HKDF-SHA256: another session, root or direction gives another key.
Derive(session, root, info) ==
  LET shift == (IF info = "host to guest" THEN 100 ELSE 50) + (IF session = "s" THEN 0 ELSE 25)
  IN  [i \in DOMAIN root |-> (root[i] + shift) % 256]

\* Session.fromTicketKey: a viewer is handed the reading key and has no writing key.
FromTicketKey(session, key, kind) ==
  IF kind = "viewer" THEN [reading |-> key, writing |-> <<>>]
  ELSE [reading |-> Derive(session, key, "host to guest"),
        writing |-> Derive(session, key, "guest to host")]
=============================================================================
