-------------------------------- MODULE Wire --------------------------------
(* The encodings that leave the process and come back: the connection ticket *)
(* (p2p-live/src/ticket.rs), the server link (discovery/link.rs), the public *)
(* bundle inside a ticket and the secret bytes an identity file holds        *)
(* (bundle.rs). A document is written by to_bytes and read back by a cursor  *)
(* that takes one field after another from a buffer it does not trust. What  *)
(* the buffer holds is decided as the cursor takes it: the bytes of `sent`   *)
(* when a document was written, any bytes at all otherwise, `size` of them.  *)
(* A byte is a digit of Base, so that a length, a count and a tag are what   *)
(* the digits say; key material and addresses are digits of Content.        *)
EXTENDS Integers, Sequences, FiniteSets, SequencesExt

CONSTANTS
    Base,             \* 256 in the code: the values of a u8
    Content,          \* the bytes a free buffer may hold inside a key, an octet or a pin
    NotAfterLen,      \* 8: a u64
    PortLen,          \* 2: a u16
    SecretLen,        \* 4: a u32
    V4Len, V6Len,     \* 4 and 16 octets
    LabelLen,         \* ONION_LABEL_BYTES
    PinLen,           \* 32: a SHA-256 pin
    PqKeyLen,         \* ML_DSA_65_PUBLIC_KEY_LEN
    MAX_HINTS, MAX_PINS, MAX_HOST_LEN, MAX_PREFIX_LEN,
    Documents,        \* the documents that are written
    Sizes,            \* by decoder, the sizes of a buffer nobody wrote
    None

ASSUME WireAssumption ==
    /\ Base \in Nat \ 0..3
    /\ Content \subseteq 0..Base - 1
    /\ MAX_HINTS < Base /\ MAX_PINS < Base /\ MAX_HOST_LEN < Base /\ MAX_PREFIX_LEN < Base

VARIABLES
    asked,   \* the decoder that was called: "ticket", "link" or "secret"
    sent,    \* the document whose encoding is in the buffer, or None
    text,    \* what was pasted around the buffer: its prefix, alphabet and checksum
    size,    \* buf.len()
    end,     \* the end of the slice the cursor is in
    step,    \* the field the decoder takes next, "accepted" or "refused"
    read,    \* the bytes taken: the cursor stands behind them
    left,    \* the iterations a counted loop still has
    obj      \* the document as far as it is decoded

vars == <<asked, sent, text, size, end, step, read, left, obj>>

Byte == 0..Base - 1
Kinds == {"ticket", "link", "secret"}

\* The values of the format: one version per format, the suite, the kinds and
\* the address tags. As text, a byte is one letter or digit of the base32
\* alphabet, a capital letter, a slash, or anything else.
Version == 1
LivePq1 == 1
Rendezvous == 1
Relay == 2
TAG_V4 == 1
TAG_V6 == 2
TAG_ONION == 3
Letter == 1
Capital == 2
Slash == 3

\* u16::from_be_bytes and its like, and their inverses to_be_bytes.
Num(b) == FoldLeft(LAMBDA acc, d : acc * Base + d, 0, b)
Digits(n, w) == [i \in 1..w |-> (n \div Base^(w - i)) % Base]

Lowered(b) == [i \in DOMAIN b |-> IF b[i] = Capital THEN Letter ELSE b[i]]

\* OnionAddress::new: lower case, then the label's alphabet and the port.
Onion(label, port) ==
    IF (\A i \in DOMAIN label : Lowered(label)[i] = Letter) /\ Num(port) # 0
    THEN [host |-> Lowered(label), port |-> port]
    ELSE None

UsesAddress(tag) == CASE tag = TAG_V4 -> V4Len [] tag = TAG_V6 -> V6Len [] OTHER -> LabelLen
-----------------------------------------------------------------------------
(* Writing.                                                                *)

\* The count is cast to a byte, however many hints there are.  Of an IPv6 hint only
\* the octets and the port are written: its scope and flow information are not.
encode_hints(hints) ==
    <<Len(hints) % Base>>
        \o FlattenSeq([i \in DOMAIN hints |-> <<hints[i].tag>> \o hints[i].addr \o hints[i].port])

\* IdentityBundle::to_bytes and LocalBundle::to_secret_bytes differ in the width
\* of the two lengths. A missing post-quantum half is an empty one.
keys_to_bytes(d, w) ==
    <<Version>> \o Digits(Len(d.classical), w) \o d.classical \o Digits(Len(d.pq), w) \o d.pq

to_secret_bytes(d) == keys_to_bytes(d, SecretLen)

ticket_to_bytes(t) ==
    LET bundle == keys_to_bytes(t, 2)
    IN  <<Version, LivePq1>> \o t.not_after \o Digits(Len(bundle), 2) \o bundle \o encode_hints(t.hints)

link_to_bytes(l) ==
    <<Version, l.server, IF l.onion = None THEN 0 ELSE 1>>
        \o <<Len(l.host)>> \o l.host \o l.port
        \o <<Len(l.prefix)>> \o l.prefix
        \o <<Len(l.pins)>> \o FlattenSeq(l.pins)
        \o (IF l.onion = None THEN <<>> ELSE l.onion.host \o l.onion.port)

to_bytes(d) ==
    CASE d.kind = "ticket" -> ticket_to_bytes(d)
      [] d.kind = "link" -> link_to_bytes(d)
      [] d.kind = "secret" -> to_secret_bytes(d)

\* The prefix in front, and behind the payload a checksum under the format's own
\* domain; what base32 adds is undone by base32.
to_text(kind) == [head |-> kind, base32 |-> TRUE, checksum |-> kind]

\* ServerName::try_from: letters only.
UsableHost(host) == \A i \in DOMAIN host : host[i] \in {Letter, Capital}

validate(l) ==
    /\ l.host # <<>> \/ l.onion # None
    /\ Len(l.host) <= MAX_HOST_LEN
    /\ UsableHost(l.host)
    /\ Len(l.prefix) <= MAX_PREFIX_LEN
    /\ Len(l.pins) \in 1..MAX_PINS

trim_matches(s) ==
    LET kept == {i \in DOMAIN s : s[i] # Slash}
    IN  IF kept = {} THEN <<>> ELSE SubSeq(s, Min(kept), Max(kept))

\* ServerLink::new: the prefix is trimmed, then the link is validated.
NewLink(l) ==
    LET link == [l EXCEPT !.prefix = trim_matches(l.prefix)]
    IN  IF validate(link) THEN link ELSE None
-----------------------------------------------------------------------------
(* Reading.                                                                *)

Blank(kind) ==
    CASE kind = "ticket" -> [kind |-> kind, not_after |-> <<>>, classical |-> <<>>, pq |-> <<>>, hints |-> <<>>]
      [] kind = "link" -> [kind |-> kind, server |-> 0, host |-> <<>>, port |-> <<>>, prefix |-> <<>>,
                           pins |-> <<>>, onion |-> None]
      [] kind = "secret" -> [kind |-> kind, classical |-> <<>>, pq |-> <<>>]

\* Text is pasted into the two decoders that read it; the identity file holds
\* the secret bytes alone.
Init ==
    /\ asked \in Kinds
    /\ \/ sent \in Documents /\ size = Len(to_bytes(sent)) /\ text = to_text(sent.kind)
       \/ /\ sent = None /\ size \in Sizes[asked]
          /\ text \in [head : Kinds \cup {None}, base32 : BOOLEAN, checksum : Kinds \cup {None}]
    /\ asked = "secret" => text = to_text("secret")
    /\ end = size /\ read = <<>> /\ left = 0
    /\ step = (IF asked = "secret" THEN "keys" ELSE "text")
    /\ obj = Blank(asked)

\* What take(n) may return, nothing when fewer than n bytes remain.
Take(n, S) ==
    IF Len(read) + n > end THEN {}
    ELSE IF sent = None THEN [1..n -> S]
    ELSE {SubSeq(to_bytes(sent), Len(read) + 1, Len(read) + n)}

Refuse == step' = "refused" /\ UNCHANGED <<asked, sent, text, size, end, left, obj>>

Same(b) == obj
Always(b) == TRUE

\* One field: n bytes are taken; what they must be; what the document becomes.
Field(at, n, S, ok(_), keep(_), next) ==
    /\ step = at
    /\ \/ Take(n, S) = {} /\ Refuse /\ UNCHANGED read
       \/ \E b \in Take(n, S) :
             /\ read' = read \o b
             /\ IF ok(b) THEN /\ obj' = keep(b) /\ step' = next
                              /\ UNCHANGED <<asked, sent, text, size, end, left>>
                ELSE Refuse

\* Mutant: a count beyond the limit is lowered to it.
ClampsCount(at, limit, next) ==
    /\ step = at
    /\ \/ Take(1, Byte) = {} /\ Refuse /\ UNCHANGED read
       \/ \E b \in Take(1, Byte) :
             /\ read' = read \o b
             /\ left' = Min({b[1], limit}) /\ step' = next
             /\ UNCHANGED <<asked, sent, text, size, end, obj>>

\* Mutant: the limit itself is refused.
CountsBelow(at, limit, next) ==
    /\ step = at
    /\ \/ Take(1, Byte) = {} /\ Refuse /\ UNCHANGED read
       \/ \E b \in Take(1, Byte) :
             /\ read' = read \o b
             /\ IF b[1] < limit THEN /\ left' = b[1] /\ step' = next
                                     /\ UNCHANGED <<asked, sent, text, size, end, obj>>
                ELSE Refuse

\* A one-byte count with its limit, and the loop that comes back `left` times.
Count(at, limit, next) ==
    /\ step = at
    /\ \/ Take(1, Byte) = {} /\ Refuse /\ UNCHANGED read
       \/ \E b \in Take(1, Byte) :
             /\ read' = read \o b
             /\ IF b[1] <= limit THEN /\ left' = b[1] /\ step' = next
                                      /\ UNCHANGED <<asked, sent, text, size, end, obj>>
                ELSE Refuse

Loop(at, body, next) ==
    /\ step = at
    /\ step' = (IF left = 0 THEN next ELSE body)
    /\ left' = (IF left = 0 THEN 0 ELSE left - 1)
    /\ UNCHANGED <<asked, sent, text, size, end, read, obj>>

\* The bytes a field of length len (w digits, just taken) asks for.
Announced(w) == Num(SubSeq(read, Len(read) - w + 1, Len(read)))

\* Ticket::from_text and ServerLink::from_text.
from_text ==
    /\ step = "text"
    /\ step' = (IF text.head = asked /\ text.base32 /\ size > 0 /\ text.checksum = asked
                THEN "version" ELSE "refused")
    /\ UNCHANGED <<asked, sent, text, size, end, read, left, obj>>

\* IdentityBundle::from_bytes and LocalBundle::from_secret_bytes.
keys_from_bytes(w, okClassical(_), okPq(_)) ==
    \/ Field("keys", 1, Byte, LAMBDA b : b[1] = Version, Same, "classical_len")
    \/ Field("classical_len", w, Byte, Always, Same, "classical")
    \/ Field("classical", Announced(w), Content, okClassical, LAMBDA b : [obj EXCEPT !.classical = b], "pq_len")
    \/ Field("pq_len", w, Byte, Always, Same, "pq")
    \/ Field("pq", Announced(w), Content, LAMBDA b : b = <<>> \/ okPq(b), LAMBDA b : [obj EXCEPT !.pq = b], "keys_end")

bundle_from_bytes == keys_from_bytes(2, LAMBDA b : b # <<>>, LAMBDA b : Len(b) = PqKeyLen)

\* The PKCS#8 parsers: a key has one length and does not start with a zero.
Pkcs8(b) == Len(b) = PqKeyLen /\ b[1] # 0

from_secret_bytes == keys_from_bytes(SecretLen, Pkcs8, Pkcs8)

\* Bytes left over in the bundle's slice, or in the buffer, refuse the whole.
KeysEnd ==
    /\ step = "keys_end"
    /\ \/ Len(read) # end /\ Refuse /\ UNCHANGED read
       \/ /\ Len(read) = end /\ end' = size
          /\ step' = (IF asked = "secret" THEN "accepted" ELSE "hint_count")
          /\ UNCHANGED <<asked, sent, text, size, read, left, obj>>

\* The u16 length of the bundle, and the slice it opens.
IdLen ==
    /\ step = "id_len"
    /\ \/ Take(2, Byte) = {} /\ Refuse /\ UNCHANGED read
       \/ \E b \in Take(2, Byte) :
             /\ read' = read \o b
             /\ IF Num(b) # 0 /\ Len(read) + 2 + Num(b) <= size
                THEN /\ end' = Len(read) + 2 + Num(b) /\ step' = "keys"
                     /\ UNCHANGED <<asked, sent, text, size, left, obj>>
                ELSE Refuse

LastHint == obj.hints[Len(obj.hints)]
HintWith(hint) == [obj EXCEPT !.hints[Len(obj.hints)] = hint]
HintPort(port) == [LastHint EXCEPT !.port = port]
HintOnion(port) == Onion(LastHint.addr, port)

\* Read back the hints; an onion is validated once its port is known, and an IPv6
\* hint has no scope.
decode_hints ==
    \/ Count("hint_count", MAX_HINTS, "hints")
    \/ Loop("hints", "hint", "end")
    \/ Field("hint", 1, Byte, LAMBDA b : b[1] \in {TAG_V4, TAG_V6, TAG_ONION},
             LAMBDA b : [obj EXCEPT !.hints = Append(@, [tag |-> b[1], addr |-> <<>>, port |-> <<>>, scope |-> 0])], "addr")
    \/ step = "addr" /\ Field("addr", UsesAddress(LastHint.tag), IF LastHint.tag = TAG_ONION THEN Byte ELSE Content,
                              Always, LAMBDA b : HintWith([LastHint EXCEPT !.addr = b]), "hint_port")
    \/ step = "hint_port"
       /\ Field("hint_port", PortLen, Content,
                LAMBDA b : LastHint.tag = TAG_ONION => HintOnion(b) # None,
                LAMBDA b : HintWith(IF LastHint.tag = TAG_ONION
                                    THEN [HintPort(b) EXCEPT !.addr = HintOnion(b).host] ELSE HintPort(b)),
                "hints")

ticket_from_bytes ==
    /\ asked = "ticket"
    /\ \/ Field("version", 1, Byte, LAMBDA b : b[1] = Version, Same, "suite")
       \/ Field("suite", 1, Byte, LAMBDA b : b[1] = LivePq1, Same, "not_after")
       \/ Field("not_after", NotAfterLen, Content, Always, LAMBDA b : [obj EXCEPT !.not_after = b], "id_len")
       \/ IdLen
       \/ bundle_from_bytes
       \/ decode_hints

Utf8(b) == \A i \in DOMAIN b : b[i] # 0

link_from_bytes ==
    /\ asked = "link"
    /\ \/ Field("version", 1, Byte, LAMBDA b : b[1] = Version, Same, "kind")
       \/ Field("kind", 1, Byte, LAMBDA b : b[1] \in {Rendezvous, Relay},
                LAMBDA b : [obj EXCEPT !.server = b[1]], "flag")
       \/ Field("flag", 1, Byte, LAMBDA b : b[1] \in {0, 1},
                LAMBDA b : [obj EXCEPT !.onion = IF b[1] = 1 THEN [host |-> <<>>, port |-> <<>>] ELSE None], "host_len")
       \/ Field("host_len", 1, Byte, Always, Same, "host")
       \/ Field("host", Announced(1), Byte, Utf8, LAMBDA b : [obj EXCEPT !.host = b], "port")
       \/ Field("port", PortLen, Content, Always, LAMBDA b : [obj EXCEPT !.port = b], "prefix_len")
       \/ Field("prefix_len", 1, Byte, Always, Same, "prefix")
       \/ Field("prefix", Announced(1), Byte, Utf8, LAMBDA b : [obj EXCEPT !.prefix = b], "pin_count")
       \/ Count("pin_count", MAX_PINS, "pins")
       \/ Loop("pins", "pin", IF obj.onion = None THEN "end" ELSE "label")
       \/ Field("pin", PinLen, Content, Always, LAMBDA b : [obj EXCEPT !.pins = Append(@, b)], "pins")
       \/ Field("label", LabelLen, Byte, Utf8, LAMBDA b : [obj EXCEPT !.onion.host = b], "onion_port")
       \/ Field("onion_port", PortLen, Content, LAMBDA b : Onion(obj.onion.host, b) # None,
                LAMBDA b : [obj EXCEPT !.onion = Onion(obj.onion.host, b)], "end")

\* The last checks: nothing may follow, and a link must be one that new permits.
End ==
    /\ step = "end"
    /\ step' = (IF Len(read) = size /\ (asked = "link" => validate(obj)) THEN "accepted" ELSE "refused")
    /\ UNCHANGED <<asked, sent, text, size, end, read, left, obj>>

secret_from_bytes == asked = "secret" /\ from_secret_bytes

Next == from_text \/ ticket_from_bytes \/ link_from_bytes \/ secret_from_bytes \/ KeysEnd \/ End

Spec == Init /\ [][Next]_vars
-----------------------------------------------------------------------------
(* Properties.                                                             *)

Accepted == step = "accepted"

\* The cursor stays inside its slice, and the slice inside the buffer
\* (Reader::take).
TypeOK ==
    /\ asked \in Kinds /\ sent \in Documents \cup {None}
    /\ Len(read) <= end /\ end <= size
    /\ \A i \in DOMAIN read : read[i] \in Byte
    /\ left \in Byte

\* What a reader sees of a document: the one written, without the scopes of its hints.
Unscoped(d) ==
    IF d.kind # "ticket" THEN d
    ELSE [d EXCEPT !.hints = [i \in DOMAIN @ |-> [@[i] EXCEPT !.scope = 0]]]

\* A document that was written is read back as it was, but for the scope of an IPv6
\* hint, by the decoder of its own kind and by no other; a ticket with more hints
\* than MAX_HINTS is refused, never read as another ticket, even when its count no
\* longer fits the byte (ticket.rs: encode_hints, decode_hints, the trailing check).
ReadBack ==
    sent # None /\ step \in {"accepted", "refused"} =>
        /\ Accepted => obj = Unscoped(sent)
        /\ Accepted <=> /\ asked = sent.kind
                        /\ sent.kind = "ticket" => Len(sent.hints) <= MAX_HINTS

\* Whatever is accepted is, byte for byte, what to_bytes writes for the document
\* it was read as, except that an onion label may have been in capitals
\* (OnionAddress::new lowers it): no two spellings of one document otherwise,
\* no part of the input without a meaning.
OneSpelling ==
    Accepted =>
        /\ Len(to_bytes(obj)) = size
        /\ \A i \in 1..size : read[i] # to_bytes(obj)[i] => read[i] = Capital /\ to_bytes(obj)[i] = Letter

\* The documentation of the two decoders calls the form they read canonical:
\* re-encoding what was accepted gives the bytes that were read.
Canonical == Accepted => to_bytes(obj) = read

\* "A hand-built link and a pasted one cannot differ in what they permit": an
\* accepted link is one that ServerLink::new builds from the same parts.
PermittedAlike == Accepted /\ asked = "link" => NewLink(obj) = obj
=============================================================================
