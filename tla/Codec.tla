------------------------------- MODULE Codec -------------------------------
(***************************************************************************)
(* The page codec of kernel/src/mm/compress: encode_page and decode_page   *)
(* of codec.rs over the header of header.rs, as operators.  A page is a    *)
(* sequence of PageBytes bytes.  A payload keeps its byte layout, since    *)
(* lengths decide which class is chosen; of the header only the fields     *)
(* that vary are kept.  Dictionary words are in memory order.              *)
(***************************************************************************)
EXTENDS Integers, Sequences, FiniteSetsExt

CONSTANTS
    PageBytes,      \* PAGE_BYTES, 4096 in the code
    MaxRun,         \* u8::MAX, the longest literal run
    Dictionary,     \* HXNU_SXRC_STATIC_DICTIONARY: id -> four bytes
    Patterns,       \* HXNU_SXRC_STATIC_PATTERNS: id -> bytes
    Checksum(_)     \* fnv1a32 of a payload

HeaderBytes == 16
DictBytes == 4
RefBytes == 3
TokenLiteral == 0
TokenDict == 1
TokenPattern == 2

Invalid == <<>>              \* any CompressionError; no page is empty
NoToken == [len |-> 0]

-----------------------------------------------------------------------------
MatchesAt(page, at, bytes) ==
    /\ at + Len(bytes) - 1 <= PageBytes
    /\ SubSeq(page, at, at + Len(bytes) - 1) = bytes

\* best_pattern_at: the longest that matches, the first of several.
PatternsAt(page, at) == {id \in DOMAIN Patterns : MatchesAt(page, at, Patterns[id])}
BestPattern(page, at) ==
    LET longest == {id \in PatternsAt(page, at) :
                       \A o \in PatternsAt(page, at) : Len(Patterns[id]) >= Len(Patterns[o])}
    IN  Min(longest)

\* A dictionary word saves one byte; a pattern is taken only if it saves more.
PickToken(page, at) ==
    LET words   == {id \in DOMAIN Dictionary : MatchesAt(page, at, Dictionary[id])}
        word    == IF words = {} THEN NoToken
                   ELSE [tag |-> TokenDict, id |-> Min(words), len |-> DictBytes]
        best    == BestPattern(page, at)
        pattern == IF PatternsAt(page, at) = {} THEN NoToken
                   ELSE [tag |-> TokenPattern, id |-> best, len |-> Len(Patterns[best])]
    IN  IF pattern.len > RefBytes /\ pattern.len > word.len THEN pattern ELSE word

\* emit_ref_token: the id is 16 bits, low byte first.
RefToken(token) == <<token.tag, token.id % 256, token.id \div 256>>

\* emit_literal_run; a run is flushed at MaxRun and never needs a second chunk.
LiteralRun(run) == IF run = <<>> THEN <<>> ELSE <<TokenLiteral, Len(run)>> \o run

\* Mutant: the literals that wait are written after the reference.
FlushSwapped(run, token) == RefToken(token) \o LiteralRun(run)

\* The literals that wait go out before a reference does.
Flush(run, token) == LiteralRun(run) \o RefToken(token)

\* encode_sxrc_payload from position read on, run being the literals that wait.
RECURSIVE EncodeSxrc(_, _, _)
EncodeSxrc(page, read, run) ==
    IF read > PageBytes THEN LiteralRun(run)
    ELSE LET token == PickToken(page, read)
             more  == Append(run, page[read])
         IN  IF token # NoToken
             THEN Flush(run, token) \o EncodeSxrc(page, read + token.len, <<>>)
             ELSE IF Len(more) = MaxRun
                  THEN LiteralRun(more) \o EncodeSxrc(page, read + 1, <<>>)
                  ELSE EncodeSxrc(page, read + 1, more)

Encoded(class, payload) ==
    [class |-> class, payload_len |-> Len(payload), checksum |-> Checksum(payload), payload |-> payload]

\* A compressed form that is not shorter than the page, or does not fit the
\* scratch buffer, gives way to the page itself.
WorthKeeping(payload) == Len(payload) < PageBytes

Uniform(page, byte) == \A i \in 1 .. PageBytes : page[i] = byte

EncodePage(page) ==
    LET sxrc == EncodeSxrc(page, 1, <<>>)
    IN  IF Uniform(page, 0) THEN Encoded("Zero", <<>>)
        ELSE IF Uniform(page, page[1]) THEN Encoded("Same", <<page[1]>>)
        ELSE IF WorthKeeping(sxrc) THEN Encoded("Sxrc", sxrc)
        ELSE Encoded("Raw", page)

EncodedBytes(e) == HeaderBytes + Len(e.payload)

-----------------------------------------------------------------------------
\* What the token at position read of a payload decodes to, and its length.
TokenAt(payload, read) ==
    LET rest == Len(payload) - read + 1
        n    == payload[read + 1]
        id   == payload[read + 1] + 256 * payload[read + 2]
        none == [bytes |-> Invalid, size |-> 0]
    IN  CASE payload[read] = TokenLiteral /\ rest >= 2 /\ n > 0 /\ rest >= 2 + n ->
                 [bytes |-> SubSeq(payload, read + 2, read + 1 + n), size |-> 2 + n]
          [] payload[read] = TokenDict /\ rest >= RefBytes /\ id \in DOMAIN Dictionary ->
                 [bytes |-> Dictionary[id], size |-> RefBytes]
          [] payload[read] = TokenPattern /\ rest >= RefBytes /\ id \in DOMAIN Patterns ->
                 [bytes |-> Patterns[id], size |-> RefBytes]
          [] OTHER -> none

\* Mutant: bytes that follow the last token are not noticed.
UsedUpUnchecked(payload, read) == TRUE

UsedUp(payload, read) == read = Len(payload) + 1

\* decode_sxrc_payload: until the page is full, which must use up the payload.
RECURSIVE DecodeSxrc(_, _, _)
DecodeSxrc(payload, read, out) ==
    IF Len(out) = PageBytes THEN IF UsedUp(payload, read) THEN out ELSE Invalid
    ELSE IF read > Len(payload) THEN Invalid
    ELSE LET token == TokenAt(payload, read)
         IN  IF token.bytes = Invalid THEN Invalid
             ELSE IF Len(out) + Len(token.bytes) > PageBytes THEN Invalid
             ELSE DecodeSxrc(payload, read + token.size, out \o token.bytes)

DecodePage(e) ==
    CASE Len(e.payload) # e.payload_len \/ Checksum(e.payload) # e.checksum -> Invalid
      [] e.class = "Zero" /\ e.payload = <<>>        -> [i \in 1 .. PageBytes |-> 0]
      [] e.class = "Same" /\ Len(e.payload) = 1      -> [i \in 1 .. PageBytes |-> e.payload[1]]
      [] e.class = "Raw" /\ Len(e.payload) = PageBytes -> e.payload
      [] e.class = "Sxrc"                            -> DecodeSxrc(e.payload, 1, <<>>)
      [] OTHER                                       -> Invalid
=============================================================================
