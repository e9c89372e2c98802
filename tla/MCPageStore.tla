---------------------------- MODULE MCPageStore ----------------------------
(***************************************************************************)
(* The page store over the codec: short pages, one of each class.          *)
(***************************************************************************)
EXTENDS PageStore

MCDictionary == [id \in {1} |-> <<255, 255, 0, 0>>]
MCPatterns == [id \in {1} |-> <<255, 0, 255>>]
MCChecksum(payload) == SumSet({i * payload[i] : i \in DOMAIN payload}) % 251

Codec == INSTANCE Codec WITH
    PageBytes <- 8, MaxRun <- 4,
    Dictionary <- MCDictionary, Patterns <- MCPatterns, Checksum <- MCChecksum

zero_page == <<0, 0, 0, 0, 0, 0, 0, 0>>
same_byte_page == <<170, 170, 170, 170, 170, 170, 170, 170>>
pattern_page == <<5, 22, 39, 56, 73, 90, 107, 124>>
dictionary_word_page == <<255, 255, 0, 0, 255, 255, 0, 0>>

MCPages == {zero_page, same_byte_page, pattern_page, dictionary_word_page}
MCMiss == <<>>
MCSmokePages ==
    <<<<4096, zero_page>>, <<4097, same_byte_page>>,
      <<4098, pattern_page>>, <<4099, dictionary_word_page>>>>

\* The codec tabulated over the pages above.
Encoding == [page \in MCPages |-> Codec!EncodePage(page)]
Decoding == [encoded \in {Encoding[page] : page \in MCPages} |-> Codec!DecodePage(encoded)]

MCEncode(page) == Encoding[page]
MCDecode(encoded) == Decoding[encoded]
MCClass(encoded) == encoded.class
MCSize(encoded) == Codec!EncodedBytes(encoded)
=============================================================================
