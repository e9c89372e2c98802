----------------------------- MODULE OpenStream -----------------------------
(***************************************************************************)
(* One entry of syscall.rs's FILE_TABLE as a stream: open copies the whole *)
(* file, or the listing of a directory, into the entry; read, getdents64   *)
(* and lseek move its one offset, whichever descriptor they come through.  *)
(*                                                                         *)
(* A listing is text: one name per line.  getdents64 cuts the text from    *)
(* the offset on into lines again and makes a record of each.  A byte is   *)
(* <<l, i>>, the i-th of the l-th name, or Newline.  lseek is a handler no *)
(* dispatch table names yet.                                               *)
(***************************************************************************)
EXTENDS Integers, Sequences, FiniteSets, SequencesExt

CONSTANTS
    Listings,     \* the files considered: each the lengths of its lines
    ContentCap,   \* 65536, the bytes an entry holds
    Counts        \* buffer sizes of calls

ASSUME StreamAssumption ==
    /\ \A l \in Listings : l \in Seq(Nat)
    /\ ContentCap \in Nat /\ Counts \subseteq Nat

VARIABLES
    listing,      \* the file as opened
    content,      \* content[..content_len]
    offset,
    clean,        \* every call so far was a getdents64 with room for any record, and none failed
    delivered,    \* while clean: names of the records calls have returned
    ended         \* while clean: a getdents64 has returned 0

streamVars == <<listing, content, offset, delivered, clean, ended>>

Newline == <<0, 0>>
NameBytes(l, len) == [i \in 1 .. len |-> <<l, i>>]
Text(l) == FlattenSeq([k \in 1 .. Len(l) |-> Append(NameBytes(k, l[k]), Newline)])

Smaller(a, b) == IF a < b THEN a ELSE b

\* alloc_open_file's copy, cut at the entry's size.
StreamInit ==
    /\ listing \in Listings
    /\ content = SubSeq(Text(listing), 1, Smaller(Len(Text(listing)), ContentCap))
    /\ offset = 0 /\ delivered = <<>> /\ clean = TRUE /\ ended = FALSE

HeaderBytes == 19   \* LinuxDirent64Header, packed
RecLen(name) == ((HeaderBytes + Len(name) + 1 + 7) \div 8) * 8

\* str::lines of the text from the offset on.
Lines ==
    LET starts == {i \in offset + 1 .. Len(content) : i = offset + 1 \/ content[i - 1] = Newline}
        EndOf(i) == CHOOSE j \in i - 1 .. Len(content) :
                        /\ j = Len(content) \/ content[j + 1] = Newline
                        /\ \A m \in i .. j : content[m] # Newline
    IN  [k \in 1 .. Cardinality(starts) |->
            LET i == SetToSortSeq(starts, <)[k] IN SubSeq(content, i, EndOf(i))]

\* Blank lines make no record, and, as the loop skips them with `continue', do
\* not move the offset either.
Records == SelectSeq(Lines, LAMBDA name : name # <<>>)

SumOf(s, Op(_)) == FoldLeft(LAMBDA sum, x : sum + Op(x), 0, s)

\* The number of records that fit a buffer.
Fitting(count) ==
    CHOOSE k \in 0 .. Len(Records) :
        /\ SumOf(SubSeq(Records, 1, k), RecLen) <= count
        /\ k < Len(Records) => SumOf(SubSeq(Records, 1, k + 1), RecLen) > count

\* Mutant: the offset moves by the name and not by its line.
AdvanceUnterminated(names) == SumOf(names, Len)

Advance(names) == SumOf(names, LAMBDA name : Len(name) + 1)

Ample(count) == \A k \in 1 .. Len(listing) : RecLen(NameBytes(k, listing[k])) <= count

Unclean == clean' = FALSE /\ delivered' = <<>> /\ ended' = FALSE

\* sys_getdents64.  The first `good' records reach the caller's buffer; when
\* that is fewer than fit, the next copy failed and so does the call, but the
\* offset has moved past the records before it.
GetDents(count, good) ==
    LET names == SubSeq(Records, 1, good)
    IN  /\ good <= Fitting(count)
        /\ offset' = offset + Advance(names)
        /\ IF good = Fitting(count) /\ clean /\ Ample(count)
           THEN /\ delivered' = delivered \o names
                /\ ended' = (ended \/ names = <<>>)
                /\ UNCHANGED clean
           ELSE Unclean
        /\ UNCHANGED <<listing, content>>

\* read_open_file; a failed copy leaves the offset.
StreamRead(count, copied) ==
    /\ offset' = IF copied /\ offset < Len(content)
                 THEN offset + Smaller(count, Len(content) - offset) ELSE offset
    /\ Unclean
    /\ UNCHANGED <<listing, content>>

\* sys_lseek: a negative result is refused, one past the end is not.
LSeek(base, delta) ==
    /\ base + delta >= 0 /\ base + delta <= Len(content) + 1
    /\ offset' = base + delta
    /\ Unclean
    /\ UNCHANGED <<listing, content>>

StreamNext ==
    \/ \E n \in Counts : \E good \in 0 .. Fitting(n) : GetDents(n, good)
    \/ \E n \in Counts, copied \in BOOLEAN : StreamRead(n, copied)
    \/ \E base \in {0, offset, Len(content)}, delta \in {-1, 0, 1} : LSeek(base, delta)

StreamSpec == StreamInit /\ [][StreamNext]_streamVars

-----------------------------------------------------------------------------
\* A directory read with getdents64 alone, in calls of any sizes that hold the
\* largest record, gives its names in order, each once, and all of them by
\* the time a call returns 0: the text is cut at a different place by each
\* call, and every cut must fall on the end of a line.
ListingComplete ==
    (clean /\ Len(Text(listing)) <= ContentCap /\ \A k \in 1 .. Len(listing) : listing[k] > 0) =>
        LET names == [k \in 1 .. Len(listing) |-> NameBytes(k, listing[k])]
        IN  /\ IsPrefix(delivered, names)
            /\ ended => delivered = names
=============================================================================
