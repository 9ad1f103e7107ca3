------------------------------- MODULE FmKeys --------------------------------
(***************************************************************************)
(* Key images: the segments fm_prepare_create_info derives from the columns *)
(* of a key, and fm_hash.cc's hashing, comparing and packing of keys.      *)
(*                                                                         *)
(* A record is the sequence of its key columns' images: whether it is NULL, *)
(* its uneven bits, and the bytes from its offset on.  A packed key is a   *)
(* sequence of bytes.  A hash is what is fed to the mixing steps, segment  *)
(* by segment: equal feeds give equal hashes, whatever the mixer does.     *)
(***************************************************************************)
EXTENDS Naturals, Sequences, SequencesExt

CONSTANTS
    KeyColumns,     \* sequences of columns that are keys
    ImagesOf(_)     \* images of a column

NullFeed == 256                 \* fed for a NULL; not a byte
Space == 32
Upper == 65                     \* two letters that differ in case
Lower == 97
Lead == 200                     \* first byte of the two-byte characters

-----------------------------------------------------------------------------
(* Character sets.                                                         *)
mbmaxlen(cs) == IF cs = "utf8" THEN 2 ELSE 1

\* fm_charpos: bytes of the first n characters of b, and more than b has if b is
\* shorter.
fm_charpos(b, n) ==
    LET pos[k \in 0 .. n] ==
            IF k = 0 THEN 0
            ELSE IF pos[k - 1] >= Len(b) THEN Len(b) + 2
            ELSE pos[k - 1] + IF b[pos[k - 1] + 1] = Lead THEN 2 ELSE 1
    IN  pos[n]

Smaller(x, y) == IF x < y THEN x ELSE y

\* What my_ci_hash_sort hashes of b, and the class of strings that
\* my_ci_strnncollsp finds equal to it: without case, and without trailing
\* spaces, but for binary strings.
Weights(cs, b) ==
    LET last == {n \in 1 .. Len(b) : b[n] # Space}
        used == CHOOSE n \in 0 .. Len(b) : n \in last \union {0} /\ \A k \in last : k <= n
    IN  IF cs = "bin" THEN b
        ELSE [n \in 1 .. used |-> IF b[n] = Upper THEN Lower ELSE b[n]]

\* Byte p of b and n bytes from p on; offsets start at 0.  What is read behind the
\* end equals no byte.
At(b, p) == IF p < Len(b) THEN b[p + 1] ELSE 1000 + p
Bytes(b, p, n) == [k \in 1 .. n |-> At(b, p + k - 1)]
uint2korr(b, p) == At(b, p) + 256 * At(b, p + 1)

\* The first bytes of a text of n bytes at p: at most those of the segment's characters.
Text(seg, b, p, n) ==
    IF mbmaxlen(seg.charset) > 1
    THEN Bytes(b, p, Smaller(n, fm_charpos(Bytes(b, p, n), seg.length \div mbmaxlen(seg.charset))))
    ELSE Bytes(b, p, n)

-----------------------------------------------------------------------------
(* Segments.                                                               *)

\* The four variable-length types become one.
SegType(col) ==
    CASE col.type \in {"TEXT", "BIT"} -> col.type
      [] col.type \in {"VARTEXT1", "VARTEXT2", "VARBINARY1", "VARBINARY2"} -> "VARTEXT1"
      [] OTHER -> "BINARY"

\* bit_start of a variable-length segment: bytes of the length in a record.
LengthBytes(col) ==
    CASE col.type \in {"VARTEXT1", "VARBINARY1"} -> 1
      [] col.type \in {"VARTEXT2", "VARBINARY2"} -> 2
      [] OTHER -> 0

\* A segment; ENUM and SET compare as binary.
Segment(col) ==
    [type |-> SegType(col), length |-> col.length, null |-> col.null,
     charset |-> IF col.enum THEN "bin" ELSE col.charset,
     bit_length |-> IF col.type = "BIT" THEN col.bits ELSE 0,
     bit_start |-> LengthBytes(col)]
Segments(cols) == [k \in DOMAIN cols |-> Segment(cols[k])]

PackLength(seg) == IF seg.type = "VARTEXT1" THEN 2 ELSE 0
NullByte(seg) == IF seg.null THEN 1 ELSE 0

\* The length of a packed key: lastkey has room for the longest.
KeyLength(segs) ==
    FoldLeft(LAMBDA n, seg : n + seg.length + NullByte(seg) + PackLength(seg), 0, segs)

-----------------------------------------------------------------------------
(* Records.                                                                *)

\* The length a record gives of a VARCHAR.
RecLength(seg, b) == IF seg.bit_start = 1 THEN b[1] ELSE uint2korr(b, 0)

\* The text of a VARCHAR segment in a record.
RecText(seg, b) ==
    LET n == RecLength(seg, b)
    IN  Text(seg, b, seg.bit_start,
             IF mbmaxlen(seg.charset) > 1 THEN n ELSE Smaller(n, seg.length))

HasBits(seg) == seg.type = "BIT" /\ seg.bit_length > 0

RecFeed(seg, image) ==
    LET b == image.bytes
    IN  IF seg.null /\ image.null THEN <<NullFeed>>
        ELSE CASE seg.type = "TEXT" -> Weights(seg.charset, Text(seg, b, 0, seg.length))
               [] seg.type = "VARTEXT1" -> Weights(seg.charset, RecText(seg, b))
               [] HasBits(seg) -> <<image.bits>> \o Bytes(b, 0, seg.length - 1)
               [] OTHER -> Bytes(b, 0, seg.length)

fm_rec_hashnr(segs, rec) == [k \in DOMAIN segs |-> RecFeed(segs[k], rec[k])]

\* Are the keys of two records equal?
fm_rec_key_cmp(segs, rec1, rec2) ==
    \A k \in DOMAIN segs :
        LET seg == segs[k]
            b1 == rec1[k].bytes
            b2 == rec2[k].bytes
        IN  /\ seg.null => rec1[k].null = rec2[k].null
            /\ \/ seg.null /\ rec1[k].null
               \/ CASE seg.type = "TEXT" ->
                            Weights(seg.charset, Text(seg, b1, 0, seg.length))
                              = Weights(seg.charset, Text(seg, b2, 0, seg.length))
                    [] seg.type = "VARTEXT1" ->
                            Weights(seg.charset, RecText(seg, b1)) = Weights(seg.charset, RecText(seg, b2))
                    [] HasBits(seg) ->
                            /\ rec1[k].bits = rec2[k].bits
                            /\ Bytes(b1, 0, seg.length - 1) = Bytes(b2, 0, seg.length - 1)
                    [] OTHER -> Bytes(b1, 0, seg.length) = Bytes(b2, 0, seg.length)

fm_if_null_in_key(segs, rec) == \E k \in DOMAIN segs : segs[k].null /\ rec[k].null

-----------------------------------------------------------------------------
(* Packed keys.  p is where a segment begins, q where its value does.      *)

KeyFeed(key, walk, seg) ==
    LET p == walk.pos
        q == p + NullByte(seg)
    IN  [pos |-> q + seg.length + PackLength(seg),
         feed |-> Append(walk.feed,
            IF seg.null /\ At(key, p) # 0 THEN <<NullFeed>>
            ELSE CASE seg.type = "TEXT" -> Weights(seg.charset, Text(seg, key, q, seg.length))
                   [] seg.type = "VARTEXT1" ->
                        Weights(seg.charset, Text(seg, key, q + 2, uint2korr(key, q)))
                   [] OTHER -> Bytes(key, q, seg.length))]

fm_hashnr(segs, key) ==
    FoldLeft(LAMBDA walk, seg : KeyFeed(key, walk, seg), [pos |-> 0, feed |-> <<>>], segs).feed

\* Is a segment of the record equal to what the key has at q?
SegmentIs(seg, image, key, q) ==
    LET b == image.bytes
    IN  CASE seg.type = "TEXT" ->
                Weights(seg.charset, Text(seg, b, 0, seg.length))
                  = Weights(seg.charset, Text(seg, key, q, seg.length))
          [] seg.type = "VARTEXT1" ->
                Weights(seg.charset, RecText(seg, b))
                  = Weights(seg.charset, Text(seg, key, q + 2, uint2korr(key, q)))
          [] HasBits(seg) ->
                /\ At(key, q) = image.bits
                /\ Bytes(key, q + 1, seg.length - 1) = Bytes(b, 0, seg.length - 1)
          [] OTHER -> Bytes(key, q, seg.length) = Bytes(b, 0, seg.length)

\* Is the record's key equal to the packed one?  The walk passes one byte too many
\* behind a segment with uneven bits.
fm_key_cmp(segs, rec, key) ==
    FoldLeft(LAMBDA walk, k :
        LET seg == segs[k]
            isnull == seg.null /\ rec[k].null
            q == walk.pos + NullByte(seg)
        IN  [pos |-> q + seg.length + PackLength(seg)
                       + IF HasBits(seg) /\ ~isnull THEN 1 ELSE 0,
             same |-> /\ walk.same
                      /\ seg.null => At(key, walk.pos) = IF isnull THEN 1 ELSE 0
                      /\ isnull \/ SegmentIs(seg, rec[k], key, q)],
        [pos |-> 0, same |-> TRUE], [k \in DOMAIN segs |-> k]).same

\* The key as find_unique_row packs it.
fm_make_key(segs, rec) ==
    FlattenSeq([k \in DOMAIN segs |->
        LET seg == segs[k]
            b == rec[k].bytes
            n == IF mbmaxlen(seg.charset) > 1
                 THEN Smaller(seg.length, fm_charpos(Bytes(b, 0, seg.length), seg.length \div 2))
                 ELSE seg.length
        IN  (IF seg.null THEN <<IF rec[k].null THEN 1 ELSE 0>> ELSE <<>>)
            \o CASE seg.type = "VARTEXT1" -> Bytes(b, 0, n + seg.bit_start)
                 [] HasBits(seg) -> <<rec[k].bits>> \o Bytes(b, 0, n - 1)
                 [] OTHER -> Bytes(b, 0, n)])

\* The key as the SQL layer packs it (key_copy): two bytes of length for every
\* VARCHAR, all segments filled to their length.
Fill(b, n, pad) == [k \in 1 .. n |-> IF k <= Len(b) THEN b[k] ELSE pad]
key_copy(segs, rec) ==
    FlattenSeq([k \in DOMAIN segs |->
        LET seg == segs[k]
            b == rec[k].bytes
            text == RecText(seg, b)
        IN  (IF seg.null THEN <<IF rec[k].null THEN 1 ELSE 0>> ELSE <<>>)
            \o IF seg.null /\ rec[k].null THEN Fill(<<>>, seg.length + PackLength(seg), 0)
               ELSE CASE seg.type = "TEXT" -> Fill(Text(seg, b, 0, seg.length), seg.length, Space)
                      [] seg.type = "VARTEXT1" -> <<Len(text), 0>> \o Fill(text, seg.length, 0)
                      [] HasBits(seg) -> <<rec[k].bits>> \o Bytes(b, 0, seg.length - 1)
                      [] OTHER -> Bytes(b, 0, seg.length)])

-----------------------------------------------------------------------------
(* What is promised, for the keys and images given.                        *)
Records(cols) == {rec \in [DOMAIN cols -> UNION {ImagesOf(cols[k]) : k \in DOMAIN cols}] :
                    \A k \in DOMAIN cols : rec[k] \in ImagesOf(cols[k])}

\* Keys are values, as FmIndex takes them to be: comparing is an equivalence, and
\* equal keys have equal hashes and equally a NULL part (fm_rec_key_cmp,
\* fm_rec_hashnr, fm_if_null_in_key).
KeysAreValues ==
    \A cols \in KeyColumns :
        LET segs == Segments(cols)
        IN  \A r1, r2 \in Records(cols) :
                /\ fm_rec_key_cmp(segs, r1, r1)
                /\ fm_rec_key_cmp(segs, r1, r2) =>
                        /\ fm_rec_key_cmp(segs, r2, r1)
                        /\ fm_rec_hashnr(segs, r1) = fm_rec_hashnr(segs, r2)
                        /\ fm_if_null_in_key(segs, r1) = fm_if_null_in_key(segs, r2)

\* Hashing and comparing a packed key of r2 is hashing and comparing r2.
Agrees(segs, packed, r1, r2) ==
    /\ fm_hashnr(segs, packed) = fm_rec_hashnr(segs, r2)
    /\ fm_key_cmp(segs, r1, packed) = fm_rec_key_cmp(segs, r1, r2)

\* A key that the SQL layer packs hashes and compares as the record it is packed
\* from (fm_hash.cc:11), if no column with uneven bits comes before another: behind
\* one, fm_key_cmp looks for the next segment one byte too far.
BitsLast(segs) == \A k \in DOMAIN segs : HasBits(segs[k]) => k = Len(segs)
PackedKeysAgree ==
    \A cols \in KeyColumns :
        LET segs == Segments(cols)
        IN  BitsLast(segs) <=>
                \A r1, r2 \in Records(cols) : Agrees(segs, key_copy(segs, r2), r1, r2)

\* The key find_unique_row makes is one that the SQL layer could have packed
\* (fm_hash.cc:420), if all columns are of fixed length and single-byte: a VARCHAR
\* is copied with the length bytes of its record and to its whole length, and a
\* multi-byte text is not filled.
FixedSize(segs) ==
    \A k \in DOMAIN segs : segs[k].type # "VARTEXT1" /\ mbmaxlen(segs[k].charset) = 1
MadeKeysAgree ==
    \A cols \in KeyColumns :
        LET segs == Segments(cols)
        IN  FixedSize(segs) =>
                \A rec \in Records(cols) :
                    (\A k \in DOMAIN cols : ~rec[k].null) => fm_make_key(segs, rec) = key_copy(segs, rec)

\* fm_make_key stays within lastkey, and packed keys have the length that the key
\* definition says (fm_create.cc:241).
LastkeyFits ==
    \A cols \in KeyColumns :
        LET segs == Segments(cols)
        IN  \A rec \in Records(cols) :
                /\ Len(fm_make_key(segs, rec)) <= KeyLength(segs)
                /\ Len(key_copy(segs, rec)) = KeyLength(segs)
=============================================================================
