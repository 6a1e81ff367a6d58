-------------------------------- MODULE Bufio --------------------------------
(***************************************************************************)
(* The byte readers and writers of packages/bufio, as operators on a       *)
(* record that stands for the object: an operation returns the object it   *)
(* leaves, the value read in its field val and ok = FALSE when it threw.   *)
(*                                                                         *)
(* A number is the sequence of its bytes, most significant first, without  *)
(* leading zeros: zero is << >>.  Numbers of 64 bits and more (bigint in   *)
(* the code) are numbers like the others.                                  *)
(***************************************************************************)
EXTENDS Naturals, Sequences, FiniteSets

Zeros(n) == [i \in 1 .. n |-> 0]
Flip(bs) == [i \in 1 .. Len(bs) |-> bs[Len(bs) + 1 - i]]

\* BigInt("0x" + hex): the number the bytes stand for.
Trim(bs) ==
    IF \A i \in 1 .. Len(bs) : bs[i] = 0
    THEN << >>
    ELSE LET first == CHOOSE i \in 1 .. Len(bs) : bs[i] # 0 /\ \A j \in 1 .. i - 1 : bs[j] = 0
         IN  SubSeq(bs, first, Len(bs))

Padded(n, w) == Zeros(w - Len(n)) \o n

\* The bytes of a natural number, and back; a number of four bytes or more is Huge.
Huge == 16777216
Num(k) == Trim(<<(k \div 65536) % 256, (k \div 256) % 256, k % 256>>)
ToNat(n) == IF Len(n) > 3 THEN Huge
            ELSE LET p == Padded(n, 3) IN 65536 * p[1] + 256 * p[2] + p[3]

OneByte(n) == n = << >> \/ (Len(n) = 1 /\ n[1] < 253)    \* num < 0xfd

bigSizeBytes(n) ==
    IF OneByte(n) THEN 1 ELSE IF Len(n) <= 2 THEN 3 ELSE IF Len(n) <= 4 THEN 5 ELSE 9

-----------------------------------------------------------------------------
(***************************************************************************)
(* BufferReader.  last is lastReadBytes.                                   *)
(***************************************************************************)
BufferReader(bs) == [buf |-> bs, pos |-> 0, last |-> 0, val |-> << >>, ok |-> TRUE]

Left(r) == Len(r.buf) - r.pos
eof(r) == Left(r) = 0
Throw(r) == [r EXCEPT !.ok = FALSE, !.val = << >>]

Slice(r, n) ==    \* a variant that takes what there is, as Buffer.slice does
    LET m == IF Left(r) < n THEN Left(r) ELSE n
    IN  [r EXCEPT !.val = SubSeq(r.buf, r.pos + 1, r.pos + m), !.pos = @ + m, !.last = m]

Take(r, n) ==
    IF ~r.ok \/ Left(r) < n
    THEN Throw(r)
    ELSE [r EXCEPT !.val = SubSeq(r.buf, r.pos + 1, r.pos + n), !.pos = @ + n, !.last = n]

readUIntBE(r, n) == LET t == Take(r, n) IN [t EXCEPT !.val = Trim(@)]
readUIntLE(r, n) == LET t == Take(r, n) IN [t EXCEPT !.val = Trim(Flip(@))]

readBytes(r, n) ==
    IF n = 0 /\ r.ok THEN [r EXCEPT !.val = << >>, !.last = 0] ELSE Take(r, n)

readRest(r) == readBytes(r, Left(r))

\* Only the value counts: the position stays where it is.
peakBytes(r, n) == [readBytes(r, n) EXCEPT !.pos = r.pos, !.last = r.last]
peakRest(r) == IF eof(r) THEN Throw(r) ELSE peakBytes(r, Left(r))

\* The first byte, and the number of bytes that follow it.
Follow(n) == CASE n = <<253>> -> 2 [] n = <<254>> -> 4 [] n = <<255>> -> 8 [] OTHER -> 0

readVarUint(r) ==
    LET Rest(first) == IF Follow(first.val) = 0 \/ ~first.ok THEN first
                       ELSE readUIntLE(first, Follow(first.val))
    IN  Rest(readUIntBE(r, 1))

readAnyBigSize(r) ==    \* a variant without the test of the encoding, which is StreamReader's
    LET Rest(first) == IF Follow(first.val) = 0 \/ ~first.ok THEN first
                       ELSE readUIntBE(first, Follow(first.val))
    IN  Rest(readUIntBE(r, 1))

readBigSize(r) ==
    LET Canonical(read) ==
            IF read.ok /\ read.pos - r.pos # bigSizeBytes(read.val) THEN Throw(read) ELSE read
    IN  Canonical(readAnyBigSize(r))

\* readTUInt16, 32 and 64 take what is left, at most w bytes, and leave last alone.
readTUInt(r, w) ==
    LET size == IF Left(r) < w THEN Left(r) ELSE w
        read == [readUIntBE(r, size) EXCEPT !.last = r.last]
    IN  IF ~r.ok THEN r
        ELSE IF size = 0 THEN [r EXCEPT !.val = << >>]
        ELSE IF Len(read.val) # size THEN Throw(r) ELSE read

-----------------------------------------------------------------------------
(***************************************************************************)
(* BufferWriter.  A writer without a buffer has room = Unlimited: its      *)
(* buffer grows by doubling, which toBuffer hides; with a buffer it has    *)
(* that buffer's length as room and toBuffer returns all of it.            *)
(***************************************************************************)
Unlimited == Huge

Refuse(w) == [w EXCEPT !.ok = FALSE]

BufferWriter(room) == [buf |-> << >>, room |-> room, ok |-> TRUE]

size(w) == Len(w.buf)

toBuffer(w) == IF w.room = Unlimited THEN w.buf ELSE w.buf \o Zeros(w.room - size(w))

_expand(w, n) == w.ok /\ size(w) + n <= w.room

writeBytes(w, bs) ==
    IF bs = << >> THEN w
    ELSE IF _expand(w, Len(bs)) THEN [w EXCEPT !.buf = @ \o bs] ELSE Refuse(w)

writeUIntBE(w, n, width) == IF Len(n) > width THEN Refuse(w) ELSE writeBytes(w, Padded(n, width))
writeUIntLE(w, n, width) == IF Len(n) > width THEN Refuse(w) ELSE writeBytes(w, Flip(Padded(n, width)))

Marker(n) == CASE bigSizeBytes(n) = 3 -> <<253>>
               [] bigSizeBytes(n) = 5 -> <<254>>
               [] OTHER -> <<255>>

writeVarInt(w, n) ==
    IF OneByte(n) THEN writeUIntBE(w, n, 1)
    ELSE writeUIntLE(writeBytes(w, Marker(n)), n, bigSizeBytes(n) - 1)

writeBigSize(w, n) ==
    IF OneByte(n) THEN writeUIntBE(w, n, 1)
    ELSE writeUIntBE(writeBytes(w, Marker(n)), n, bigSizeBytes(n) - 1)

\* writeTUInt16 and 32 throw beyond their width, writeTUInt64 writes any number.
writeTUInt(w, n, width) == IF width < 8 /\ Len(n) > width THEN Refuse(w) ELSE writeBytes(w, n)

-----------------------------------------------------------------------------
(***************************************************************************)
(* encodeVarInt and varIntBytes, which size buffers for bitcoin data.      *)
(***************************************************************************)
varIntBytes(n) == bigSizeBytes(n)

encodeVarInt(n) == writeVarInt(BufferWriter(Unlimited), n)

-----------------------------------------------------------------------------
(***************************************************************************)
(* StreamReader over a stream of bytes that has ended (fromBuffer): a read *)
(* that asks for more than there is throws, and what was there is gone.    *)
(***************************************************************************)
StreamReader(bs) == BufferReader(bs)

streamRead(s, n) ==
    IF s.ok /\ n > Left(s) THEN [Throw(s) EXCEPT !.pos = Len(s.buf)] ELSE readBytes(s, n)

streamReadUIntBE(s, n) == LET t == streamRead(s, n) IN [t EXCEPT !.val = Trim(@)]
streamReadUIntLE(s, n) == LET t == streamRead(s, n) IN [t EXCEPT !.val = Trim(Flip(@))]

streamReadVarInt(s) ==
    LET Rest(first) == IF Follow(first.val) = 0 \/ ~first.ok THEN first
                       ELSE streamReadUIntLE(first, Follow(first.val))
    IN  Rest(streamReadUIntBE(s, 1))

streamReadBigSize(s) ==
    LET Rest(first) == IF Follow(first.val) = 0 \/ ~first.ok THEN first
                       ELSE streamReadUIntBE(first, Follow(first.val))
    IN  Rest(streamReadUIntBE(s, 1))

=============================================================================
