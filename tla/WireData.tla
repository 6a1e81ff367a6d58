------------------------------ MODULE WireData ------------------------------
(***************************************************************************)
(* The parts wire messages are made of: bit fields, short channel ids,     *)
(* addresses, encoded lists and lists of pairs (packages/lightning/lib).   *)
(* Reading leaves its result in val of the reader, as in Bufio.            *)
(***************************************************************************)
EXTENDS Bufio, SequencesExt

-----------------------------------------------------------------------------
(***************************************************************************)
(* BitField: a number whose bits are flags.                                *)
(***************************************************************************)
Bit(b, i) == (b \div 2 ^ i) % 2

ByteAt(n, k) == IF k < Len(n) THEN n[Len(n) - k] ELSE 0    \* byte k, from the lowest

isSet(n, i) == Bit(ByteAt(n, i \div 8), i % 8) = 1

or(m, n) ==
    LET len == IF Len(m) > Len(n) THEN Len(m) ELSE Len(n)
        Both(a, b) == FoldLeft(LAMBDA s, i : s + 2 ^ i * (IF Bit(a, i) + Bit(b, i) > 0 THEN 1 ELSE 0),
                               0, <<0, 1, 2, 3, 4, 5, 6, 7>>)
    IN  [k \in 1 .. len |-> Both(ByteAt(m, len - k), ByteAt(n, len - k))]

msb(n) == IF n = << >> THEN 0
          ELSE 8 * (Len(n) - 1) + CHOOSE i \in 0 .. 7 : n[1] \div 2 ^ i = 1

\* The loop ends at the first power of two that reaches the value.
flags(n) == {i \in 0 .. 8 * Len(n) : isSet(n, i) /\ (i < msb(n) \/ \E j \in 0 .. msb(n) - 1 : isSet(n, j))}

-----------------------------------------------------------------------------
(***************************************************************************)
(* Short channel ids, and addresses.  The base32 of a Tor host is whole    *)
(* groups of five bytes, and so one to one: such a host is its bytes.      *)
(***************************************************************************)
shortChannelIdFromBuffer(r) ==
    LET block == readUIntBE(r, 3)
        tx    == readUIntBE(block, 3)
        out   == readUIntBE(tx, 2)
    IN  [out EXCEPT !.val = <<block.val, tx.val, out.val>>, !.last = 8]

shortChannelIdToBuffer(id) == Padded(id[1], 3) \o Padded(id[2], 3) \o Padded(id[3], 2)

HostBytes(type) == CASE type = <<1>> -> 4 [] type = <<2>> -> 16 [] type = <<3>> -> 10 [] type = <<4>> -> 35

(***************************************************************************)
(* The text of an IPv6 host: groups of hexadecimal digits, a group being   *)
(* its number, and Colon between them.  The first run of zero groups       *)
(* becomes a pair of colons.                                               *)
(***************************************************************************)
Colon == <<256>>

EndsInTwo(t) == Len(t) >= 2 /\ SubSeq(t, Len(t) - 1, Len(t)) = <<Colon, Colon>>

sectionsToString(sections) ==
    LET Add(t, s) ==
            IF s = << >> /\ EndsInTwo(t.text) THEN t
            ELSE IF s = << >> /\ ~t.collapsed
            THEN [text |-> IF t.text = << >> THEN <<Colon, Colon>> ELSE Append(t.text, Colon),
                  collapsed |-> TRUE]
            ELSE [t EXCEPT !.text = @ \o <<s, Colon>>]
        all == FoldLeft(Add, [text |-> << >>, collapsed |-> FALSE], sections).text
    IN  IF EndsInTwo(all) THEN all ELSE Front(all)

ipv6StringFromBuffer(bs) ==
    sectionsToString([i \in 1 .. 8 |-> Trim(SubSeq(bs, 2 * i - 1, 2 * i))])

\* host.split(":"): an empty part stands between two colons, and before or after one.
Parts(text) ==
    LET Add(ps, x) == IF x = Colon THEN Append(ps, [empty |-> TRUE, n |-> << >>])
                      ELSE [ps EXCEPT ![Len(ps)] = [empty |-> FALSE, n |-> x]]
    IN  FoldLeft(Add, <<[empty |-> TRUE, n |-> << >>]>>, text)

ipv6StringToBuffer(text) ==
    LET host  == IF text[1] = Colon /\ text[2] = Colon THEN Tail(text)
                 ELSE IF EndsInTwo(text) THEN Front(text) ELSE text
        parts == Parts(host)
        expandBy == 8 - Len(parts)
        first == SelectInSeq(parts, LAMBDA p : p.empty)
        Write(w, i) ==
            writeBytes(w, IF parts[i].empty /\ i = first /\ expandBy > 0
                          THEN Zeros(2 * (expandBy + 1))
                          ELSE Padded(parts[i].n, 2))
    IN  FoldLeftDomain(Write, BufferWriter(16), parts)

\* An unknown type gives an undefined address, whose bytes are left to the next one.
deserializeAddress(r) ==
    LET type == readUIntBE(r, 1)
        host == readBytes(type, HostBytes(type.val))
        port == readUIntBE(host, 2)
    IN  IF type.val \in {<<1>>, <<2>>, <<3>>, <<4>>}
        THEN [port EXCEPT !.val = [type |-> type.val, port |-> @, host |->
                  IF type.val = <<2>> /\ host.ok THEN ipv6StringFromBuffer(host.val) ELSE host.val]]
        ELSE [type EXCEPT !.val = [type |-> << >>, port |-> << >>, host |-> << >>]]

serializeAddress(a) ==
    LET host == IF a.type = <<2>> THEN toBuffer(ipv6StringToBuffer(a.host)) ELSE a.host
        w == writeBytes(writeUIntBE(BufferWriter(3 + HostBytes(a.type)), a.type, 1), host)
    IN  IF a.type = << >> THEN [BufferWriter(0) EXCEPT !.ok = FALSE]
        ELSE writeUIntBE(w, a.port, 2)

RECURSIVE readAddressesTo(_, _, _)
readAddressesTo(r, end, addresses) ==
    IF r.ok /\ r.pos < end
    THEN LET a == deserializeAddress(r) IN readAddressesTo(a, end, Append(addresses, a.val))
    ELSE [r EXCEPT !.val = addresses]

readAddresses(r) ==
    LET len == readUIntBE(r, 2) IN readAddressesTo(len, len.pos + ToNat(len.val), << >>)

(***************************************************************************)
(* Encoder: a byte for the encoding, then the bytes as they are, or        *)
(* deflated.  zlib is outside the repository: deflating marks the bytes.   *)
(***************************************************************************)
Raw == 0
ZlibDeflate == 1

deflate(bs) == <<120>> \o bs
inflates(bs) == bs # << >> /\ bs[1] = 120

encode(encoding, bs) == <<encoding>> \o (IF encoding = ZlibDeflate THEN deflate(bs) ELSE bs)

decode(r) ==
    IF ~r.ok THEN r
    ELSE CASE r.val = << >> -> Throw(r)
           [] r.val # << >> /\ r.val[1] = Raw -> [r EXCEPT !.val = Tail(@)]
           [] r.val # << >> /\ r.val[1] = ZlibDeflate /\ inflates(Tail(r.val)) ->
                [r EXCEPT !.val = SubSeq(@, 3, Len(@))]
           [] OTHER -> Throw(r)

\* The loop while (!reader.eof) list.push(One(reader)).
RECURSIVE readAll(_, _, _)
readAll(One(_), r, list) ==
    IF ~r.ok \/ eof(r) THEN [r EXCEPT !.val = list]
    ELSE LET one == One(r) IN readAll(One, one, Append(list, one.val))

\* The bytes just read, as a list of their own: a failure is the reader's.
listOf(One(_), r) ==
    LET all == readAll(One, BufferReader(r.val), << >>)
    IN  IF r.ok THEN [r EXCEPT !.val = all.val, !.ok = all.ok] ELSE r

readPair(r) ==
    LET a == readUIntBE(r, 4)
        b == readUIntBE(a, 4)
    IN  [b EXCEPT !.val = <<a.val, b.val>>]

pairsToBytes(pairs) == FlattenSeq([i \in DOMAIN pairs |-> Padded(pairs[i][1], 4) \o Padded(pairs[i][2], 4)])

readVector(r) == LET len == readUIntBE(r, 2) IN readBytes(len, ToNat(len.val))

=============================================================================
