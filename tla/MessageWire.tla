----------------------------- MODULE MessageWire -----------------------------
(***************************************************************************)
(* A message on its way: an object is serialized, the bytes arrive as they *)
(* were written or as another implementation, or a cut connection, would   *)
(* give them, the receiver deserializes them, and may serialize again what *)
(* it read: to relay it, to store it, or to hash it for its signatures.    *)
(* One job is one message.  Other kinds of job are a number written and    *)
(* read by the codecs of bufio, the text of an IPv6 host, a script, and a  *)
(* transaction that is built and signed before it goes, alone or in a      *)
(* block.                                                                  *)
(***************************************************************************)
EXTENDS Messages, TxBuilder

CONSTANTS
    Filling,    \* how fields are filled: 0 empty, 1 bytes that tell fields apart, 2 the highest
    Flags,      \* the flags of query_short_channel_ids: sequences of numbers
    Number,     \* numbers for the codecs, as sequences of bytes
    Extra,      \* records appended to a message: sequences of [type, type's bytes]
    Strange,    \* the bytes of addresses with a type nobody knows
    Script,     \* scripts, as sequences of commands
    Height      \* heights of blocks, as numbers

VARIABLES
    job,        \* what is sent, and how it arrives
    wire,       \* the bytes, << >> before they are written
    got         \* what was read, with the writer's result; Nothing before

Nothing == [read |-> FALSE]

vars == <<job, wire, got, builder, sigs>>

-----------------------------------------------------------------------------
(***************************************************************************)
(* The messages: every field of a class with a value of its own.           *)
(***************************************************************************)
Fill(n, i, k) == [j \in 1 .. n |-> CASE k = 0 -> 0 [] k = 1 -> (16 * i + j) % 256 [] k = 2 -> 255]

AnAddress(type, i) ==
    [type |-> type, port |-> Num(9735),
     host |-> LET bs == Fill(HostBytes(type), i, 1)
              IN IF type = <<2>> THEN ipv6StringFromBuffer(bs) ELSE bs]

ScidOf(i, k) == IF k = 0 THEN <<<< >>, << >>, << >>>> ELSE <<Num(700 + i), Num(i), Num(300 * k)>>

Value(fd, i, k) ==
    CASE fd.f = "channelFlags" /\ fd.as = "announce" -> IF k = 0 THEN << >> ELSE <<1>>
      [] fd.as = "uint"   -> Trim(Fill(fd.n, i, k))
      [] fd.as = "bytes"  -> Fill(fd.n, i, k)
      [] fd.as = "scid"   -> ScidOf(i, k)
      [] fd.as = "vector" -> Fill(2 * k, i, 2 - k)
      [] fd.as \in {"features", "none"} -> IF k = 0 THEN << >> ELSE <<k, 128 + k>>
      [] fd.as = "flag"   -> k > 0
      [] fd.as = "scids"  -> [j \in 1 .. k |-> ScidOf(j, 1)]
      [] fd.as = "addresses" -> IF k = 0 THEN << >>
                                ELSE [t \in 1 .. 4 |-> AnAddress(<<IF k = 1 THEN t ELSE 5 - t>>, t)]
      [] fd.as = "maximum" -> Fill(8, i, 2)

Pairs(k) == [j \in 1 .. k |-> <<Num(j), Trim(Fill(4, j, 2))>>]

Records(name, k, queried) ==
    CASE name = "Init" -> "chainHashes" :> [j \in 1 .. k |-> Fill(32, j, 1)]
      [] name = "QueryShortChannelIds" -> "flags" :> queried
      [] name = "ReplyChannelRange" -> "timestamps" :> Pairs(k) @@ "checksums" :> Pairs(k)
      [] name = "QueryChannelRange" /\ k > 0 -> "timestamps" :> (k = 2) @@ "checksums" :> TRUE
      [] name \in {"OpenChannel", "AcceptChannel"} /\ k > 0 ->
            "upfrontShutdownScript" :> Fill(k - 1, 1, 1)
      [] name = Extended -> "outpoint" :> [txid |-> Fill(32, 1, 1), outputIndex |-> Num(300 * k)]
                            @@ "capacity" :> Trim(Fill(7, 1, k))
      [] OTHER -> << >>

Message(name, k, queried) ==
    LET ws == Writes(name)
        m  == FoldLeftDomain(LAMBDA acc, i : (ws[i].f :> Value(ws[i], i, k)) @@ acc, << >>, ws)
    IN  Records(name, k, queried) @@
        (IF name = "ChannelUpdate" /\ ~hasHtlcMaximumMsatFlag(m)
         THEN Restrict(m, DOMAIN m \ {"htlcMaximumMsat"}) ELSE m)

-----------------------------------------------------------------------------
(***************************************************************************)
(* The jobs.                                                               *)
(***************************************************************************)
Whole == [as |-> "whole"]

Gossips == {"ChannelAnnouncement", "NodeAnnouncement", "ChannelUpdate"}
Listing == {"QueryShortChannelIds", "ReplyChannelRange"}

Written(name, k, queried, encoding) == serialize(name, Message(name, k, queried), encoding)

FlagsOf(name) == IF name = "QueryShortChannelIds" THEN Flags ELSE {<< >>}

Manners(name, k, queried) ==
    {Whole}
    \cup [as : {"cut"}, at : 0 .. Len(Written(name, k, queried, Raw).buf) - 1]
    \cup (IF name \in Gossips THEN {[as |-> "trailing"]} ELSE {})
    \cup (IF name \in {"ChannelAnnouncement", "NodeAnnouncement"} THEN {[as |-> "padded"]} ELSE {})
    \cup (IF name = "NodeAnnouncement" THEN [as : {"unknown"}, bytes : Strange] ELSE {})
    \cup (IF name \in {"OpenChannel", "Init", "QueryChannelRange"} /\ k = 0
          THEN [as : {"records"}, recs : Extra] ELSE {})

MessageJobs ==
    UNION {UNION {[kind : {"message"}, name : {n}, k : {k}, flags : {fs}, encoding : {Raw},
                   how : Manners(n, k, fs)] : k \in Filling, fs \in FlagsOf(n)} : n \in Names}
    \cup UNION {[kind : {"message"}, name : {n}, k : Filling, flags : FlagsOf(n),
                 encoding : {ZlibDeflate}, how : {Whole}] : n \in Listing}

Codecs == {"bigSize", "varInt", "tu64", "u64LE", "u64BE"}

NumberJobs == [kind : {"number"}, codec : Codecs, n : Number, then : Number]

HostJobs == [kind : {"host"}, zero : SUBSET (1 .. 8)]

ScriptJobs == [kind : {"script"}, n : Number, neg : BOOLEAN, cmds : Script]

Alone == << >>    \* no height, no block
TxJobs == {[kind |-> "tx", height |-> Alone]}    \* in a block if it has a height

Init == /\ job \in MessageJobs \cup NumberJobs \cup HostJobs \cup ScriptJobs \cup TxJobs
        /\ wire = << >>
        /\ got = Nothing
        /\ TxInit

-----------------------------------------------------------------------------
(***************************************************************************)
(* Writing.                                                                *)
(***************************************************************************)
SentMessage == Message(job.name, job.k, job.flags)

RecordBytes(recs) == FlattenSeq([i \in DOMAIN recs |-> recs[i].bytes \o <<1, 77>>])

ArrivesAs(how, name, m, bs) ==
    CASE how.as = "whole"    -> bs
      [] how.as = "cut"      -> SubSeq(bs, 1, how.at)
      [] how.as = "trailing" -> bs \o <<7, 7>>
      [] how.as = "padded"   -> serialize(name, [m EXCEPT !["features"] = <<0>> \o @], Raw).buf
      [] how.as = "unknown"  -> SubSeq(bs, 1, Len(bs) - 2 - Len(AddressBytes(m)))
                                \o Padded(Num(Len(how.bytes)), 2) \o how.bytes
      [] how.as = "records"  -> bs \o RecordBytes(how.recs)

Send ==
    /\ job.kind = "message" /\ wire = << >> /\ got = Nothing
    /\ LET Sent(m, w) == /\ wire' = ArrivesAs(job.how, job.name, m, w.buf)
                         /\ got' = [read |-> FALSE, fits |-> w.ok]
       IN  Sent(SentMessage, Written(job.name, job.k, job.flags, job.encoding))
    /\ UNCHANGED <<job, txVars>>

\* What the receiver has then: the message, and its bytes when it writes it again.
Read(d) == [read |-> TRUE, fits |-> got.fits, ok |-> d.r.ok, ends |-> eof(d.r),
            m |-> IF d.r.ok THEN d.m ELSE << >>,
            again |-> IF d.r.ok THEN serialize(job.name, d.m, job.encoding) ELSE Refuse(BufferWriter(0))]

Receive ==
    /\ job.kind = "message" /\ "fits" \in DOMAIN got /\ ~got.read
    /\ got' = Read(deserialize(job.name, wire))
    /\ UNCHANGED <<job, wire, txVars>>

(***************************************************************************)
(* Two numbers, one after the other, by one codec.                         *)
(***************************************************************************)
WriteBy(w, codec, n) ==
    CASE codec = "bigSize" -> writeBigSize(w, n)
      [] codec = "varInt"  -> writeVarInt(w, n)
      [] codec = "tu64"    -> writeTUInt(w, n, 8)
      [] codec = "u64LE"   -> writeUIntLE(w, n, 8)
      [] codec = "u64BE"   -> writeUIntBE(w, n, 8)

ReadBy(r, codec) ==
    CASE codec = "bigSize" -> readBigSize(r)
      [] codec = "varInt"  -> readVarUint(r)
      [] codec = "tu64"    -> readTUInt(r, 8)
      [] codec = "u64LE"   -> readUIntLE(r, 8)
      [] codec = "u64BE"   -> readUIntBE(r, 8)

StreamReadBy(s, codec) ==
    CASE codec = "varInt" -> streamReadVarInt(s)
      [] codec = "u64LE"  -> streamReadUIntLE(s, 8)
      [] codec = "u64BE"  -> streamReadUIntBE(s, 8)
      [] OTHER -> streamReadBigSize(s)

\* A truncated number has no end of its own: only the last may be one.
SendNumbers ==
    /\ job.kind = "number" /\ wire = << >> /\ got = Nothing
    /\ LET w == WriteBy(BufferWriter(Unlimited), job.codec, job.n)
       IN  /\ wire' = (IF job.codec = "tu64" THEN w ELSE WriteBy(w, job.codec, job.then)).buf
           /\ got' = [read |-> FALSE, fits |-> w.ok]
    /\ UNCHANGED <<job, txVars>>

ReceiveNumbers ==
    /\ job.kind = "number" /\ "fits" \in DOMAIN got /\ ~got.read
    /\ LET one == ReadBy(BufferReader(wire), job.codec)
           two == ReadBy(one, job.codec)
           s   == StreamReadBy(StreamReader(wire), job.codec)
       IN  got' = [read |-> TRUE, fits |-> got.fits, ok |-> two.ok, ends |-> eof(two),
                   n |-> one.val, then |-> two.val,
                   stream |-> s.val, taken |-> s.pos,
                   peeked |-> peakRest(BufferReader(wire)).val, flags |-> flags(one.val)]
    /\ UNCHANGED <<job, wire, txVars>>

\* A host whose groups are zero in places: its text, and the bytes made of it.
SendHost ==
    /\ job.kind = "host" /\ wire = << >>
    /\ wire' = FlattenSeq([i \in 1 .. 8 |-> IF i \in job.zero THEN <<0, 0>> ELSE <<i % 2, 16 * i>>])
    /\ got' = [read |-> TRUE, bytes |-> toBuffer(ipv6StringToBuffer(ipv6StringFromBuffer(wire')))]
    /\ UNCHANGED <<job, txVars>>

(***************************************************************************)
(* A script that begins with a number.                                      *)
(***************************************************************************)
ScriptOf(j) == <<scriptNumber(j.n, j.neg)>> \o j.cmds

SendScript ==
    /\ job.kind = "script" /\ wire = << >>
    /\ LET b == serializeCmds(ScriptOf(job))
           c == readCmds(b.buf)
       IN  /\ wire' = b.buf
           /\ got' = [read |-> TRUE, fits |-> b.ok, ok |-> c.r.ok, cmds |-> c.v]
    /\ UNCHANGED <<job, txVars>>

(***************************************************************************)
(* A transaction; in a block it comes after a coinbase with the height.    *)
(***************************************************************************)
Coinbase(h) ==
    [version |-> <<1>>, outputs |-> << >>, locktime |-> << >>,
     inputs |-> <<[txid |-> Zeros(32), outputIndex |-> <<255, 255, 255, 255>>,
                   scriptSig |-> serializeCmds(<<scriptNumber(h, FALSE)>>).buf,
                   sequence |-> <<255, 255, 255, 255>>, witness |-> <<Zeros(32)>>]>>]

BlockOf(h, tx) ==
    [version |-> <<32, 0, 0, 4>>, previousBlockHash |-> Fill(32, 1, 1), merkleRoot |-> Fill(32, 2, 1),
     timestamp |-> Fill(4, 3, 1), coefficient |-> Fill(3, 4, 1), exponent |-> <<29>>,
     nonce |-> Fill(4, 5, 1), txs |-> <<Coinbase(h), tx>>]

BuildTx == job.kind = "tx" /\ wire = << >> /\ Build /\ UNCHANGED <<job, wire, got>>

SendTx ==
    /\ job.kind = "tx" /\ wire = << >> /\ sigs = << >>    \* its bytes have no part of sigs
    /\ \E h \in {Alone} \cup (IF builder.inputs = << >> THEN {} ELSE Height) :
          /\ job' = [job EXCEPT !.height = h]
          /\ wire' = IF h = Alone THEN txBytes(toTx(builder)) ELSE blockBytes(BlockOf(h, toTx(builder)))
    /\ UNCHANGED <<got, txVars>>

Parsed(t) == [read |-> TRUE, ok |-> t.r.ok, ends |-> eof(t.r), m |-> IF t.r.ok THEN t.v ELSE << >>]

ReceiveTx ==
    /\ job.kind = "tx" /\ wire # << >> /\ ~got.read
    /\ got' = Parsed(IF job.height = Alone THEN fromBuffer(wire) ELSE blockFromBuffer(wire))
    /\ UNCHANGED <<job, wire, txVars>>

Next == Send \/ Receive \/ SendNumbers \/ ReceiveNumbers \/ SendHost \/ SendScript
        \/ BuildTx \/ SendTx \/ ReceiveTx

Spec == Init /\ [][Next]_vars

-----------------------------------------------------------------------------
(***************************************************************************)
(* Properties.                                                             *)
(***************************************************************************)
Received == job.kind = "message" /\ got.read

OneByteFlags == job.flags \in Seq([1 .. 1 -> 1 .. 252])

\* Every class reads back each field it wrote, stops where the bytes stop, fills the
\* buffer it allocated to the last byte, and writes the same bytes again.  The exception
\* is a flag of query_short_channel_ids that is zero, which has no byte, or above 252:
\* it is written as it is and read as a BigSize, and these flags are never read back.
WhatIsWrittenIsRead ==
    Received /\ job.how = Whole =>
        /\ got.fits
        /\ got.m = SentMessage <=> OneByteFlags
        /\ OneByteFlags => got.ok /\ got.ends /\ got.again.ok /\ got.again.buf = wire
        /\ job.name = "ChannelUpdate" =>
              LET Full(w) == w.ok /\ size(w) = w.room IN Full(checksumBytes(got.m))

\* A message that stops early is refused; when it is not, it stopped between two of its
\* optional records, and what was read is all there is in it: no field is ever short.
CutIsNoticed ==
    Received /\ job.how.as = "cut" /\ got.ok =>
        /\ HasTlvs(job.name) /\ got.ends
        /\ got.m # SentMessage
        /\ job.name = Extended \/ (got.again.ok /\ got.again.buf = wire)

AfterSignatures(name) == 2 + 64 * Cardinality({fd \in ToSet(Writes(name)) : fd.as = "bytes" /\ fd.n = 64})

\* The signatures of gossip are verified over, and peers are sent, what serialize makes of
\* the message that was read: these are the bytes that came, except when the sender padded
\* the features, appended bytes or used an address type unknown here.
RelayedUnchangedOrNotCanonical ==
    Received /\ job.name \in Gossips /\ got.ok =>
        (job.how = Whole <=>
            /\ got.again.ok
            /\ got.again.buf = wire
            /\ signedBytes(job.name, got.m) = SubSeq(wire, AfterSignatures(job.name) + 1, Len(wire)))

\* Records after the fields are read when their types grow, are canonical and, if even,
\* known; the known fields are then those of the message without them.
RecordsAreStrict ==
    Received /\ job.how.as = "records" =>
        LET recs == job.how.recs
            Valid == /\ \A i \in DOMAIN recs : recs[i].canonical /\ recs[i].type % 2 = 1
                     /\ \A i \in DOMAIN recs : i > 1 => recs[i - 1].type < recs[i].type
        IN  /\ got.ok <=> Valid
            /\ got.ok => got.m = SentMessage

\* The number a command of a script stands for.
StandsFor(c) == IF "op" \notin DOMAIN c THEN decodeNum(c.data)
                ELSE [n |-> IF c.op = 0 THEN << >> ELSE Num(c.op - 80), neg |-> FALSE]

NumberReadBack ==
    /\ got.fits /\ got.ok /\ got.ends
    /\ got.n = job.n /\ got.peeked = wire
    /\ job.codec # "tu64" => got.then = job.then /\ got.stream = job.n
    /\ job.codec = "varInt" => got.taken = varIntBytes(job.n)
    /\ LET set == {i \in 0 .. 8 * Len(job.n) : isSet(job.n, i)}
       IN  got.flags = IF Cardinality(set) = 1 THEN {} ELSE set

ScriptReadBack ==
    /\ got.fits <=> \A i \in DOMAIN job.cmds :
                       "data" \in DOMAIN job.cmds[i] => Len(job.cmds[i].data) \in 1 .. 520
    /\ got.fits => /\ got.ok /\ got.cmds = ScriptOf(job)
                   /\ StandsFor(got.cmds[1]) = [n |-> job.n, neg |-> job.neg /\ job.n # << >>]

\* What is written stands for what it was made from.  A number is read back whatever its
\* codec, by the readers over a buffer and over a stream; a flag is lost from the list of
\* flags if and only if it is the only one.  An IPv6 host keeps its bytes, whichever of its
\* groups are zero.  A script keeps its commands, if no data is empty or longer than 520
\* bytes, and the sign and value of its number.
ValuesReadBack ==
    got.read =>
        /\ job.kind = "number" => NumberReadBack
        /\ job.kind = "host" => got.bytes = wire
        /\ job.kind = "script" => ScriptReadBack

SentTx == toTx(builder)

\* Without inputs the number of outputs is taken for flags, and a first value that ends in
\* a zero byte for no inputs: bytes are then left over, which nothing checks.
TakenForWitness ==
    /\ SentTx.inputs = << >> /\ SentTx.outputs # << >>
    /\ Padded(SentTx.outputs[1].value, 8)[8] = 0
    /\ got.ok /\ ~got.ends /\ got.m.inputs = << >>

Stripped(tx) == [tx EXCEPT !.inputs = [i \in DOMAIN @ |-> [@[i] EXCEPT !.witness = << >>]]]

\* The delay a sequence stands for is the one asked for, in blocks or in steps of 512 s.
Delays(n, d) ==
    LET unit == IF isTimeMode(n) THEN 512 ELSE 1
    IN  /\ enabled(n) /\ isRBFSignaled(n) /\ isTimeMode(n) = d.time
        /\ unit * sequenceDelay(n) \in d.amount .. d.amount + unit - 1

\* A transaction is read back whole, witnesses of some inputs only, none or all, and again
\* in a block with its height, above the 16 that are opcodes; the exception is one without
\* inputs that is taken for another.  Its id is that of its stripped form, and the sizes it
\* computes are those of its bytes.
TransactionsReadBack ==
    job.kind = "tx" /\ got.read =>
        LET tx   == SentTx
            ids  == _calcTxId(tx)
            sums == _calcSize(tx)
            len  == Len(txBytes(tx))
        IN  /\ job.height = Alone => (got.ok /\ got.ends /\ got.m = tx) \/ TakenForWitness
            /\ job.height # Alone =>
                    /\ got.ok /\ got.ends /\ got.m = BlockOf(job.height, tx)
                    /\ LET b == bip34Height(got.m)
                       IN  IF Len(job.height) <= 1 /\ ToNat(job.height) <= 16
                           THEN ~b.ok ELSE b.ok /\ b.height = {job.height}
            /\ \A i \in DOMAIN tx.inputs : \A in \in TxInputs :
                  in.txid = tx.inputs[i].txid => Delays(tx.inputs[i].sequence, in.delay)
            /\ ids.txId = _calcTxId(Stripped(tx)).txId
            /\ ids.hash = ids.txId <=> tx = Stripped(tx)
            /\ sums.size = len
            /\ sums.weight = 3 * Len(txBytes(Stripped(tx))) + len

=============================================================================
