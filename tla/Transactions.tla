---------------------------- MODULE Transactions ----------------------------
(***************************************************************************)
(* Scripts, transactions and blocks of packages/bitcoin as bytes.  A       *)
(* parser takes a StreamReader and returns [r, v]: the reader it leaves    *)
(* and the object; r.ok = FALSE when it threw.  Serializers return bytes.  *)
(*                                                                         *)
(* A transaction has version, inputs, outputs and locktime; an input txid, *)
(* outputIndex, scriptSig, sequence and witness, a sequence of byte        *)
(* strings; an output value and scriptPubKey.                              *)
(***************************************************************************)
EXTENDS Bufio, SequencesExt

Hash(x) == <<"hash256", x>>    \* one to one

LE(n, width) == Flip(Padded(n, width))
CountBytes(k) == encodeVarInt(Num(k)).buf
WithLength(bs) == CountBytes(Len(bs)) \o bs

\* n items, the first that throws being the last that is read.
ReadItems(s, n, Item(_)) ==
    LET RECURSIVE From(_, _)
        From(all, k) == IF k = 0 \/ ~all.r.ok THEN all
                        ELSE LET More(it) == From([r |-> it.r, v |-> Append(all.v, it.v)], k - 1)
                             IN  More(Item(all.r))
    IN  From([r |-> s, v |-> << >>], n)

ReadMany(s, Item(_)) ==
    LET Counted(count) == ReadItems(count, ToNat(count.val), Item) IN Counted(streamReadVarInt(s))

-----------------------------------------------------------------------------
(***************************************************************************)
(* Numbers on the stack, commands and scripts.  A command is [op |-> byte] *)
(* or [data |-> bytes]; a number has a sign, neg.                          *)
(***************************************************************************)
encodeNum(n, neg) ==
    IF n = << >> THEN << >>
    ELSE IF n[1] >= 128 THEN Flip(n) \o <<IF neg THEN 128 ELSE 0>>
    ELSE Flip(IF neg THEN <<n[1] + 128>> \o Tail(n) ELSE n)

decodeNum(bs) ==
    LET be  == Flip(bs)
        neg == bs # << >> /\ be[1] >= 128
    IN  [n |-> Trim(IF neg THEN <<be[1] - 128>> \o Tail(be) ELSE be), neg |-> neg]

scriptNumber(n, neg) ==
    IF n = << >> THEN [op |-> 0]
    ELSE IF ~neg /\ Len(n) = 1 /\ n[1] <= 16 THEN [op |-> 80 + n[1]]
    ELSE [data |-> encodeNum(n, neg)]

OP_PUSHDATA1 == 76
OP_PUSHDATA2 == 77

ShortPush(len) == len <= 76    \* a variant: one byte too many for OP_PUSHBYTES

DirectPush(len) == len <= 75

\* ok = FALSE: "Data too long", which no data is too.
serializeCmds(cmds) ==
    LET Bytes(c) == IF "op" \in DOMAIN c THEN <<c.op>>
                    ELSE IF DirectPush(Len(c.data)) THEN <<Len(c.data)>> \o c.data
                    ELSE IF Len(c.data) <= 255 THEN <<OP_PUSHDATA1, Len(c.data)>> \o c.data
                    ELSE <<OP_PUSHDATA2>> \o LE(Num(Len(c.data)), 2) \o c.data
    IN  [ok |-> \A i \in DOMAIN cmds : "data" \in DOMAIN cmds[i] => Len(cmds[i].data) \in 1 .. 520,
         buf |-> FlattenSeq([i \in DOMAIN cmds |-> Bytes(cmds[i])])]

\* One command off a BufferReader; readCmds yields them until the end.
readCmd(r) ==
    LET op   == readUIntBE(r, 1)
        code == ToNat(op.val)
        n    == CASE code = OP_PUSHDATA1 -> readUIntBE(op, 1)
                  [] code = OP_PUSHDATA2 -> readUIntLE(op, 2)
                  [] OTHER -> [op EXCEPT !.val = Num(code)]
        d    == readBytes(n, ToNat(n.val))
    IN  IF op.ok /\ code \in 1 .. OP_PUSHDATA2
        THEN [r |-> d, v |-> [data |-> d.val]] ELSE [r |-> op, v |-> [op |-> code]]

readCmds(bs) ==
    LET RECURSIVE From(_)
        From(r) == IF eof(r) \/ ~r.ok THEN [r |-> r, v |-> << >>]
                   ELSE LET c    == readCmd(r)
                            rest == From(c.r)
                        IN  [r |-> rest.r, v |-> <<c.v>> \o rest.v]
    IN  From(BufferReader(bs))

-----------------------------------------------------------------------------
(***************************************************************************)
(* The locking scripts, of hashes and keys.  One of a hash of another      *)
(* length, or of more than 20 keys, throws: it is no script, << >>.        *)
(***************************************************************************)
OP_0 == [op |-> 0]
OP_DUP == [op |-> 118]
OP_EQUAL == [op |-> 135]
OP_EQUALVERIFY == [op |-> 136]
OP_HASH160 == [op |-> 169]
OP_CHECKSIG == [op |-> 172]
OP_CHECKMULTISIG == [op |-> 174]

Data(bs) == [data |-> bs]

p2pkhLock(hash) == IF Len(hash) # 20 THEN << >>
                   ELSE <<OP_DUP, OP_HASH160, Data(hash), OP_EQUALVERIFY, OP_CHECKSIG>>
p2shLock(hash) == IF Len(hash) # 20 THEN << >> ELSE <<OP_HASH160, Data(hash), OP_EQUAL>>
p2wpkhLock(hash) == IF Len(hash) # 20 THEN << >> ELSE <<OP_0, Data(hash)>>
p2wshLock(hash) == IF Len(hash) # 32 THEN << >> ELSE <<OP_0, Data(hash)>>

p2msLock(m, pubkeys) ==
    IF m \notin 1 .. Len(pubkeys) \/ Len(pubkeys) > 20 THEN << >>
    ELSE <<scriptNumber(Num(m), FALSE)>> \o [i \in DOMAIN pubkeys |-> Data(pubkeys[i])]
         \o <<scriptNumber(Num(Len(pubkeys)), FALSE), OP_CHECKMULTISIG>>

-----------------------------------------------------------------------------
(***************************************************************************)
(* Sequence.  A delay in blocks, or in seconds rounded up to units of 512; *)
(* bit 22 tells them apart and bit 31 disables both.                       *)
(***************************************************************************)
TimeBit == 64    \* 1 << 22, in the second byte

blockDelay(blocks) == [ok |-> blocks <= 65535, value |-> Num(blocks)]

timeDelay(seconds) ==
    LET n == (seconds + 511) \div 512
    IN  [ok |-> n <= 65535, value |-> Num((65536 * TimeBit) + (n % 65536))]

sequenceDelay(n) == LET p == Padded(n, 4) IN (256 * p[3]) + p[4]

\* value >> 22 === 1: the higher bits count too.
isTimeMode(n) == LET p == Padded(n, 4) IN p[1] = 0 /\ p[2] \div TimeBit = 1

enabled(n) == Len(n) < 4 \/ n[1] < 128

isRBFSignaled(n) == n # <<255, 255, 255, 255>> /\ n # <<255, 255, 255, 254>>

-----------------------------------------------------------------------------
(***************************************************************************)
(* The parts of a transaction.                                             *)
(***************************************************************************)
outPointBytes(in) ==
    LET w == writeBytes(BufferWriter(36), in.txid)
    IN  toBuffer(writeUIntLE(w, in.outputIndex, 4))

inputBytes(in) == outPointBytes(in) \o WithLength(in.scriptSig) \o LE(in.sequence, 4)

outputBytes(out) == LE(out.value, 8) \o WithLength(out.scriptPubKey)

locktimeBytes(n) == toBuffer(writeUIntLE(BufferWriter(4), n, 4))

Prefixed(s) == LET Rest(n) == streamRead(n, ToNat(n.val)) IN Rest(streamReadVarInt(s))

parseWitness(s) == LET d == Prefixed(s) IN [r |-> d, v |-> d.val]

parseInput(s) ==
    LET txid  == streamRead(s, 32)
        index == streamReadUIntLE(txid, 4)
        sig   == Prefixed(index)
        seq   == streamReadUIntLE(sig, 4)
    IN  [r |-> seq, v |-> [txid |-> txid.val, outputIndex |-> index.val, scriptSig |-> sig.val,
                           sequence |-> seq.val, witness |-> << >>]]

parseOutput(s) ==
    LET value == streamReadUIntLE(s, 8)
        lock  == Prefixed(value)
    IN  [r |-> lock, v |-> [value |-> value.val, scriptPubKey |-> lock.val]]

parseInputs(s) == ReadMany(s, parseInput)
parseOutputs(s) == ReadMany(s, parseOutput)

-----------------------------------------------------------------------------
(***************************************************************************)
(* Tx.                                                                     *)
(***************************************************************************)
firstIsSegWit(tx) == tx.inputs # << >> /\ tx.inputs[1].witness # << >>    \* a variant

isSegWit(tx) == \E i \in DOMAIN tx.inputs : tx.inputs[i].witness # << >>

Inputs(tx) == CountBytes(Len(tx.inputs)) \o FlattenSeq([i \in DOMAIN tx.inputs |-> inputBytes(tx.inputs[i])])
Outputs(tx) == CountBytes(Len(tx.outputs)) \o FlattenSeq([i \in DOMAIN tx.outputs |-> outputBytes(tx.outputs[i])])

witnessBytes(in) ==
    CountBytes(Len(in.witness)) \o FlattenSeq([k \in DOMAIN in.witness |-> WithLength(in.witness[k])])

_serializeLegacy(tx) == LE(tx.version, 4) \o Inputs(tx) \o Outputs(tx) \o locktimeBytes(tx.locktime)

_serializeSegWit(tx) ==
    LE(tx.version, 4) \o <<0, 1>> \o Inputs(tx) \o Outputs(tx)
    \o (IF isSegWit(tx) THEN FlattenSeq([i \in DOMAIN tx.inputs |-> witnessBytes(tx.inputs[i])]) ELSE << >>)
    \o locktimeBytes(tx.locktime)

txBytes(tx) == IF isSegWit(tx) THEN _serializeSegWit(tx) ELSE _serializeLegacy(tx)

_calcTxId(tx) ==
    [txId |-> Hash(_serializeLegacy(tx)),
     hash |-> Hash(IF isSegWit(tx) THEN _serializeSegWit(tx) ELSE _serializeLegacy(tx))]

\* The sizes are added up from the parts, not taken from the bytes.
_calcSize(tx) ==
    LET Sized(len)   == varIntBytes(Num(len)) + len
        Total(f)     == FoldLeft(+, 0, f)
        standard     == 4 + varIntBytes(Num(Len(tx.inputs)))
                        + Total([i \in DOMAIN tx.inputs |-> 32 + 4 + Sized(Len(tx.inputs[i].scriptSig)) + 4])
                        + varIntBytes(Num(Len(tx.outputs)))
                        + Total([i \in DOMAIN tx.outputs |-> 8 + Sized(Len(tx.outputs[i].scriptPubKey))])
                        + 4
        OfInput(in)  == varIntBytes(Num(Len(in.witness)))
                        + Total([k \in DOMAIN in.witness |-> Sized(Len(in.witness[k]))])
        witness      == IF isSegWit(tx)
                        THEN 2 + Total([i \in DOMAIN tx.inputs |-> OfInput(tx.inputs[i])]) ELSE 0
        weight       == standard * 4 + witness
    IN  [size |-> standard + witness, weight |-> weight, vsize |-> (weight + 3) \div 4]

\* The witnesses follow the outputs, one list an input.
parseWitnesses(s, inputs) ==
    LET Add(acc, i) == IF ~acc.r.ok THEN acc
                       ELSE LET With(w) == [r |-> w.r, v |-> [acc.v EXCEPT ![i].witness = w.v]]
                            IN  With(ReadMany(acc.r, parseWitness))
    IN  FoldLeft(Add, [r |-> s, v |-> inputs], [i \in DOMAIN inputs |-> i])

\* The locktime ends a transaction, whose parts are read.
EndOfTx(s, version, inputs, outputs) ==
    LET lock == streamReadUIntLE(s, 4)
    IN  [r |-> lock,
         v |-> [version |-> version, inputs |-> inputs, outputs |-> outputs, locktime |-> lock.val]]

AfterOutputs(vins, vouts, version, hasWitness) ==
    LET End(full) == EndOfTx(full.r, version, full.v, vouts.v)
    IN  End(IF hasWitness THEN parseWitnesses(vouts.r, vins.v) ELSE [r |-> vouts.r, v |-> vins.v])

AfterInputs(vins, version, hasWitness) ==
    AfterOutputs(vins, parseOutputs(vins.r), version, hasWitness)

\* What follows the flags, the last value read; bit 0 is for witnesses.  Without flags the
\* outputs are left undefined, which the constructor takes for none.
AfterFlags(flag, version) ==
    IF flag.val = << >>
    THEN EndOfTx(flag, version, << >>, << >>)
    ELSE AfterInputs(parseInputs(flag), version, flag.val[1] % 2 = 1)

\* No inputs: the byte that follows is the flags of a witness transaction, or the number
\* of outputs of one without.
FlagsOrOutputs(vins, version, allowWitness) ==
    IF allowWitness /\ vins.v = << >>
    THEN AfterFlags(streamReadUIntLE(vins.r, 1), version)
    ELSE AfterInputs(vins, version, FALSE)

parseTx(s, allowWitness) ==
    LET version == streamReadUIntLE(s, 4)
    IN  FlagsOrOutputs(parseInputs(version), version.val, allowWitness)

\* fromBuffer, by safeDecode: the legacy format only when the other one threw.
OrLegacy(t, bs) == IF t.r.ok THEN t ELSE parseTx(StreamReader(bs), FALSE)

fromBuffer(bs) == OrLegacy(parseTx(StreamReader(bs), TRUE), bs)

-----------------------------------------------------------------------------
(***************************************************************************)
(* Block: a header of six fields and transactions with witnesses.          *)
(***************************************************************************)
headerBytes(b) ==
    LET w1 == writeUIntLE(BufferWriter(80), b.version, 4)
        w2 == writeBytes(writeBytes(w1, b.previousBlockHash), b.merkleRoot)
        w3 == writeUIntLE(w2, b.timestamp, 4)
        w4 == writeUIntBE(writeUIntLE(w3, b.coefficient, 3), b.exponent, 1)
    IN  toBuffer(writeUIntLE(w4, b.nonce, 4))

blockBytes(b) ==
    headerBytes(b) \o CountBytes(Len(b.txs)) \o FlattenSeq([i \in DOMAIN b.txs |-> txBytes(b.txs[i])])

parseHeader(r) ==
    LET version == readUIntLE(r, 4)
        prev    == readBytes(version, 32)
        root    == readBytes(prev, 32)
        time    == readUIntLE(root, 4)
        coef    == readUIntLE(time, 3)
        expo    == readUIntBE(coef, 1)
        nonce   == readUIntLE(expo, 4)
    IN  [r |-> nonce,
         v |-> [version |-> version.val, previousBlockHash |-> prev.val, merkleRoot |-> root.val,
                timestamp |-> time.val, coefficient |-> coef.val, exponent |-> expo.val,
                nonce |-> nonce.val]]

TxsOf(s, n) == LET WithWitness(r) == parseTx(r, TRUE) IN ReadItems(s, n, WithWitness)

AfterHeader(header, n) ==
    LET s == StreamReader(readRest(n).val)
        Whole(txs) == [r |-> txs.r, v |-> header @@ ("txs" :> txs.v)]
    IN  Whole(TxsOf(IF n.ok THEN s ELSE Throw(s), ToNat(n.val)))

blockFromBuffer(bs) ==
    LET Rest(h) == AfterHeader(h.v, readVarUint(h.r)) IN Rest(parseHeader(BufferReader(bs)))

\* The height, if the block has one; bigFromBufLE throws on an opcode.
bip34Height(b) ==
    LET script == b.txs[1].inputs[1].scriptSig
        first  == readCmd(BufferReader(script))
        None   == ToNat(b.version) < 2 \/ script = << >>
    IN  [ok |-> None \/ (first.r.ok /\ "data" \in DOMAIN first.v),
         height |-> IF None \/ "op" \in DOMAIN first.v THEN {} ELSE {Trim(Flip(first.v.data))}]

=============================================================================
