------------------------------ MODULE TxBuilder ------------------------------
(***************************************************************************)
(* TxBuilder: a transaction that is put together and signed call by call.  *)
(* hashSegwitv0 keeps the hashes of the outpoints, the sequences and the   *)
(* outputs from its first call on.                                         *)
(***************************************************************************)
EXTENDS Transactions

CONSTANTS
    TxInputs,     \* txid, outputIndex and the delay of its sequence
    TxOutputs,
    Items,        \* pieces of witness and of scriptSig
    Commit,       \* the script a signature commits to
    MaxInputs, MaxOutputs, MaxParts, MaxItems, MaxSigs    \* bounds; MaxParts: of both together

VARIABLES
    builder,      \* version, inputs, outputs, locktime and the hashes that are kept
    sigs          \* the signatures made, in order

txVars == <<builder, sigs>>

Undefined == <<"undefined">>

NewBuilder ==
    [version |-> <<2>>, inputs |-> << >>, outputs |-> << >>, locktime |-> <<255, 255, 255, 255>>,
     hashPrevOuts |-> Undefined, hashSequence |-> Undefined, hashOutputs |-> Undefined]

TxInit == builder = NewBuilder /\ sigs = << >>

-----------------------------------------------------------------------------
Room == Len(builder.inputs) + Len(builder.outputs) < MaxParts

SequenceOf(d) == IF d.time THEN timeDelay(d.amount) ELSE blockDelay(d.amount)

\* A delay that does not fit throws.
addInput(in) ==
    /\ Len(builder.inputs) < MaxInputs /\ Room
    /\ SequenceOf(in.delay).ok
    /\ LET vin == [txid |-> in.txid, outputIndex |-> in.outputIndex, scriptSig |-> << >>,
                   sequence |-> SequenceOf(in.delay).value, witness |-> << >>]
       IN  builder' = [builder EXCEPT !.inputs = Append(@, vin)]
    /\ UNCHANGED sigs

addOutput(out) ==
    /\ Len(builder.outputs) < MaxOutputs /\ Room
    /\ builder' = [builder EXCEPT !.outputs = Append(@, out)]
    /\ UNCHANGED sigs

\* Both throw when the index is out of range.
addWitness(index, item) ==
    /\ Len(builder.inputs[index].witness) < MaxItems
    /\ builder' = [builder EXCEPT !.inputs[index].witness = Append(@, item)]
    /\ UNCHANGED sigs

setScriptSig(index, script) ==
    /\ builder' = [builder EXCEPT !.inputs[index].scriptSig = script]
    /\ UNCHANGED sigs

setLockTime(n) ==
    /\ builder' = [builder EXCEPT !.locktime = n]
    /\ UNCHANGED sigs

-----------------------------------------------------------------------------
(***************************************************************************)
(* What is signed: hashes of the bytes, the scriptSig of the signed input  *)
(* being the committed script and that of the others empty; or, for an     *)
(* input with a witness, its value and the kept hashes (BIP 143).          *)
(***************************************************************************)
scriptsKept(b, input, script) ==    \* a variant that does not blank the other scripts
    LET Signed(i) == IF i = input THEN [b.inputs[i] EXCEPT !.scriptSig = script] ELSE b.inputs[i]
    IN  Hash(_serializeLegacy([b EXCEPT !.inputs = [i \in DOMAIN @ |-> Signed(i)]]) \o LE(<<1>>, 4))

hashLegacy(b, input, script) ==
    LET Signed(i) == [b.inputs[i] EXCEPT !.scriptSig = IF i = input THEN script ELSE << >>]
    IN  Hash(_serializeLegacy([b EXCEPT !.inputs = [i \in DOMAIN @ |-> Signed(i)]]) \o LE(<<1>>, 4))

Kept(kept, bytes) == IF kept = Undefined THEN Hash(bytes) ELSE kept

withHashes(b) ==
    LET All(F(_)) == FlattenSeq([i \in DOMAIN b.inputs |-> F(b.inputs[i])])
        SequenceBytes(in) == LE(in.sequence, 4)
    IN  [b EXCEPT !.hashPrevOuts = Kept(@, All(outPointBytes)),
                  !.hashSequence = Kept(@, All(SequenceBytes)),
                  !.hashOutputs  = Kept(@, FlattenSeq([i \in DOMAIN b.outputs |-> outputBytes(b.outputs[i])]))]

hashSegwitv0(b, index, script, value) ==
    LET h  == withHashes(b)
        in == b.inputs[index]
    IN  Hash(<<LE(b.version, 4), h.hashPrevOuts, h.hashSequence, outPointBytes(in), WithLength(script),
               LE(value, 8), LE(in.sequence, 4), h.hashOutputs, locktimeBytes(b.locktime), LE(<<1>>, 4)>>)

SpentValue == <<3, 232>>

\* What a signature of either kind commits to, and what the hashes were taken of.
Core(b) == <<[i \in DOMAIN b.inputs |-> <<b.inputs[i].txid, b.inputs[i].outputIndex, b.inputs[i].sequence>>],
             b.outputs>>
Committed(b) == <<Core(b), b.locktime>>

HashedFirst(b) == IF \E k \in DOMAIN sigs : sigs[k].segwit
                  THEN sigs[CHOOSE k \in DOMAIN sigs :
                                sigs[k].segwit /\ \A j \in 1 .. k - 1 : ~sigs[j].segwit].of[1]
                  ELSE Core(b)

sign(input) ==
    /\ Len(sigs) < MaxSigs
    /\ sigs' = Append(sigs, [segwit |-> FALSE, input |-> input, of |-> Committed(builder),
                             digest |-> hashLegacy(builder, input, Commit)])
    /\ UNCHANGED builder

signSegWitv0(input) ==
    /\ Len(sigs) < MaxSigs
    /\ sigs' = Append(sigs, [segwit |-> TRUE, input |-> input, of |-> Committed(builder),
                             hashed |-> HashedFirst(builder),
                             digest |-> hashSegwitv0(builder, input, Commit, SpentValue)])
    /\ builder' = withHashes(builder)

\* toTx copies the transaction; what is kept for hashing does not go with it.
toTx(b) == [version |-> b.version, inputs |-> b.inputs, outputs |-> b.outputs, locktime |-> b.locktime]

Build ==
    \/ \E in \in TxInputs : addInput(in)
    \/ \E out \in TxOutputs : addOutput(out)
    \/ \E i \in DOMAIN builder.inputs, item \in Items : addWitness(i, item)
    \/ \E i \in DOMAIN builder.inputs, item \in Items : setScriptSig(i, item)
    \/ \E n \in {<< >>, <<255, 255, 255, 255>>} : setLockTime(n)
    \/ \E i \in DOMAIN builder.inputs : sign(i)
    \/ \E i \in DOMAIN builder.inputs : signSegWitv0(i)

-----------------------------------------------------------------------------
(***************************************************************************)
(* Properties.                                                             *)
(***************************************************************************)

\* What the network checks a signature of transaction tx against.
Checked(tx, s) ==
    LET b == [NewBuilder EXCEPT !.version = tx.version, !.inputs = tx.inputs,
                                !.outputs = tx.outputs, !.locktime = tx.locktime]
    IN  IF s.segwit THEN hashSegwitv0(b, s.input, Commit, SpentValue) ELSE hashLegacy(b, s.input, Commit)

\* Witnesses and scripts may be put in while others still sign; an input, an output or a
\* locktime that changes makes a signature void, and a witness signature is void too when
\* the change lies between the first of them and itself, because of the hashes kept.
SignaturesHold ==
    \A k \in DOMAIN sigs :
        LET s == sigs[k]
        IN  sigs[k].digest = Checked(toTx(builder), s)
            <=> s.of = Committed(builder) /\ (s.segwit => s.hashed = Core(builder))

=============================================================================
