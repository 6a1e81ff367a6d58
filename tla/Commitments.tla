----------------------------- MODULE Commitments -----------------------------
(***************************************************************************)
(* The transactions of a channel: the funding output, a commitment         *)
(* transaction and the second-stage transactions of its HTLCs              *)
(* (channels/ScriptFactory.ts, channels/TxFactory.ts).                     *)
(*                                                                         *)
(* A script is the record of what it commits to; the address it is locked  *)
(* to is the length of the program and a hash, which outputs sort by.      *)
(***************************************************************************)
EXTENDS CommitmentKeys, OpeningRules

p2wshLock(script, committed) == [size |-> 32, hash |-> Sha256(committed), script |-> script]
p2wpkhLock(key) == [size |-> 20, hash |-> Sha256(<<key.dlog>>), script |-> [pays |-> key]]

\* The bare script of the public keys in order, whoever opens the channel.
fundingScript(openPubKey, acceptPubKey) ==
    LET low == IF openPubKey.dlog <= acceptPubKey.dlog THEN openPubKey ELSE acceptPubKey
        high == IF low = openPubKey THEN acceptPubKey ELSE openPubKey
    IN [multisig |-> <<low, high>>]

toLocalScript(revocationPubKey, delayedPubKey, toSelfDelay) ==
    p2wshLock([revocation |-> revocationPubKey, delayed |-> delayedPubKey, delay |-> toSelfDelay],
              <<3, revocationPubKey.dlog, toSelfDelay, delayedPubKey.dlog>>)

offeredHtlcScript(paymentHash, revocation, localHtlc, remoteHtlc) ==
    p2wshLock([revocation |-> revocation, byTimeout |-> localHtlc, byPreimage |-> remoteHtlc,
               paymentHash |-> paymentHash],
              <<4, revocation.dlog, remoteHtlc.dlog, localHtlc.dlog, paymentHash>>)

receivedHtlcScript(paymentHash, cltvExpiry, revocation, localHtlc, remoteHtlc) ==
    p2wshLock([revocation |-> revocation, byPreimage |-> localHtlc, byTimeout |-> remoteHtlc,
               paymentHash |-> paymentHash, cltvExpiry |-> cltvExpiry],
              <<5, revocation.dlog, remoteHtlc.dlog, paymentHash, localHtlc.dlog, cltvExpiry>>)

TxOut(value, lock) == [value |-> value, lock |-> lock]

createFundingOutput(value, openPubKey, acceptPubKey) ==
    LET script == fundingScript(openPubKey, acceptPubKey)
    IN TxOut(value, p2wshLock(script, <<2, script.multisig[1].dlog, script.multisig[2].dlog>>))

(***************************************************************************)
(* An HTLC: [direction, value, cltvExpiry, paymentHash], its direction as  *)
(* our node sees it.  reverseHtlcs says that the commitment is held by the *)
(* counterpart, for whom what we offer is received.                        *)
(***************************************************************************)
OfferedByHolder(htlc, reverseHtlcs) == (htlc.direction = "offered") # reverseHtlcs

weightAsListed(htlc, reverseHtlcs) ==   \* a variant that forgets who holds it
    IF htlc.direction = "offered" THEN 663 ELSE 703

HtlcWeight(htlc, reverseHtlcs) == IF OfferedByHolder(htlc, reverseHtlcs) THEN 663 ELSE 703

\* The items of s at the places in K, in the order they have in s.
Picked(s, K) ==
    LET place(k) == 1 + Cardinality({j \in K : j < k})
    IN [p \in 1 .. Cardinality(K) |-> s[CHOOSE k \in K : place(k) = p]]

IsUnpruned(c, h) ==
    sats(h.value) - FeesFor(HtlcWeight(h, c.reverseHtlcs), c.feePerKw) >= sats(c.dustLimit)
unprunedHtlcs(c) == Picked(c.htlcs, {k \in DOMAIN c.htlcs : IsUnpruned(c, c.htlcs[k])})

\* The fee comes off the funder's output, as far as it goes.
AfterFee(value, fee) == IF sats(value) > fee THEN fromSats(sats(value) - fee) ELSE zero

HtlcOutput(c, h) ==
    TxOut(h.value,
          IF OfferedByHolder(h, c.reverseHtlcs)
          THEN offeredHtlcScript(h.paymentHash, c.revocationPubKey,
                                 c.localHtlcPubKey, c.remoteHtlcPubKey)
          ELSE receivedHtlcScript(h.paymentHash, h.cltvExpiry, c.revocationPubKey,
                                  c.localHtlcPubKey, c.remoteHtlcPubKey))

\* By value, then by script; HTLCs that pay alike, by expiry.
sortedByOutput(a, b) ==     \* a variant
    \/ sats(a.out.value) < sats(b.out.value)
    \/ /\ sats(a.out.value) = sats(b.out.value)
       /\ \/ a.out.lock.size < b.out.lock.size
          \/ a.out.lock.size = b.out.lock.size /\ a.out.lock.hash < b.out.lock.hash

isBefore(a, b) ==
    \/ sortedByOutput(a, b)
    \/ /\ ~sortedByOutput(b, a)
       /\ a.htlc # << >> /\ b.htlc # << >>
       /\ a.htlc[1].cltvExpiry < b.htlc[1].cltvExpiry

\* A stable sort: the place of each output is after those that come before it.
sortCommitmentOutputs(txouts) ==
    LET comesFirst(j, k) == \/ isBefore(txouts[j], txouts[k])
                            \/ j < k /\ ~isBefore(txouts[k], txouts[j])
        place(k) == 1 + Cardinality({j \in DOMAIN txouts : comesFirst(j, k)})
    IN [p \in DOMAIN txouts |-> txouts[CHOOSE k \in DOMAIN txouts : place(k) = p]]

(***************************************************************************)
(* A commitment transaction and its HTLCs in the order of their outputs,   *)
(* for the arguments c of createCommitment.                                *)
(***************************************************************************)
unlessDust(c, value, lock) ==
    IF sats(value) >= sats(c.dustLimit) THEN <<[out |-> TxOut(value, lock), htlc |-> << >>]>>
    ELSE << >>

commitmentOutputs(c) ==
    LET kept == unprunedHtlcs(c)
        baseFee == FeesFor(724 + 172 * Len(kept), c.feePerKw)
        localValue == IF c.isFunderLocal THEN AfterFee(c.localValue, baseFee) ELSE c.localValue
        remoteValue == IF c.isFunderLocal THEN c.remoteValue ELSE AfterFee(c.remoteValue, baseFee)
    IN [k \in 1 .. Len(kept) |-> [out |-> HtlcOutput(c, kept[k]), htlc |-> <<kept[k]>>]]
       \o unlessDust(c, localValue, toLocalScript(c.revocationPubKey, c.delayedPubKey,
                                                  c.localDelay))
       \o unlessDust(c, remoteValue, p2wpkhLock(c.remotePubKey))

createCommitment(c) ==
    LET number == obscure(c.commitmentNumber, c.openPaymentBasePoint, c.acceptPaymentBasePoint)
        txouts == sortCommitmentOutputs(commitmentOutputs(c))
        withHtlc == Picked(txouts, {k \in DOMAIN txouts : txouts[k].htlc # << >>})
    IN [tx |-> [input |-> c.fundingOutPoint, sequence |-> getSequence(number),
                locktime |-> getLockTime(number),
                outputs |-> [k \in 1 .. Len(txouts) |-> [value |-> sats(txouts[k].out.value),
                                                        lock |-> txouts[k].out.lock]]],
        htlcs |-> [k \in 1 .. Len(withHtlc) |-> withHtlc[k].htlc[1]]]

(***************************************************************************)
(* The transaction by which the holder of a commitment spends the HTLC in  *)
(* its output outputIndex: one it offered when it has expired, one it      *)
(* received with the preimage.                                             *)
(***************************************************************************)
SpendHtlc(weight, locktime, outPoint, c, htlc) ==
    LET fees == FeesFor(weight, c.feePerKw)
    IN [input |-> outPoint, sequence |-> 0, locktime |-> locktime,
        output |-> TxOut(fromSats(IF fees > sats(htlc.value) THEN 0 ELSE sats(htlc.value) - fees),
                         toLocalScript(c.revocationPubKey, c.delayedPubKey, c.localDelay))]

createHtlcTimeout(outPoint, c, htlc) == SpendHtlc(663, htlc.cltvExpiry, outPoint, c, htlc)
createHtlcSuccess(outPoint, c, htlc) == SpendHtlc(703, 0, outPoint, c, htlc)
=============================================================================
