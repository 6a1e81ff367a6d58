---------------------------- MODULE ChannelLedger ----------------------------
(***************************************************************************)
(* What a Channel holds while the funder opens it, and the transactions    *)
(* made of it (channels/Channel.ts, channels/Helpers.ts), next to the same *)
(* records of the counterpart, which is built on BOLT 2 and 3.  Which      *)
(* message is handled when is the subject of ChannelManager: here each     *)
(* comes in its turn, and the values in it are what matters.               *)
(*                                                                         *)
(* The counterpart is external.  So are the HTLCs and the revocations that *)
(* follow channel_ready: no handler of the repository makes them yet, and  *)
(* TxFactory, CommitmentSecretStore and revokeLocalCommitment are used     *)
(* here the way their comments say they are to be used.                    *)
(***************************************************************************)
EXTENDS Commitments

CONSTANTS
    Requests,       \* the OpenChannelRequests, with the wallet's answers
    Accepts,        \* the accept_channel messages, but for the keys
    Htlcs,          \* the HTLCs that are put in a channel
    MaxHtlcs,       \* how many of them a channel takes
    MaxRotations,   \* how many commitments the counterpart revokes
    LivesOn(_),     \* the channels that take HTLCs and revoke commitments
    RevokesFirst    \* is revokeLocalCommitment called before channel_ready?

ASSUME LedgerAssumption ==
    /\ Requests \subseteq
        [hasFunds : BOOLEAN, fundingAmount : Amount, pushAmount : Amount, feeRatePerKw : Amount,
         ourOptions : SUBSET Nat, remoteFeatures : SUBSET Nat, dustLimit : Amount,
         channelReserveValue : Amount, toSelfBlockDelay : Nat, minHtlcValue : Amount,
         maxAcceptedHtlcs : Nat, maxHtlcInFlightValue : Amount]
    /\ Accepts \subseteq
        [dustLimit : Amount, minimumDepth : Nat, minHtlcValue : Amount,
         maxHtlcValueInFlight : Amount, channelReserve : Amount, toSelfDelay : Nat,
         maxAcceptedHtlcs : Nat, badKey : MessageKeys \cup {"none"}]
    /\ Htlcs \subseteq [direction : {"offered", "accepted"}, value : Amount, cltvExpiry : Nat,
                        paymentHash : Nat]

VARIABLES
    phase,      \* the last message, or the error the channel ended with
    channel,    \* our Channel
    peer,       \* the counterpart's
    htlcs,      \* the HTLCs in flight
    readyPoint, \* the point of the channel_ready we sent, if any
    given,      \* the secrets of the points the counterpart gave, by number
    built,      \* the revocation keys of the commitments we signed for it
    store,      \* our CommitmentSecretStore of the counterpart's secrets
    revoked     \* how many of its commitments are revoked

vars == <<phase, channel, peer, htlcs, readyPoint, given, built, store, revoked>>

(***************************************************************************)
(* Every secret of a node is a number of its own.                          *)
(***************************************************************************)
Secrets(n) == [funding |-> n, payment |-> n + 1, delayed |-> n + 2, htlc |-> n + 3,
               revocation |-> n + 4, seed |-> n + 5]
OurSecrets == Secrets(11)
PeerSecrets == Secrets(21)
PeerSeeds == {PeerSecrets.seed, 31}     \* it may not stay with one

None == [none |-> TRUE]

\* An object with the fields of f, and those of g that f has not.
f ++ g == [x \in DOMAIN f \cup DOMAIN g |-> IF x \in DOMAIN f THEN f[x] ELSE g[x]]

\* The setters of the secrets put their public keys on our side.
KeysOf(secrets) ==
    [fundingPubKey |-> toPubKey(secrets.funding), paymentBasePoint |-> toPubKey(secrets.payment),
     delayedBasePoint |-> toPubKey(secrets.delayed), htlcBasePoint |-> toPubKey(secrets.htlc),
     revocationBasePoint |-> toPubKey(secrets.revocation)]

\* The first commitment of a side is its next one; there is none before it.
FirstCommitment(point) ==
    [nextCommitmentNumber |-> 0, nextCommitmentPoint |-> point, nextCommitmentSig |-> None,
     commitmentNumber |-> Undefined, commitmentPoint |-> Point(Undefined), commitmentSig |-> None]

(***************************************************************************)
(* createChannel, for a request without an error.                          *)
(***************************************************************************)
createChannel(r) ==
    [funder |-> TRUE, fundingAmount |-> r.fundingAmount, pushAmount |-> r.pushAmount,
     feeRatePerKw |-> r.feeRatePerKw, secrets |-> OurSecrets,
     ourSide |-> [dustLimit |-> r.dustLimit, minHtlcValue |-> r.minHtlcValue,
                  maxAcceptedHtlc |-> r.maxAcceptedHtlcs,
                  maxInFlightHtlcValue |-> r.maxHtlcInFlightValue,
                  balance |-> subn(r.fundingAmount, r.pushAmount)]
                 ++ KeysOf(OurSecrets) ++ FirstCommitment(pointOf(OurSecrets.seed, 0)),
     theirSide |-> [channelReserve |-> r.channelReserveValue,
                    toSelfDelayBlocks |-> r.toSelfBlockDelay, balance |-> r.pushAmount]]

createOpenChannelMessage(ch) ==
    [fundingAmount |-> ch.fundingAmount, pushAmount |-> ch.pushAmount,
     feeRatePerKw |-> ch.feeRatePerKw, dustLimit |-> ch.ourSide.dustLimit,
     maxAcceptedHtlcs |-> ch.ourSide.maxAcceptedHtlc, minHtlcValue |-> ch.ourSide.minHtlcValue,
     maxHtlcValueInFlight |-> ch.ourSide.maxInFlightHtlcValue,
     channelReserve |-> ch.theirSide.channelReserve,
     toSelfDelay |-> ch.theirSide.toSelfDelayBlocks,
     fundingPubKey |-> ch.ourSide.fundingPubKey,
     paymentBasePoint |-> ch.ourSide.paymentBasePoint,
     delayedPaymentBasePoint |-> ch.ourSide.delayedBasePoint,
     htlcBasePoint |-> ch.ourSide.htlcBasePoint,
     revocationBasePoint |-> ch.ourSide.revocationBasePoint,
     firstPerCommitmentPoint |-> ch.ourSide.nextCommitmentPoint]

(***************************************************************************)
(* What a message says of its sender.  The reserve and the delay in it     *)
(* bind whoever receives it.                                               *)
(***************************************************************************)
SenderSide(msg) ==
    [dustLimit |-> msg.dustLimit, minHtlcValue |-> msg.minHtlcValue,
     maxAcceptedHtlc |-> msg.maxAcceptedHtlcs, maxInFlightHtlcValue |-> msg.maxHtlcValueInFlight,
     fundingPubKey |-> msg.fundingPubKey, paymentBasePoint |-> msg.paymentBasePoint,
     delayedBasePoint |-> msg.delayedPaymentBasePoint, htlcBasePoint |-> msg.htlcBasePoint,
     revocationBasePoint |-> msg.revocationBasePoint]
    ++ FirstCommitment(msg.firstPerCommitmentPoint)

ReceiverSide(msg) == [channelReserve |-> msg.channelReserve, toSelfDelayBlocks |-> msg.toSelfDelay]

receiverKept(ch, msg) ==    \* a variant that takes the delay for the sender's
    [ch EXCEPT !.ourSide = [channelReserve |-> msg.channelReserve,
                            toSelfDelayBlocks |-> ch.theirSide.toSelfDelayBlocks] ++ @,
               !.theirSide = [toSelfDelayBlocks |-> msg.toSelfDelay] ++ SenderSide(msg) ++ @]
    ++ [minimumDepth |-> msg.minimumDepth,
        fundingScript |-> fundingScript(ch.ourSide.fundingPubKey, msg.fundingPubKey)]

attachAcceptChannel(ch, msg) ==
    [ch EXCEPT !.ourSide = ReceiverSide(msg) ++ @, !.theirSide = SenderSide(msg) ++ @]
    ++ [minimumDepth |-> msg.minimumDepth,
        fundingScript |-> fundingScript(ch.ourSide.fundingPubKey, msg.fundingPubKey)]

\* The funding output is the first of the funding transaction.
createFundingTx(ch) ==
    [outputs |-> <<createFundingOutput(ch.fundingAmount, ch.ourSide.fundingPubKey,
                                       ch.theirSide.fundingPubKey)>>]
attachFundingTx(ch, fundingTx) ==
    ch ++ [fundingTx |-> fundingTx, fundingOutPoint |-> [tx |-> fundingTx, index |-> 0]]

(***************************************************************************)
(* The next commitment transaction that one side holds, with the other     *)
(* side on the other end of it.                                            *)
(***************************************************************************)
openPaymentBasePoint(ch) ==
    IF ch.funder THEN ch.ourSide.paymentBasePoint ELSE ch.theirSide.paymentBasePoint
acceptPaymentBasePoint(ch) ==
    IF ch.funder THEN ch.theirSide.paymentBasePoint ELSE ch.ourSide.paymentBasePoint

RemoteCommitment(ch, hs) ==
    LET point == ch.theirSide.nextCommitmentPoint
    IN [isFunderLocal |-> ~ch.funder, commitmentNumber |-> ch.theirSide.nextCommitmentNumber,
        openPaymentBasePoint |-> openPaymentBasePoint(ch),
        acceptPaymentBasePoint |-> acceptPaymentBasePoint(ch),
        fundingOutPoint |-> ch.fundingOutPoint, dustLimit |-> ch.theirSide.dustLimit,
        feePerKw |-> sats(ch.feeRatePerKw), localDelay |-> ch.theirSide.toSelfDelayBlocks,
        localValue |-> ch.theirSide.balance, remoteValue |-> ch.ourSide.balance,
        revocationPubKey |-> deriveRevocationPubKey(point, ch.ourSide.revocationBasePoint),
        delayedPubKey |-> derivePubKey(point, ch.theirSide.delayedBasePoint),
        remotePubKey |-> ch.ourSide.paymentBasePoint, reverseHtlcs |-> TRUE,
        localHtlcPubKey |-> derivePubKey(point, ch.theirSide.htlcBasePoint),
        remoteHtlcPubKey |-> derivePubKey(point, ch.ourSide.htlcBasePoint), htlcs |-> hs]

LocalCommitment(ch, hs) ==
    LET point == ch.ourSide.nextCommitmentPoint
    IN [isFunderLocal |-> ch.funder, commitmentNumber |-> ch.ourSide.nextCommitmentNumber,
        openPaymentBasePoint |-> openPaymentBasePoint(ch),
        acceptPaymentBasePoint |-> acceptPaymentBasePoint(ch),
        fundingOutPoint |-> ch.fundingOutPoint, dustLimit |-> ch.ourSide.dustLimit,
        feePerKw |-> sats(ch.feeRatePerKw), localDelay |-> ch.ourSide.toSelfDelayBlocks,
        localValue |-> ch.ourSide.balance, remoteValue |-> ch.theirSide.balance,
        revocationPubKey |-> deriveRevocationPubKey(point, ch.theirSide.revocationBasePoint),
        delayedPubKey |-> derivePubKey(point, ch.ourSide.delayedBasePoint),
        remotePubKey |-> ch.theirSide.paymentBasePoint, reverseHtlcs |-> FALSE,
        localHtlcPubKey |-> derivePubKey(point, ch.ourSide.htlcBasePoint),
        remoteHtlcPubKey |-> derivePubKey(point, ch.theirSide.htlcBasePoint), htlcs |-> hs]

\* Helpers gives createCommitment no HTLCs.
createRemoteCommitmentTx(ch) == createCommitment(RemoteCommitment(ch, << >>)).tx
createLocalCommitmentTx(ch) == createCommitment(LocalCommitment(ch, << >>)).tx

\* A signature covers the transaction and the output it spends.
Sign(ch, tx, secret) == [tx |-> tx, script |-> ch.fundingScript, amount |-> ch.fundingAmount,
                         key |-> toPubKey(secret)]
signCommitmentTx(ch, tx) == Sign(ch, tx, ch.secrets.funding)
validateCommitmentSig(ch, tx, sig, pubkey) ==
    sig # None /\ sig = [tx |-> tx, script |-> ch.fundingScript, amount |-> ch.fundingAmount,
                         key |-> pubkey]
validateFundingSignedMessage(ch, sig) ==
    validateCommitmentSig(ch, createLocalCommitmentTx(ch), sig, ch.theirSide.fundingPubKey)

(***************************************************************************)
(* Rotating the next commitment of a side into the current one.            *)
(***************************************************************************)
attachFundingSigned(ch, sig) == [ch EXCEPT !.ourSide.nextCommitmentSig = sig]

sigKept(side, point) ==     \* a variant that does not reset the next signature
    [side EXCEPT !.commitmentNumber = side.nextCommitmentNumber,
                 !.commitmentPoint = side.nextCommitmentPoint,
                 !.commitmentSig = side.nextCommitmentSig,
                 !.nextCommitmentNumber = next(@), !.nextCommitmentPoint = point]

Rotated(side, point) ==
    [side EXCEPT !.commitmentNumber = side.nextCommitmentNumber,
                 !.commitmentPoint = side.nextCommitmentPoint,
                 !.commitmentSig = side.nextCommitmentSig,
                 !.nextCommitmentNumber = next(@), !.nextCommitmentPoint = point,
                 !.nextCommitmentSig = None]

revokeLocalCommitment(ch) ==
    [ch EXCEPT !.ourSide =
        Rotated(@, pointOf(ch.secrets.seed, next(ch.ourSide.nextCommitmentNumber)))]

attachChannelReady(ch, point) == [ch EXCEPT !.theirSide = Rotated(@, point)]

hasChannelReady(ch) == ch.theirSide.nextCommitmentNumber > 0

(***************************************************************************)
(* The counterpart's record of the channel: what it said of itself in      *)
(* accept, and of us what we said in open.                                 *)
(***************************************************************************)
AcceptMessage(a) ==
    LET keys == [fundingPubKey |-> PeerSecrets.funding, paymentBasePoint |-> PeerSecrets.payment,
                 delayedPaymentBasePoint |-> PeerSecrets.delayed,
                 htlcBasePoint |-> PeerSecrets.htlc,
                 revocationBasePoint |-> PeerSecrets.revocation,
                 firstPerCommitmentPoint |-> secretOf(PeerSecrets.seed, 0)]
    IN a ++ [k \in DOMAIN keys |-> Point(IF a.badKey = k THEN Undefined ELSE keys[k])]

PeerChannel(ch, open, accept) ==
    [funder |-> FALSE, fundingAmount |-> open.fundingAmount, feeRatePerKw |-> open.feeRatePerKw,
     secrets |-> PeerSecrets, fundingScript |-> ch.fundingScript,
     fundingOutPoint |-> ch.fundingOutPoint,
     ourSide |-> [balance |-> open.pushAmount] ++ SenderSide(accept) ++ ReceiverSide(open),
     theirSide |-> [balance |-> subn(open.fundingAmount, open.pushAmount)]
                   ++ SenderSide(open) ++ ReceiverSide(accept)]

-----------------------------------------------------------------------------
Init ==
    /\ phase = "idle" /\ channel = None /\ peer = None
    /\ htlcs = << >> /\ readyPoint = None
    /\ given = << >> /\ built = << >> /\ store = EmptySecrets /\ revoked = 0

Fail(error) ==
    /\ phase' = error
    /\ UNCHANGED <<channel, peer, htlcs, readyPoint, given, built, store, revoked>>

\* ChannelManager.openChannel: createChannel, and open_channel is sent.
OpenChannel(r) ==
    /\ phase = "idle"
    /\ \/ requestError(r) # NoError /\ Fail(requestError(r))
       \/ /\ requestError(r) = NoError
          /\ phase' = "open_channel" /\ channel' = createChannel(r)
          /\ UNCHANGED <<peer, htlcs, readyPoint, given, built, store, revoked>>

\* The transition on accept_channel; funding_created takes our signature.
AcceptChannel(a) ==
    LET msg == AcceptMessage(a)
        error == acceptError(channel, msg, [k \in MessageKeys |-> isValid(msg[k])])
        accepted == attachAcceptChannel(channel, msg)
        funded == attachFundingTx(accepted, createFundingTx(accepted))
        sig == signCommitmentTx(funded, createRemoteCommitmentTx(funded))
    IN /\ phase = "open_channel"
       /\ \/ error # NoError /\ Fail(error)
          \/ /\ error = NoError
             /\ phase' = "funding_created" /\ channel' = funded
             /\ peer' = attachFundingSigned(
                            PeerChannel(funded, createOpenChannelMessage(channel), msg), sig)
             /\ given' = <<secretOf(PeerSecrets.seed, 0)>>
             /\ UNCHANGED <<htlcs, readyPoint, built, store, revoked>>

\* The transition on funding_signed: the signature may be over another
\* transaction, or by another key.
FundingSigned ==
    /\ phase = "funding_created"
    /\ \E tx \in {createRemoteCommitmentTx(peer), createLocalCommitmentTx(peer)},
          key \in {PeerSecrets.funding, PeerSecrets.payment} :
        LET sig == Sign(peer, tx, key)
        IN IF validateFundingSignedMessage(channel, sig)
           THEN /\ phase' = "funding_signed"
                /\ channel' = attachFundingSigned(channel, sig)
                /\ UNCHANGED <<peer, htlcs, readyPoint, given, built, store, revoked>>
           ELSE Fail("InvalidCommitmentSig")

\* The transition on the funding depth.  It does not call
\* revokeLocalCommitment; a caller that follows its comment does.
DepthReached(revokes) ==
    LET current == IF revokes THEN revokeLocalCommitment(channel) ELSE channel
        point == current.ourSide.nextCommitmentPoint
    IN /\ phase = "funding_signed" /\ readyPoint = None
       /\ channel' = current /\ readyPoint' = point
       /\ peer' = attachChannelReady(peer, point)
       /\ UNCHANGED <<phase, htlcs, given, built, store, revoked>>

\* The transition on channel_ready.  The counterpart may leave its seed.
\* Its next point is the one it sends.
PeerMovesOn(seed) ==
    LET moved == revokeLocalCommitment([peer EXCEPT !.secrets.seed = seed])
        point == moved.ourSide.nextCommitmentPoint
    IN /\ isValid(point)
       /\ peer' = moved /\ channel' = attachChannelReady(channel, point)
       /\ given' = Append(given, secretOf(seed, moved.ourSide.nextCommitmentNumber))
       /\ built' = Append(built, RemoteCommitment(channel, << >>).revocationPubKey)

ChannelReady(seed) ==
    /\ phase = "funding_signed" /\ ~hasChannelReady(channel)
    /\ PeerMovesOn(seed)
    /\ UNCHANGED <<phase, htlcs, readyPoint, store, revoked>>

(***************************************************************************)
(* What follows, done by a caller of the operations: the counterpart       *)
(* revokes its current commitment, HTLCs are added on either side.         *)
(***************************************************************************)
Revoke(seed) ==
    LET n == revoked
        secret == given[n + 1]
    IN /\ phase = "funding_signed" /\ hasChannelReady(channel)
       /\ LivesOn(channel) /\ n < MaxRotations /\ n + 2 <= MAX_COMMITMENT_NUMBER
       /\ \/ /\ ~isDerivable(store, secret, secretIndex(n))
             /\ Fail("secret refused")
          \/ /\ isDerivable(store, secret, secretIndex(n))
             /\ store' = insert(store, secret, secretIndex(n)) /\ revoked' = n + 1
             /\ PeerMovesOn(seed)
             /\ UNCHANGED <<phase, htlcs, readyPoint>>

AddHtlc(h) ==
    LET paid(side) == [side EXCEPT !.balance = subn(@, h.value)]
    IN /\ phase = "funding_signed" /\ hasChannelReady(channel) /\ readyPoint # None
       /\ LivesOn(channel) /\ Len(htlcs) < MaxHtlcs /\ revoked = 0
       /\ htlcs' = Append(htlcs, h)
       /\ IF h.direction = "offered"
          THEN /\ gte(channel.ourSide.balance, h.value)
               /\ channel' = [channel EXCEPT !.ourSide = paid(@)]
               /\ peer' = [peer EXCEPT !.theirSide = paid(@)]
          ELSE /\ gte(channel.theirSide.balance, h.value)
               /\ channel' = [channel EXCEPT !.theirSide = paid(@)]
               /\ peer' = [peer EXCEPT !.ourSide = paid(@)]
       /\ UNCHANGED <<phase, readyPoint, given, built, store, revoked>>

Next ==
    \/ \E r \in Requests : OpenChannel(r)
    \/ \E a \in Accepts : AcceptChannel(a)
    \/ FundingSigned
    \/ \E revokes \in RevokesFirst : DepthReached(revokes)
    \/ \E seed \in PeerSeeds : ChannelReady(seed)
    \/ \E seed \in PeerSeeds : Revoke(seed)
    \/ \E h \in Htlcs : AddHtlc(h)

Spec == Init /\ [][Next]_vars

-----------------------------------------------------------------------------
Opened == peer # None

\* The same HTLCs as the counterpart sees them, listed in another order.
Turned(hs) ==
    [k \in DOMAIN hs |->
        [hs[k] EXCEPT !.direction = IF @ = "offered" THEN "accepted" ELSE "offered"]]
AsSeenByPeer(hs) == Reverse(Turned(hs))

\* Outputs have whole satoshis: HTLCs that differ by less come in any order.
InSats(hs) == [k \in DOMAIN hs |-> [hs[k] EXCEPT !.value = fromSats(sats(@))]]

\* Sha256 is collision resistant: one hash, one script.
HashesDiffer(c) ==
    \A a, b \in Range(commitmentOutputs(c)) :
        a.out.lock.size = b.out.lock.size /\ a.out.lock.hash = b.out.lock.hash =>
            a.out.lock = b.out.lock

SameFor(c, d, held) ==
    LET ours == createCommitment(c)
        theirs == createCommitment(d)
    IN /\ HashesDiffer(c) =>
            ours.tx = theirs.tx /\ InSats(ours.htlcs) = InSats(Turned(theirs.htlcs))
       /\ reveal(ours.tx.locktime, ours.tx.sequence,
                 held.openPaymentBasePoint, held.acceptPaymentBasePoint) = held.commitmentNumber

(***************************************************************************)
(* The two nodes build the same commitment transaction for a commitment    *)
(* number they agree on, ours and the counterpart's, with HTLCs behind its *)
(* outputs that are the same to the satoshi, whatever the order they are   *)
(* listed in, and read the number back out of it, unless two scripts have  *)
(* one hash.  Every signature depends on it (createRemoteCommitmentTx,     *)
(* createLocalCommitmentTx, createCommitment, attachAcceptChannel).        *)
(***************************************************************************)
MirroredCommitments ==
    Opened =>
        LET mine == LocalCommitment(channel, htlcs)
            mineSeen == RemoteCommitment(peer, AsSeenByPeer(htlcs))
            theirs == LocalCommitment(peer, AsSeenByPeer(htlcs))
            theirsSeen == RemoteCommitment(channel, htlcs)
        IN /\ mine.commitmentNumber = mineSeen.commitmentNumber =>
                SameFor(mine, mineSeen, mine)
           /\ theirs.commitmentNumber = theirsSeen.commitmentNumber =>
                SameFor(theirsSeen, theirs, theirs)

\* The output that a signature of ch is made for: hashSegwitv0 takes the bare
\* script, the output is locked to its hash.
SignsFor(ch, output) == output.value = ch.fundingAmount /\ output.lock.script = ch.fundingScript

(***************************************************************************)
(* The checks of createChannel and validateAcceptChannel suffice for the   *)
(* first commitments: the funder can pay the whole fee, neither            *)
(* transaction is left without an output by the dust limit of its holder,  *)
(* and both nodes sign for the output that createFundingTx makes.          *)
(***************************************************************************)
FirstCommitmentsPay ==
    Opened /\ htlcs = << >> =>
        /\ sats(channel.ourSide.balance) >= FeesFor(724, sats(channel.feeRatePerKw))
        /\ createLocalCommitmentTx(channel).outputs # << >>
        /\ createRemoteCommitmentTx(channel).outputs # << >>
        /\ \A ch \in {channel, peer} : SignsFor(ch, channel.fundingTx.outputs[1])

(***************************************************************************)
(* A commitment c of a holder at a number: each output is above its dust   *)
(* limit and locked to keys whose secrets the right side has, the outputs  *)
(* do not exceed the channel, and the transaction by which the holder      *)
(* claims an HTLC finds it where the list of HTLCs says and leaves more    *)
(* than dust.                                                              *)
(***************************************************************************)
HasField(out, f) == f \in DOMAIN out.lock.script

Owned(out, holder, other, secret) ==
    LET point == toPubKey(secret)
        script == out.lock.script
        ofHolder == toPubKey(derivePrivKey(point, holder.htlc))
        ofOther == toPubKey(derivePrivKey(point, other.htlc))
    IN /\ HasField(out, "pays") => script.pays = toPubKey(other.payment)
       /\ HasField(out, "delayed") => script.delayed = toPubKey(derivePrivKey(point, holder.delayed))
       /\ HasField(out, "revocation") =>
            script.revocation = toPubKey(deriveRevocationPrivKey(secret, other.revocation))
       /\ HasField(out, "paymentHash") =>
            {script.byTimeout, script.byPreimage} = {ofHolder, ofOther}

Claim(outPoint, c, h) ==
    IF OfferedByHolder(h, c.reverseHtlcs) THEN createHtlcTimeout(outPoint, c, h)
                                          ELSE createHtlcSuccess(outPoint, c, h)

ClaimsHtlc(tx, index, c, h) ==
    LET out == tx.outputs[index]
        claim == Claim([tx |-> tx, index |-> index], c, h)
    IN /\ out.value = sats(h.value) /\ out.lock.script.paymentHash = h.paymentHash
       /\ \/ claim.locktime = 0 /\ out.lock.script.byPreimage = c.localHtlcPubKey
          \/ claim.locktime = h.cltvExpiry /\ out.lock.script.byTimeout = c.localHtlcPubKey
       /\ sats(claim.output.value) >= sats(c.dustLimit)

\* f[1] + ... + f[n].
Total(f, n) ==
    LET sum[k \in 0 .. n] == IF k = 0 THEN 0 ELSE sum[k - 1] + f[k]
    IN sum[n]

Claimable(c, holder, other, secret) ==
    LET made == createCommitment(c)
        outputs == made.tx.outputs
        ofHtlcs == Picked([k \in 1 .. Len(outputs) |-> k],
                          {k \in 1 .. Len(outputs) : HasField(outputs[k], "paymentHash")})
    IN HashesDiffer(c) =>
       /\ \A k \in 1 .. Len(outputs) :
            outputs[k].value >= sats(c.dustLimit) /\ Owned(outputs[k], holder, other, secret)
       /\ Total([k \in 1 .. Len(outputs) |-> outputs[k].value], Len(outputs))
            <= sats(channel.fundingAmount)
       /\ Len(ofHtlcs) = Len(made.htlcs)
       /\ \A k \in 1 .. Len(ofHtlcs) : ClaimsHtlc(made.tx, ofHtlcs[k], c, made.htlcs[k])

(***************************************************************************)
(* Every output of either node's commitment can be spent by the side it    *)
(* belongs to, with the secrets that side has, and by the other side once  *)
(* the commitment is revoked, unless two of its scripts have one hash      *)
(* (ChannelKeys, ScriptFactory, TxFactory).                                *)
(***************************************************************************)
OutputsAreClaimable ==
    Opened =>
        /\ Claimable(LocalCommitment(channel, htlcs), OurSecrets, PeerSecrets,
                     secretOf(OurSecrets.seed, channel.ourSide.nextCommitmentNumber))
        /\ Claimable(RemoteCommitment(channel, htlcs), PeerSecrets, OurSecrets,
                     given[channel.theirSide.nextCommitmentNumber + 1])

(***************************************************************************)
(* The signature a side holds, before and after it is rotated with its     *)
(* commitment, is the other side's over that very commitment               *)
(* (attachFundingSigned, revokeLocalCommitment).  HTLCs would take a       *)
(* commitment_signed, which is not made yet.                               *)
(***************************************************************************)
AsNext(ch) == [ch EXCEPT !.ourSide.nextCommitmentNumber = ch.ourSide.commitmentNumber,
                         !.ourSide.nextCommitmentPoint = ch.ourSide.commitmentPoint]

HeldSigIsValid ==
    htlcs = << >> => \A ch \in {channel, peer} \ {None} : ch # channel \/ Opened =>
        /\ ch.ourSide.nextCommitmentSig # None =>
            validateCommitmentSig(ch, createLocalCommitmentTx(ch), ch.ourSide.nextCommitmentSig,
                                  ch.theirSide.fundingPubKey)
        /\ ch.ourSide.commitmentSig # None =>
            validateCommitmentSig(ch, createLocalCommitmentTx(AsNext(ch)),
                                  ch.ourSide.commitmentSig, ch.theirSide.fundingPubKey)

(***************************************************************************)
(* Whatever secrets the counterpart reveals, each one the store accepted   *)
(* comes back out of it, opens the revocation key of the commitment we     *)
(* signed for that number, and none comes out that was not received        *)
(* (CommitmentSecretStore).                                                *)
(***************************************************************************)
RevokedIsPunishable ==
    \A n \in 0 .. MAX_COMMITMENT_NUMBER :
        LET secret == recover(store, secretIndex(n))
        IN IF n >= revoked THEN secret = NotReceived
           ELSE /\ secret = given[n + 1]
                /\ toPubKey(deriveRevocationPrivKey(secret, OurSecrets.revocation)) = built[n + 1]

(***************************************************************************)
(* "Provides the second_per_commitment_point": what the comment of         *)
(* createChannelReadyMessage says channel_ready carries.                   *)
(***************************************************************************)
SecondPointIsProvided ==
    readyPoint # None => readyPoint = pointOf(OurSecrets.seed, 1)
=============================================================================
