---------------------------- MODULE OpeningRules ----------------------------
(***************************************************************************)
(* Amounts, and the rules a channel is opened by: what Helpers checks      *)
(* before open_channel is sent and of the accept_channel it is answered    *)
(* with (packages/bitcoin/lib/Value.ts, channels/Helpers.ts).              *)
(***************************************************************************)
EXTENDS Naturals, Sequences, SequencesExt

(***************************************************************************)
(* A Value, in whole satoshis and thousandths of one: nothing in a channel *)
(* divides it further.                                                     *)
(***************************************************************************)
Amount == Nat \X (0 .. 999)
fromSats(n) == <<n, 0>>
fromMilliSats(n) == <<n \div 1000, n % 1000>>
zero == <<0, 0>>
sats(v) == v[1]
gt(v, w) == v[1] > w[1] \/ (v[1] = w[1] /\ v[2] > w[2])
gte(v, w) == gt(v, w) \/ v = w
lte(v, w) == gte(w, v)
addn(v, w) == <<v[1] + w[1] + (v[2] + w[2]) \div 1000, (v[2] + w[2]) % 1000>>

\* Throws ValueUnderflow when w is greater: its callers compare first.
subn(v, w) == IF v[2] >= w[2] THEN <<v[1] - w[1], v[2] - w[2]>>
                              ELSE <<v[1] - w[1] - 1, v[2] + 1000 - w[2]>>

(***************************************************************************)
(* What the node tolerates of its counterpart.                             *)
(***************************************************************************)
ChannelPreferences ==
    [maxAllowedTooSelfDelay |-> 2016, maxMinimumFundingDepth |-> 144,
     maxChanPercHtlcMinimum |-> 10, minChanPercMaxHtlcInFlight |-> 1,
     maxChanPercChannelReserve |-> 20, minMaxAcceptedHtlcs |-> 1,
     maxDustLimit |-> fromSats(1000)]

FeesFor(weight, feeRatePerKw) == (weight * feeRatePerKw) \div 1000

PercentOf(amount, percent) == fromSats((sats(amount) * percent) \div 100)

\* The funding amount stays below 2^24 unless both sides do larger ones.
LargeChannels == {18, 19}
validateFundingAmountMax(fundingAmount, local, remote) ==
    \/ local \cap LargeChannels # {} /\ remote \cap LargeChannels # {}
    \/ sats(fundingAmount) < 16777216

validatePushAmount(fundingAmount, pushAmount) == lte(pushAmount, fundingAmount)

validateDustLimitTooSmall(dustLimit) == gte(dustLimit, fromSats(354))

\* open_channel alone, then with accept_channel: each side's dust limit is
\* within the reserve that either side keeps.
openReserveCoversDust(openReserve, openDust) == lte(openDust, openReserve)

onlyOwnReserves(openReserve, openDust, acceptReserve, acceptDust) ==    \* a variant
    lte(openDust, openReserve) /\ lte(acceptDust, acceptReserve)

validateChannelReserveDustLimit(openReserve, openDust, acceptReserve, acceptDust) ==
    /\ openReserveCoversDust(openReserve, openDust)
    /\ lte(acceptDust, openReserve) /\ lte(openDust, acceptReserve)

validateChannelReserveReachable(fundingAmount, pushAmount, feeRatePerKw, channelReserve) ==
    LET fees == fromSats(FeesFor(724, sats(feeRatePerKw)))
    IN /\ lte(addn(pushAmount, fees), fundingAmount)
       /\ \/ gt(subn(subn(fundingAmount, pushAmount), fees), channelReserve)
          \/ gt(pushAmount, channelReserve)

validateFunderFees(fundingAmount, pushAmount, feeRatePerKw) ==
    /\ lte(pushAmount, fundingAmount)
    /\ sats(subn(fundingAmount, pushAmount)) > FeesFor(724, sats(feeRatePerKw))

validateMaxAcceptedHtlcsTooLarge(n) == n <= 483
validateMaxAcceptedHtlcsTooSmall(n) == n >= ChannelPreferences.minMaxAcceptedHtlcs
validateMinimumDepthTooLarge(depth) == depth <= ChannelPreferences.maxMinimumFundingDepth
validateToSelfDelayTooLarge(delay) == delay <= ChannelPreferences.maxAllowedTooSelfDelay

validateHtlcMinimumTooLarge(htlcMinimum, fundingAmount) ==
    lte(htlcMinimum, PercentOf(fundingAmount, ChannelPreferences.maxChanPercHtlcMinimum))
validateMaxHtlcInFlightTooSmall(maxInFlight, fundingAmount) ==
    gte(maxInFlight, PercentOf(fundingAmount, ChannelPreferences.minChanPercMaxHtlcInFlight))
validateChannelReserveTooLarge(channelReserve, fundingAmount) ==
    lte(channelReserve, PercentOf(fundingAmount, ChannelPreferences.maxChanPercChannelReserve))
validateDustLimitTooLarge(dustLimit) == lte(dustLimit, ChannelPreferences.maxDustLimit)

(***************************************************************************)
(* The rules are tried in order and the first one broken is the error.     *)
(***************************************************************************)
NoError == "ok"
FirstBroken(rules) ==
    LET broken == {k \in DOMAIN rules : ~rules[k][1]}
    IN IF broken = {} THEN NoError ELSE rules[Min(broken)][2]

\* What createChannel checks of a request r; r carries the wallet's answers.
requestRules(r) ==
      << <<validateFundingAmountMax(r.fundingAmount, r.ourOptions, r.remoteFeatures),
           "FundingAmountTooHigh">>,
         <<validatePushAmount(r.fundingAmount, r.pushAmount), "PushAmountTooHigh">>,
         <<validateFunderFees(r.fundingAmount, r.pushAmount, r.feeRatePerKw),
           "FundingAmountTooLow">>,
         <<validateDustLimitTooSmall(r.dustLimit), "DustLimitTooLow">>,
         <<openReserveCoversDust(r.channelReserveValue, r.dustLimit), "ChannelReserveTooLow">>,
         <<validateChannelReserveReachable(r.fundingAmount, r.pushAmount, r.feeRatePerKw,
                                           r.channelReserveValue),
           "ChannelReserveUnreachable">>,
         <<validateMaxAcceptedHtlcsTooLarge(r.maxAcceptedHtlcs), "MaxAcceptedHtlcsTooHigh">> >>

requestError(r) ==
    IF ~r.hasFunds THEN "FundsNotAvailable" ELSE FirstBroken(requestRules(r))

(***************************************************************************)
(* What validateAcceptChannel checks of an accept_channel msg.  valid[k]   *)
(* says that the bytes of its key k are a point.                           *)
(***************************************************************************)
MessageKeys == {"fundingPubKey", "paymentBasePoint", "delayedPaymentBasePoint",
                "revocationBasePoint", "htlcBasePoint", "firstPerCommitmentPoint"}

acceptRules(channel, msg, valid) ==
      << <<validateChannelReserveDustLimit(channel.theirSide.channelReserve,
                                           channel.ourSide.dustLimit,
                                           msg.channelReserve, msg.dustLimit),
           "ChannelReserveDustLimitMismatch">>,
         <<validateToSelfDelayTooLarge(msg.toSelfDelay), "ToSelfDelayTooHigh">>,
         <<validateMaxAcceptedHtlcsTooLarge(msg.maxAcceptedHtlcs), "MaxAcceptedHtlcsTooHigh">>,
         <<valid.fundingPubKey, "InvalidFundingKey">>,
         <<valid.paymentBasePoint, "InvalidPaymentBasePoint">>,
         <<valid.delayedPaymentBasePoint, "InvalidDelayedBasePoint">>,
         <<valid.revocationBasePoint, "InvalidRevocationBasePoint">>,
         <<valid.htlcBasePoint, "InvalidHtlcBasePoint">>,
         <<valid.firstPerCommitmentPoint, "InvalidPerCommitmentPoint">>,
         <<validateDustLimitTooSmall(msg.dustLimit), "DustLimitTooLow">>,
         <<validateMinimumDepthTooLarge(msg.minimumDepth), "MinimumDepthTooHigh">>,
         <<validateHtlcMinimumTooLarge(msg.minHtlcValue, channel.fundingAmount),
           "HtlcMinimumTooHigh">>,
         <<validateMaxHtlcInFlightTooSmall(msg.maxHtlcValueInFlight, channel.fundingAmount),
           "MaxHtlcInFlightTooLow">>,
         <<validateChannelReserveTooLarge(msg.channelReserve, channel.fundingAmount),
           "ChannelReserveTooHigh">>,
         <<validateMaxAcceptedHtlcsTooSmall(msg.maxAcceptedHtlcs), "MaxAcceptedHtlcsTooLow">>,
         <<validateDustLimitTooLarge(msg.dustLimit), "DustLimitTooHigh">> >>

acceptError(channel, msg, valid) == FirstBroken(acceptRules(channel, msg, valid))
=============================================================================
