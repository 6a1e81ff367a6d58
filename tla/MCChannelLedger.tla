--------------------------- MODULE MCChannelLedger ---------------------------
(* Requests and answers around each limit of the rules, amounts around the *)
(* dust limits and the fees.                                               *)
EXTENDS ChannelLedger

Base == [hasFunds |-> TRUE, fundingAmount |-> fromSats(20000), pushAmount |-> fromSats(2000),
         feeRatePerKw |-> fromSats(1000), ourOptions |-> {}, remoteFeatures |-> {},
         dustLimit |-> fromSats(354), channelReserveValue |-> fromSats(1000),
         toSelfBlockDelay |-> 144, minHtlcValue |-> fromMilliSats(1), maxAcceptedHtlcs |-> 30,
         maxHtlcInFlightValue |-> fromSats(20000)]

\* Each rule at its limit and beyond.
OffByOne ==
    {[Base EXCEPT !.hasFunds = FALSE],
     [Base EXCEPT !.dustLimit = fromSats(353)],
     [Base EXCEPT !.dustLimit = fromSats(1001)],
     [Base EXCEPT !.maxAcceptedHtlcs = 483], [Base EXCEPT !.maxAcceptedHtlcs = 484]}
    \cup {[Base EXCEPT !.fundingAmount = fromSats(n), !.ourOptions = os, !.remoteFeatures = rs] :
            n \in {16777215, 16777216}, os \in {{}, {19}}, rs \in {{}, {18}}}

\* The funder's balance about the fee, the reserve and the dust limit.
Amounts ==
    {[Base EXCEPT !.fundingAmount = fromSats(n + sats(p)), !.pushAmount = p,
                  !.channelReserveValue = fromSats(r), !.feeRatePerKw = fromSats(f)] :
        n \in {0, 724, 1078, 1778, 3100, 4000},
        p \in {zero, <<353, 999>>, fromSats(354), fromSats(1001), fromSats(2000)},
        r \in {354, 1000}, f \in {253, 1000, 3460}}

MCRequests == OffByOne \cup Amounts

Answer == [dustLimit |-> fromSats(354), minimumDepth |-> 3, minHtlcValue |-> fromMilliSats(1),
           maxHtlcValueInFlight |-> fromSats(20000), channelReserve |-> fromSats(400),
           toSelfDelay |-> 2016, maxAcceptedHtlcs |-> 483, badKey |-> "none"]

MCAccepts ==
    {Answer, [Answer EXCEPT !.dustLimit = fromSats(400)],
     [Answer EXCEPT !.dustLimit = fromSats(600), !.channelReserve = fromSats(600)],
     [Answer EXCEPT !.dustLimit = fromSats(353)],
     [Answer EXCEPT !.dustLimit = fromSats(900)], [Answer EXCEPT !.channelReserve = fromSats(353)],
     [Answer EXCEPT !.channelReserve = fromSats(4001)], [Answer EXCEPT !.toSelfDelay = 2017],
     [Answer EXCEPT !.maxAcceptedHtlcs = 484], [Answer EXCEPT !.maxAcceptedHtlcs = 0],
     [Answer EXCEPT !.minimumDepth = 145], [Answer EXCEPT !.minHtlcValue = fromSats(2001)],
     [Answer EXCEPT !.maxHtlcValueInFlight = fromSats(10)]}
    \cup {[Answer EXCEPT !.badKey = k] : k \in MessageKeys}

\* Alike but for the expiry or less than a satoshi, and around what each
\* direction's fee leaves.
MCHtlcs ==
    {[direction |-> d, value |-> fromSats(v), cltvExpiry |-> e, paymentHash |-> 7] :
        d \in {"offered", "accepted"}, v \in {1017, 1063, 1103}, e \in {500, 501}}
    \cup {[direction |-> d, value |-> <<1103, 1>>, cltvExpiry |-> 500, paymentHash |-> 7] :
            d \in {"offered", "accepted"}}

\* Those whose dust limits differ, and where the fee leaves a few thousands.
MCLivesOn(ch) ==
    /\ sats(ch.fundingAmount) \in {5001, 6000} /\ ch.feeRatePerKw = fromSats(1000)
    /\ ch.theirSide.channelReserve = fromSats(1000)
    /\ sats(ch.theirSide.dustLimit) \in {400, 900}
=============================================================================
