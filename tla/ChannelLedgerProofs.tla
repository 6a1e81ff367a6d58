------------------------- MODULE ChannelLedgerProofs -------------------------
(***************************************************************************)
(* Proofs about ChannelLedger, for any amounts, rates, limits, keys and    *)
(* payments: the checks of the opening leave first commitments that can be *)
(* paid, the two nodes build the same commitments, their outputs can be    *)
(* claimed and take no more than the funding, the signatures they hold     *)
(* stay valid, and the secrets of the counterpart revoke what was signed   *)
(* for it and come back out of the store.                                  *)
(*                                                                         *)
(* The parts of the invariant come first, then the rules of the opening,   *)
(* the objects it builds, commitments without HTLCs, the updates of a      *)
(* Channel, each step of the specification, and the theorems; then the     *)
(* bits of an index, the derivation of a secret, and the store.  Then come *)
(* orders and places, the sort of the outputs, hashes and commitment       *)
(* numbers as numbers, and the commitments with HTLCs that the two nodes   *)
(* make of the two views of one channel.  Last come the claims: sums, the  *)
(* source of each output, and what every step keeps of the funding.        *)
(***************************************************************************)
EXTENDS ChannelLedger, FiniteSetTheorems, WellFoundedInduction, TLAPS

(***************************************************************************)
(* What a side of a Channel must agree on with the counterpart's record    *)
(* of the same side, and which commitment of it is the next one.           *)
(***************************************************************************)
Twin(side, seen) ==
    /\ side.dustLimit = seen.dustLimit /\ side.balance = seen.balance
    /\ side.toSelfDelayBlocks = seen.toSelfDelayBlocks
    /\ side.fundingPubKey = seen.fundingPubKey
    /\ side.paymentBasePoint = seen.paymentBasePoint
    /\ side.delayedBasePoint = seen.delayedBasePoint
    /\ side.htlcBasePoint = seen.htlcBasePoint
    /\ side.revocationBasePoint = seen.revocationBasePoint

SameNumber(side, seen) == side.nextCommitmentNumber = seen.nextCommitmentNumber
SamePoint(side, seen) == side.nextCommitmentPoint = seen.nextCommitmentPoint

(* The fields the commitments are made of. *)
SideFields == {"dustLimit", "balance", "toSelfDelayBlocks", "fundingPubKey", "paymentBasePoint",
               "delayedBasePoint", "htlcBasePoint", "revocationBasePoint",
               "commitmentNumber", "commitmentPoint", "commitmentSig",
               "nextCommitmentNumber", "nextCommitmentPoint", "nextCommitmentSig"}

TermFields == {"funder", "fundingAmount", "feeRatePerKw", "fundingScript", "fundingOutPoint"}
Shaped(ch) ==
    /\ TermFields \cup {"ourSide", "theirSide", "secrets"} \subseteq DOMAIN ch
    /\ SideFields \subseteq DOMAIN ch.ourSide /\ SideFields \subseteq DOMAIN ch.theirSide
    /\ "seed" \in DOMAIN ch.secrets

(* How far the opening has come. *)
PhaseInv ==
    /\ htlcs \in Seq(Htlcs)
    /\ phase = "open_channel" =>
        \E r \in Requests : requestError(r) = NoError /\ channel = createChannel(r)
    /\ phase \in {"idle", "open_channel"} => ~Opened
    /\ phase \in {"funding_created", "funding_signed"} => Opened
    /\ ~Opened => htlcs = << >> /\ readyPoint = None /\ built = << >>

(* The two records of a channel are records of one channel. *)
OneChannel(ch, seen) ==
    /\ ch.funder = TRUE /\ seen.funder = FALSE
    /\ seen.fundingAmount = ch.fundingAmount /\ seen.feeRatePerKw = ch.feeRatePerKw
    /\ seen.fundingScript = ch.fundingScript /\ seen.fundingOutPoint = ch.fundingOutPoint
    /\ Twin(ch.ourSide, seen.theirSide) /\ Twin(seen.ourSide, ch.theirSide)

AgreeInv ==
    Opened =>
        /\ Shaped(channel) /\ Shaped(peer) /\ OneChannel(channel, peer)
        /\ SameNumber(peer.ourSide, channel.theirSide)
        /\ SamePoint(peer.ourSide, channel.theirSide)
        /\ readyPoint = None => SameNumber(channel.ourSide, peer.theirSide)
        /\ SameNumber(channel.ourSide, peer.theirSide) =>
              SamePoint(channel.ourSide, peer.theirSide)
        /\ channel.ourSide.nextCommitmentNumber \in Nat
        /\ channel.ourSide.nextCommitmentPoint # None

(* The signatures that are held, for HeldSigIsValid. *)
SigsHold(ch) ==
    /\ ch.ourSide.nextCommitmentSig # None =>
        validateCommitmentSig(ch, createLocalCommitmentTx(ch), ch.ourSide.nextCommitmentSig,
                              ch.theirSide.fundingPubKey)
    /\ ch.ourSide.commitmentSig # None =>
        validateCommitmentSig(ch, createLocalCommitmentTx(AsNext(ch)),
                              ch.ourSide.commitmentSig, ch.theirSide.fundingPubKey)

SigInv == Opened /\ htlcs = << >> => SigsHold(channel) /\ SigsHold(peer)

(* The terms of the channel are the ones that were checked. *)
TermsInv ==
    Opened =>
        /\ "fundingTx" \in DOMAIN channel
        /\ SignsFor(channel, channel.fundingTx.outputs[1])
        /\ htlcs = << >> => \E r \in Requests, a \in Accepts :
            /\ requestError(r) = NoError /\ lte(a.dustLimit, r.channelReserveValue)
            /\ channel.feeRatePerKw = r.feeRatePerKw
            /\ channel.ourSide.balance = subn(r.fundingAmount, r.pushAmount)
            /\ channel.theirSide.balance = r.pushAmount
            /\ channel.ourSide.dustLimit = r.dustLimit
            /\ channel.theirSide.dustLimit = a.dustLimit

(* The secrets behind the points the counterpart gave, and the revocation  *)
(* keys of the commitments that were signed for it.                        *)
RevocationKey(secret) == deriveRevocationPubKey(toPubKey(secret), toPubKey(OurSecrets.revocation))
SecretsGiven == {secretOf(seed, n) : seed \in PeerSeeds, n \in Nat}

KeysInv ==
    Opened =>
        /\ given \in Seq(SecretsGiven) /\ built \in Seq({RevocationKey(s) : s \in SecretsGiven})
        /\ Len(given) = Len(built) + 1
        /\ channel.ourSide.revocationBasePoint = toPubKey(OurSecrets.revocation)
        /\ channel.theirSide.nextCommitmentNumber = Len(built)
        /\ channel.theirSide.nextCommitmentPoint = toPubKey(given[Len(given)])
        /\ \A n \in 1 .. Len(built) : built[n] = RevocationKey(given[n])

IInv == PhaseInv /\ AgreeInv /\ SigInv /\ TermsInv /\ KeysInv
-----------------------------------------------------------------------------
(* A set of numbers has a least one. *)
LEMMA Least ==
  ASSUME NEW T, T \subseteq Nat, T # {}
  PROVE  Min(T) \in T /\ \A y \in T : Min(T) <= y
<1>1. PICK x \in T : \A y \in T : ~(<<y, x>> \in OpToRel(<, Nat))
  BY NatLessThanWellFounded, WFMin
<1>2. \A y \in T : ~(y < x)
  BY <1>1 DEF OpToRel
<1>3. \A y \in T : x <= y
  BY <1>2
<1> QED
  BY <1>3 DEF Min

(* The first rule that is broken is the error. *)
LEMMA RulesKept ==
  ASSUME NEW n \in Nat, NEW rules, DOMAIN rules = 1 .. n
  PROVE  \/ FirstBroken(rules) = NoError /\ \A k \in 1 .. n : rules[k][1]
         \/ \E k \in 1 .. n : FirstBroken(rules) = rules[k][2]
<1> DEFINE broken == {k \in DOMAIN rules : ~rules[k][1]}
<1>1. CASE broken = {}
  BY <1>1 DEF FirstBroken
<1>2. CASE broken # {}
  <2>1. Min(broken) \in broken
    <3>1. broken \subseteq Nat
      OBVIOUS
    <3> HIDE DEF broken
    <3> QED
      BY <1>2, <3>1, Least
  <2>2. FirstBroken(rules) = rules[Min(broken)][2]
    BY <1>2 DEF FirstBroken
  <2> QED
    BY <2>1, <2>2
<1> QED
  BY <1>1, <1>2

(* No error is mistaken for a phase of the opening. *)
Progress == {"ok", "idle", "open_channel", "funding_created", "funding_signed"}

LEMMA RulesError ==
  ASSUME NEW n \in Nat, NEW rules, DOMAIN rules = 1 .. n,
         \A k \in 1 .. n : rules[k][2] \notin Progress
  PROVE  /\ FirstBroken(rules) = NoError => \A k \in 1 .. n : rules[k][1]
         /\ FirstBroken(rules) # NoError => FirstBroken(rules) \notin Progress
<1>1. \A k \in 1 .. n : rules[k][2] # NoError
  BY DEF Progress, NoError
<1> QED
  BY <1>1, RulesKept

(* What createChannel has checked of a request. *)
LEMMA RequestChecked ==
  ASSUME NEW r
  PROVE  /\ requestError(r) # NoError => requestError(r) \notin Progress
         /\ requestError(r) = NoError =>
              /\ validatePushAmount(r.fundingAmount, r.pushAmount)
              /\ validateFunderFees(r.fundingAmount, r.pushAmount, r.feeRatePerKw)
              /\ openReserveCoversDust(r.channelReserveValue, r.dustLimit)
              /\ validateChannelReserveReachable(r.fundingAmount, r.pushAmount, r.feeRatePerKw,
                                                 r.channelReserveValue)
<1> DEFINE rules == requestRules(r)
<1>1. requestError(r) = IF ~r.hasFunds THEN "FundsNotAvailable" ELSE FirstBroken(rules)
  BY Zenon DEF requestError
<1>2. DOMAIN rules = 1 .. 7
  BY DEF requestRules
<1>3. \A k \in 1 .. 7 : rules[k][2] \notin Progress
  BY DEF Progress, requestRules
<1>4. /\ rules[2][1] = validatePushAmount(r.fundingAmount, r.pushAmount)
      /\ rules[3][1] = validateFunderFees(r.fundingAmount, r.pushAmount, r.feeRatePerKw)
      /\ rules[5][1] = openReserveCoversDust(r.channelReserveValue, r.dustLimit)
      /\ rules[6][1] = validateChannelReserveReachable(r.fundingAmount, r.pushAmount,
                                                       r.feeRatePerKw, r.channelReserveValue)
  BY DEF requestRules
<1> HIDE DEF rules
<1>5. /\ FirstBroken(rules) = NoError => \A k \in 1 .. 7 : rules[k][1]
      /\ FirstBroken(rules) # NoError => FirstBroken(rules) \notin Progress
  BY <1>2, <1>3, RulesError
<1>6. "FundsNotAvailable" \notin Progress /\ "FundsNotAvailable" # NoError
  BY DEF Progress, NoError
<1> QED
  BY <1>1, <1>4, <1>5, <1>6

(* What validateAcceptChannel has checked of an answer. *)
LEMMA AnswerChecked ==
  ASSUME NEW ch, NEW msg, NEW valid
  PROVE  /\ acceptError(ch, msg, valid) # NoError => acceptError(ch, msg, valid) \notin Progress
         /\ acceptError(ch, msg, valid) = NoError =>
              /\ validateChannelReserveDustLimit(ch.theirSide.channelReserve, ch.ourSide.dustLimit,
                                                 msg.channelReserve, msg.dustLimit)
              /\ valid.firstPerCommitmentPoint
<1> DEFINE rules == acceptRules(ch, msg, valid)
<1>1. acceptError(ch, msg, valid) = FirstBroken(rules)
  BY Zenon DEF acceptError
<1>2. DOMAIN rules = 1 .. 16
  BY DEF acceptRules
<1>3. \A k \in 1 .. 16 : rules[k][2] \notin Progress
  BY DEF Progress, acceptRules
<1>4. /\ rules[1][1] = validateChannelReserveDustLimit(ch.theirSide.channelReserve,
                           ch.ourSide.dustLimit, msg.channelReserve, msg.dustLimit)
      /\ rules[9][1] = valid.firstPerCommitmentPoint
  BY DEF acceptRules
<1> HIDE DEF rules
<1>5. /\ FirstBroken(rules) = NoError => \A k \in 1 .. 16 : rules[k][1]
      /\ FirstBroken(rules) # NoError => FirstBroken(rules) \notin Progress
  BY <1>2, <1>3, RulesError
<1> QED
  BY <1>1, <1>4, <1>5

(* The checks of the amounts leave each commitment an output. *)
LEMMA FunderPays ==
  ASSUME NEW funding \in Amount, NEW push \in Amount, NEW rate \in Amount, NEW reserve \in Amount,
         validateFunderFees(funding, push, rate),
         validateChannelReserveReachable(funding, push, rate, reserve)
  PROVE  LET balance == subn(funding, push)
             fee == FeesFor(724, sats(rate))
         IN /\ sats(balance) >= fee
            /\ \A dust \in Amount : lte(dust, reserve) =>
                 \/ sats(AfterFee(balance, fee)) >= sats(dust)
                 \/ sats(push) >= sats(dust)
<1> DEFINE balance == subn(funding, push)
           fee == FeesFor(724, sats(rate))
<1>1. fee \in Nat
  BY DEF FeesFor, sats, Amount
<1>2. lte(push, funding) /\ sats(balance) > fee
  BY DEF validateFunderFees
<1>3. gt(subn(balance, fromSats(fee)), reserve) \/ gt(push, reserve)
  BY DEF validateChannelReserveReachable
<1> HIDE DEF fee
<1>4. balance \in Int \X (0 .. 999)
  <2>1. PICK m \in Nat, n \in 0 .. 999 : funding = <<m, n>>
    BY SMTT(30) DEF Amount
  <2>2. PICK p \in Nat, q \in 0 .. 999 : push = <<p, q>>
    BY SMTT(30) DEF Amount
  <2>3. balance = IF n >= q THEN <<m - p, n - q>> ELSE <<m - p - 1, n + 1000 - q>>
    BY <2>1, <2>2 DEF subn
  <2>4. /\ m - p \in Int /\ m - p - 1 \in Int
        /\ n >= q => n - q \in 0 .. 999
        /\ ~(n >= q) => n + 1000 - q \in 0 .. 999
    OBVIOUS
  <2> HIDE DEF balance
  <2>5. CASE n >= q
    BY <2>3, <2>4, <2>5, SMTT(30)
  <2>6. CASE ~(n >= q)
    BY <2>3, <2>4, <2>6, SMTT(30)
  <2> QED
    BY <2>5, <2>6
<1> HIDE DEF balance
<1>5. AfterFee(balance, fee) = <<balance[1] - fee, 0>>
  BY <1>1, <1>2, <1>4 DEF AfterFee, fromSats, sats
<1>6. subn(balance, fromSats(fee)) = <<balance[1] - fee, balance[2]>>
  BY <1>1, <1>4 DEF subn, fromSats
<1>7. ASSUME NEW dust \in Amount, lte(dust, reserve)
      PROVE  \/ sats(AfterFee(balance, fee)) >= sats(dust)
             \/ sats(push) >= sats(dust)
  <2>1. dust[1] <= reserve[1]
    BY <1>7 DEF lte, gte, gt, Amount
  <2>2. CASE gt(push, reserve)
    BY <2>1, <2>2, SMTT(30) DEF gt, sats, Amount
  <2>3. CASE gt(<<balance[1] - fee, balance[2]>>, reserve)
    <3>1. balance[1] - fee >= reserve[1]
      BY <1>1, <1>4, <2>3, SMTT(30) DEF gt, Amount
    <3> QED
      BY <1>1, <1>4, <1>5, <2>1, <3>1, SMTT(30) DEF sats, Amount
  <2> QED
    BY <1>3, <1>6, <2>2, <2>3
<1> QED
  BY <1>1, <1>2, <1>4, <1>7 DEF balance, fee, sats

-----------------------------------------------------------------------------
(* The fields of objects put together. *)
LEMMA Together ==
  ASSUME NEW f, NEW g
  PROVE  /\ DOMAIN (f ++ g) = DOMAIN f \cup DOMAIN g
         /\ \A x \in DOMAIN f : (f ++ g)[x] = f[x]
         /\ \A x \in DOMAIN g : x \notin DOMAIN f => (f ++ g)[x] = g[x]
BY DEF ++

(* What a message says of its sender. *)
SenderFields == {"dustLimit", "minHtlcValue", "maxAcceptedHtlc", "maxInFlightHtlcValue",
                 "fundingPubKey", "paymentBasePoint", "delayedBasePoint", "htlcBasePoint",
                 "revocationBasePoint", "nextCommitmentNumber", "nextCommitmentPoint",
                 "nextCommitmentSig", "commitmentNumber", "commitmentPoint", "commitmentSig"}

LEMMA SenderSideFields ==
  ASSUME NEW msg, NEW side, side = SenderSide(msg)
  PROVE  /\ DOMAIN side = SenderFields
         /\ side.dustLimit = msg.dustLimit /\ side.fundingPubKey = msg.fundingPubKey
         /\ side.paymentBasePoint = msg.paymentBasePoint
         /\ side.delayedBasePoint = msg.delayedPaymentBasePoint
         /\ side.htlcBasePoint = msg.htlcBasePoint
         /\ side.revocationBasePoint = msg.revocationBasePoint
         /\ side.nextCommitmentNumber = 0
         /\ side.nextCommitmentPoint = msg.firstPerCommitmentPoint
         /\ side.nextCommitmentSig = None /\ side.commitmentSig = None
BY DEF SenderSide, ++, FirstCommitment, SenderFields

(* The reserve and the delay are all that a message says of its receiver. *)
LEMMA ReceiverSideFields ==
  ASSUME NEW msg, NEW own
  PROVE  /\ (ReceiverSide(msg) ++ own).toSelfDelayBlocks = msg.toSelfDelay
         /\ (ReceiverSide(msg) ++ own).channelReserve = msg.channelReserve
BY DEF ++, ReceiverSide

LEMMA ReceiverSideKeeps ==
  ASSUME NEW msg, NEW own
  PROVE  \A x \in DOMAIN own : x # "channelReserve" /\ x # "toSelfDelayBlocks" =>
           x \in DOMAIN (ReceiverSide(msg) ++ own) /\ (ReceiverSide(msg) ++ own)[x] = own[x]
BY DEF ++, ReceiverSide

(* What createChannel puts in a Channel. *)
LEMMA CreatedChannel ==
  ASSUME NEW r, NEW ch, ch = createChannel(r)
  PROVE  /\ ch.funder = TRUE /\ ch.fundingAmount = r.fundingAmount
         /\ ch.feeRatePerKw = r.feeRatePerKw /\ ch.secrets = OurSecrets
         /\ {"funder", "fundingAmount", "feeRatePerKw", "secrets", "ourSide", "theirSide"} \subseteq DOMAIN ch
BY DEF createChannel

LEMMA CreatedSides ==
  ASSUME NEW r, NEW ch, ch = createChannel(r)
  PROVE  /\ ch.ourSide.dustLimit = r.dustLimit
         /\ ch.ourSide.balance = subn(r.fundingAmount, r.pushAmount)
         /\ ch.ourSide.fundingPubKey = toPubKey(OurSecrets.funding)
         /\ ch.ourSide.paymentBasePoint = toPubKey(OurSecrets.payment)
         /\ ch.ourSide.delayedBasePoint = toPubKey(OurSecrets.delayed)
         /\ ch.ourSide.htlcBasePoint = toPubKey(OurSecrets.htlc)
         /\ ch.ourSide.revocationBasePoint = toPubKey(OurSecrets.revocation)
         /\ ch.ourSide.nextCommitmentNumber = 0
         /\ ch.ourSide.nextCommitmentPoint = pointOf(OurSecrets.seed, 0)
         /\ ch.ourSide.nextCommitmentSig = None /\ ch.ourSide.commitmentSig = None
         /\ ch.theirSide.channelReserve = r.channelReserveValue
         /\ ch.theirSide.toSelfDelayBlocks = r.toSelfBlockDelay
         /\ ch.theirSide.balance = r.pushAmount
         /\ DOMAIN ch.theirSide = {"channelReserve", "toSelfDelayBlocks", "balance"}
BY DEF createChannel, ++, KeysOf, FirstCommitment

(* What the counterpart answers: its own keys, if acceptError passes it. *)
LEMMA AcceptedMessage ==
  ASSUME NEW a \in Accepts, NEW msg, msg = AcceptMessage(a)
  PROVE  /\ msg.dustLimit = a.dustLimit /\ msg.minimumDepth = a.minimumDepth
         /\ msg.channelReserve = a.channelReserve /\ msg.toSelfDelay = a.toSelfDelay
<1> DEFINE Fields == {"dustLimit", "minimumDepth", "minHtlcValue", "maxHtlcValueInFlight",
                      "channelReserve", "toSelfDelay", "maxAcceptedHtlcs", "badKey"}
<1>1. DOMAIN a = Fields
  BY LedgerAssumption
<1>2. \A f \in Fields : msg[f] = a[f]
  BY <1>1 DEF AcceptMessage, ++
<1> QED
  BY <1>2

LEMMA FundedChannel ==
  ASSUME NEW r, NEW msg
  PROVE  LET ch == createChannel(r)
             accepted == attachAcceptChannel(ch, msg)
             funded == attachFundingTx(accepted, createFundingTx(accepted))
         IN /\ funded.funder = TRUE /\ funded.fundingAmount = r.fundingAmount
            /\ funded.feeRatePerKw = r.feeRatePerKw /\ funded.secrets = OurSecrets
            /\ funded.fundingScript = fundingScript(ch.ourSide.fundingPubKey, msg.fundingPubKey)
            /\ SignsFor(funded, funded.fundingTx.outputs[1])
            /\ TermFields \cup {"ourSide", "theirSide", "secrets", "fundingTx"} \subseteq DOMAIN funded
            /\ funded.ourSide = ReceiverSide(msg) ++ ch.ourSide
            /\ funded.theirSide = SenderSide(msg) ++ ch.theirSide
<1> SUFFICES
      ASSUME NEW ch, ch = createChannel(r),
             NEW accepted, accepted = attachAcceptChannel(ch, msg),
             NEW funded, funded = attachFundingTx(accepted, createFundingTx(accepted))
      PROVE  /\ funded.funder = TRUE /\ funded.fundingAmount = r.fundingAmount
             /\ funded.feeRatePerKw = r.feeRatePerKw /\ funded.secrets = OurSecrets
             /\ funded.fundingScript = fundingScript(ch.ourSide.fundingPubKey, msg.fundingPubKey)
             /\ SignsFor(funded, funded.fundingTx.outputs[1])
             /\ TermFields \cup {"ourSide", "theirSide", "secrets", "fundingTx"} \subseteq DOMAIN funded
             /\ funded.ourSide = ReceiverSide(msg) ++ ch.ourSide
             /\ funded.theirSide = SenderSide(msg) ++ ch.theirSide
  BY Zenon
<1>1. /\ ch.funder = TRUE /\ ch.fundingAmount = r.fundingAmount
      /\ ch.feeRatePerKw = r.feeRatePerKw /\ ch.secrets = OurSecrets
      /\ DOMAIN ch = {"funder", "fundingAmount", "pushAmount", "feeRatePerKw", "secrets", "ourSide", "theirSide"}
  BY DEF createChannel
<1> DEFINE moved == [ch EXCEPT !.ourSide = ReceiverSide(msg) ++ @, !.theirSide = SenderSide(msg) ++ @]
<1>2. /\ \A f \in DOMAIN ch \ {"ourSide", "theirSide"} : moved[f] = ch[f]
      /\ DOMAIN moved = DOMAIN ch
      /\ moved.ourSide = ReceiverSide(msg) ++ ch.ourSide
      /\ moved.theirSide = SenderSide(msg) ++ ch.theirSide
  <2> HIDE <1>1
  <2> DEFINE A == ReceiverSide(msg) ++ ch.ourSide
             B == SenderSide(msg) ++ ch.theirSide
  <2> HIDE DEF A, B
  <2>1. moved = [ch EXCEPT !.ourSide = A, !.theirSide = B]
    BY DEF A, B
  <2> HIDE DEF moved
  <2> QED
    BY <2>1, <1>1 DEF A, B
<1> HIDE DEF moved
<1>3. /\ \A f \in DOMAIN moved : accepted[f] = moved[f]
      /\ DOMAIN accepted = DOMAIN moved \cup {"minimumDepth", "fundingScript"}
      /\ accepted.fundingScript = fundingScript(ch.ourSide.fundingPubKey, msg.fundingPubKey)
  BY <1>1, <1>2 DEF attachAcceptChannel, ++, moved
<1>4. /\ \A f \in DOMAIN accepted : funded[f] = accepted[f]
      /\ DOMAIN funded = DOMAIN accepted \cup {"fundingTx", "fundingOutPoint"}
      /\ funded.fundingTx = createFundingTx(accepted)
  BY <1>1, <1>2, <1>3 DEF attachFundingTx, ++
<1>5. accepted.ourSide.fundingPubKey = ch.ourSide.fundingPubKey
  <2>1. "fundingPubKey" \in DOMAIN ch.ourSide
    BY DEF createChannel, ++, KeysOf
  <2>2. accepted.ourSide = ReceiverSide(msg) ++ ch.ourSide
    BY <1>1, <1>2, <1>3
  <2>3. (ReceiverSide(msg) ++ ch.ourSide).fundingPubKey = ch.ourSide.fundingPubKey
    BY <2>1, ReceiverSideKeeps
  <2> QED
    BY <2>2, <2>3
<1>6. accepted.theirSide.fundingPubKey = msg.fundingPubKey
  <2>1. accepted.theirSide = SenderSide(msg) ++ ch.theirSide
    BY <1>1, <1>2, <1>3
  <2>2. \A x \in DOMAIN SenderSide(msg) :
          (SenderSide(msg) ++ ch.theirSide)[x] = SenderSide(msg)[x]
    BY Together
  <2>3. "fundingPubKey" \in DOMAIN SenderSide(msg) /\ SenderSide(msg).fundingPubKey = msg.fundingPubKey
    BY SenderSideFields DEF SenderFields
  <2> QED
    BY <2>1, <2>2, <2>3
<1>7. SignsFor(accepted, funded.fundingTx.outputs[1])
  <2> DEFINE script == fundingScript(ch.ourSide.fundingPubKey, msg.fundingPubKey)
             out == createFundingOutput(accepted.fundingAmount, ch.ourSide.fundingPubKey,
                                        msg.fundingPubKey)
  <2>1. out.value = accepted.fundingAmount /\ out.lock.script = script
    <3> HIDE DEF script
    <3> QED
      BY Zenon DEF createFundingOutput, TxOut, p2wshLock, script
  <2>2. funded.fundingTx.outputs[1] = out
    BY <1>4, <1>5, <1>6 DEF createFundingTx
  <2> HIDE DEF out
  <2> QED
    BY <1>3, <2>1, <2>2 DEF SignsFor
<1>8. TermFields \cup {"ourSide", "theirSide", "secrets", "fundingTx"} \subseteq DOMAIN funded
  BY <1>1, <1>2, <1>3, <1>4 DEF TermFields
<1> QED
  BY <1>1, <1>2, <1>3, <1>4, <1>7, <1>8 DEF SignsFor

-----------------------------------------------------------------------------
(* A commitment without HTLCs. *)
LEMMA NoneKept == ASSUME NEW c, c.htlcs = << >> PROVE unprunedHtlcs(c) = << >>
<1>1. {k \in DOMAIN c.htlcs : IsUnpruned(c, c.htlcs[k])} = {}
  OBVIOUS
<1>2. Picked(c.htlcs, {}) = << >>
  BY FS_EmptySet DEF Picked
<1> QED
  BY <1>1, <1>2 DEF unprunedHtlcs

LocalPaid(c, baseFee) ==
    unlessDust(c, IF c.isFunderLocal THEN AfterFee(c.localValue, baseFee) ELSE c.localValue,
               toLocalScript(c.revocationPubKey, c.delayedPubKey, c.localDelay))

RemotePaid(c, baseFee) ==
    unlessDust(c, IF c.isFunderLocal THEN c.remoteValue ELSE AfterFee(c.remoteValue, baseFee),
               p2wpkhLock(c.remotePubKey))

BareFee(c) == FeesFor(724, c.feePerKw)

LEMMA UnlessDustIsSeq ==
  ASSUME NEW c, NEW value, NEW lock
  PROVE  << >> \o unlessDust(c, value, lock) = unlessDust(c, value, lock)
<1> DEFINE x == [out |-> TxOut(value, lock), htlc |-> << >>]
<1> HIDE DEF x
<1>1. unlessDust(c, value, lock) = <<x>> \/ unlessDust(c, value, lock) = << >>
  BY DEF unlessDust, x
<1>2. << >> \o <<x>> = <<x>> /\ << >> \o << >> = << >>
  OBVIOUS
<1> QED
  BY <1>1, <1>2

LEMMA BareOutputs ==
  ASSUME NEW c, c.htlcs = << >>
  PROVE  commitmentOutputs(c) = LocalPaid(c, BareFee(c)) \o RemotePaid(c, BareFee(c))
<1> DEFINE kept == unprunedHtlcs(c)
           ofHtlcs == [k \in 1 .. Len(kept) |-> [out |-> HtlcOutput(c, kept[k]), htlc |-> <<kept[k]>>]]
           fee == FeesFor(724 + 172 * Len(kept), c.feePerKw)
<1>1. kept = << >> /\ Len(kept) = 0
  BY NoneKept
<1>2. 724 + 172 * Len(kept) = 724
  BY <1>1
<1>3. ofHtlcs = << >>
  BY <1>1
<1>4. commitmentOutputs(c) = ofHtlcs \o LocalPaid(c, fee) \o RemotePaid(c, fee)
  BY Zenon DEF commitmentOutputs, LocalPaid, RemotePaid
<1>5. fee = BareFee(c)
  BY <1>2, ZenonT(30) DEF BareFee
<1> HIDE DEF ofHtlcs, fee
<1>6. << >> \o LocalPaid(c, fee) = LocalPaid(c, fee)
  BY UnlessDustIsSeq DEF LocalPaid
<1> QED
  BY <1>3, <1>4, <1>5, <1>6, Zenon

(* Without HTLCs, whose commitment it is makes no difference. *)
LEMMA SameBareTx ==
  ASSUME NEW c, NEW d, c.htlcs = << >>, d.htlcs = << >>,
         c.isFunderLocal = d.isFunderLocal, c.commitmentNumber = d.commitmentNumber,
         c.openPaymentBasePoint = d.openPaymentBasePoint,
         c.acceptPaymentBasePoint = d.acceptPaymentBasePoint,
         c.fundingOutPoint = d.fundingOutPoint, c.dustLimit = d.dustLimit, c.feePerKw = d.feePerKw,
         c.localDelay = d.localDelay, c.localValue = d.localValue, c.remoteValue = d.remoteValue,
         c.revocationPubKey = d.revocationPubKey, c.delayedPubKey = d.delayedPubKey,
         c.remotePubKey = d.remotePubKey
  PROVE  createCommitment(c).tx = createCommitment(d).tx
<1>1. /\ commitmentOutputs(c) = LocalPaid(c, BareFee(c)) \o RemotePaid(c, BareFee(c))
      /\ commitmentOutputs(d) = LocalPaid(d, BareFee(d)) \o RemotePaid(d, BareFee(d))
  BY BareOutputs
<1>2. /\ BareFee(c) = BareFee(d)
      /\ \A value, lock : unlessDust(c, value, lock) = unlessDust(d, value, lock)
  BY DEF BareFee, unlessDust
<1>3. /\ LocalPaid(c, BareFee(c)) = LocalPaid(d, BareFee(d))
      /\ RemotePaid(c, BareFee(c)) = RemotePaid(d, BareFee(d))
  BY <1>2 DEF LocalPaid, RemotePaid
<1>4. commitmentOutputs(c) = commitmentOutputs(d)
  BY <1>1, <1>3
<1>5. obscure(c.commitmentNumber, c.openPaymentBasePoint, c.acceptPaymentBasePoint)
      = obscure(d.commitmentNumber, d.openPaymentBasePoint, d.acceptPaymentBasePoint)
  OBVIOUS
<1> QED
  BY <1>4, <1>5 DEF createCommitment

(* A transaction has the outputs it was made of. *)
LEMMA OutputsCounted ==
  ASSUME NEW c, c.htlcs = << >>, 
         \/ LocalPaid(c, BareFee(c)) # << >>
         \/ RemotePaid(c, BareFee(c)) # << >>
  PROVE  createCommitment(c).tx.outputs # << >>
<1> DEFINE l == LocalPaid(c, BareFee(c))
           r == RemotePaid(c, BareFee(c))
           txouts == sortCommitmentOutputs(commitmentOutputs(c))
<1>1. commitmentOutputs(c) = l \o r
  BY BareOutputs
<1>2. PICK x : l \in {<< >>, <<x>>}
  BY DEF LocalPaid, unlessDust
<1>3. PICK y : r \in {<< >>, <<y>>}
  BY DEF RemotePaid, unlessDust
<1>n. PICK n \in Nat \ {0} : DOMAIN (l \o r) = 1 .. n
  <2>1. l # << >> \/ r # << >>
    OBVIOUS
  <2> HIDE DEF l, r
  <2>2. l \in Seq({x, y}) /\ r \in Seq({x, y})
    <3>1. << >> \in Seq({x, y}) /\ <<x>> \in Seq({x, y}) /\ <<y>> \in Seq({x, y})
      OBVIOUS
    <3> QED
      BY <1>2, <1>3, <3>1
  <2>3. /\ Len(l) \in Nat /\ Len(r) \in Nat /\ DOMAIN (l \o r) = 1 .. Len(l) + Len(r)
        /\ l # << >> => Len(l) > 0
        /\ r # << >> => Len(r) > 0
    BY <2>2
  <2>4. Len(l) + Len(r) \in Nat \ {0}
    BY <2>1, <2>3
  <2> QED
    BY <2>3, <2>4
<1> HIDE DEF l, r
<1>4. DOMAIN txouts = 1 .. n /\ Len(txouts) = n
  BY <1>1, <1>n DEF sortCommitmentOutputs
<1> HIDE DEF txouts
<1>5. createCommitment(c).tx.outputs =
        [k \in 1 .. Len(txouts) |-> [value |-> sats(txouts[k].out.value),
                                    lock |-> txouts[k].out.lock]]
  BY DEF createCommitment, txouts
<1>6. DOMAIN createCommitment(c).tx.outputs = 1 .. n /\ 1 \in 1 .. n
  BY <1>4, <1>5
<1> QED
  BY <1>6
-----------------------------------------------------------------------------
(* A rotation makes the next commitment the current one and leaves the     *)
(* terms of a side alone.                                                  *)
LEMMA RotatedFields ==
  ASSUME NEW side, NEW point, SideFields \subseteq DOMAIN side
  PROVE  /\ DOMAIN Rotated(side, point) = DOMAIN side
         /\ Twin(Rotated(side, point), side)
         /\ Rotated(side, point).nextCommitmentNumber = next(side.nextCommitmentNumber)
         /\ Rotated(side, point).nextCommitmentPoint = point
         /\ Rotated(side, point).nextCommitmentSig = None
         /\ Rotated(side, point).commitmentNumber = side.nextCommitmentNumber
         /\ Rotated(side, point).commitmentPoint = side.nextCommitmentPoint
         /\ Rotated(side, point).commitmentSig = side.nextCommitmentSig
<1> DEFINE moved == Rotated(side, point)
<1>0. moved = [side EXCEPT !.commitmentNumber = side.nextCommitmentNumber,
                 !.commitmentPoint = side.nextCommitmentPoint,
                 !.commitmentSig = side.nextCommitmentSig,
                 !.nextCommitmentNumber = next(@), !.nextCommitmentPoint = point,
                 !.nextCommitmentSig = None]
  BY DEF Rotated
<1>1. /\ "commitmentNumber" \in DOMAIN side /\ "commitmentPoint" \in DOMAIN side
      /\ "commitmentSig" \in DOMAIN side /\ "nextCommitmentNumber" \in DOMAIN side
      /\ "nextCommitmentPoint" \in DOMAIN side /\ "nextCommitmentSig" \in DOMAIN side
  BY DEF SideFields
<1>2. /\ "dustLimit" \in DOMAIN side /\ "balance" \in DOMAIN side
      /\ "toSelfDelayBlocks" \in DOMAIN side /\ "fundingPubKey" \in DOMAIN side
      /\ "paymentBasePoint" \in DOMAIN side /\ "delayedBasePoint" \in DOMAIN side
      /\ "htlcBasePoint" \in DOMAIN side /\ "revocationBasePoint" \in DOMAIN side
  BY DEF SideFields
<1> HIDE DEF moved
<1>3. DOMAIN moved = DOMAIN side
  BY <1>0
<1>4. Twin(moved, side)
  BY <1>0, <1>2 DEF Twin
<1>5. /\ moved.nextCommitmentNumber = next(side.nextCommitmentNumber)
      /\ moved.nextCommitmentPoint = point
      /\ moved.nextCommitmentSig = None
  BY <1>0, <1>1
<1>6. /\ moved.commitmentNumber = side.nextCommitmentNumber
      /\ moved.commitmentPoint = side.nextCommitmentPoint
      /\ moved.commitmentSig = side.nextCommitmentSig
  BY <1>0, <1>1
<1> QED
  BY <1>3, <1>4, <1>5, <1>6 DEF moved

(* A channel with a side of it replaced. *)
LEMMA OurSideSet ==
  ASSUME NEW ch, NEW side, "ourSide" \in DOMAIN ch
  PROVE  /\ DOMAIN [ch EXCEPT !.ourSide = side] = DOMAIN ch
         /\ [ch EXCEPT !.ourSide = side].ourSide = side
         /\ \A f \in DOMAIN ch \ {"ourSide"} : [ch EXCEPT !.ourSide = side][f] = ch[f]
OBVIOUS

LEMMA TheirSideSet ==
  ASSUME NEW ch, NEW side, "theirSide" \in DOMAIN ch
  PROVE  /\ DOMAIN [ch EXCEPT !.theirSide = side] = DOMAIN ch
         /\ [ch EXCEPT !.theirSide = side].theirSide = side
         /\ \A f \in DOMAIN ch \ {"theirSide"} : [ch EXCEPT !.theirSide = side][f] = ch[f]
OBVIOUS

(* The terms two records of one node's channel have in common. *)
SameTerms(ch, da) ==
    /\ \A f \in TermFields : ch[f] = da[f]
    /\ Twin(ch.ourSide, da.ourSide) /\ Twin(ch.theirSide, da.theirSide)

(* Our commitment depends on the terms and our next number and point. *)
LEMMA SameLocal ==
  ASSUME NEW ch, NEW da, SameTerms(ch, da),
         SameNumber(ch.ourSide, da.ourSide), SamePoint(ch.ourSide, da.ourSide)
  PROVE  createLocalCommitmentTx(ch) = createLocalCommitmentTx(da)
<1>1. /\ ch.funder = da.funder /\ ch.fundingOutPoint = da.fundingOutPoint
      /\ ch.feeRatePerKw = da.feeRatePerKw
  BY DEF SameTerms, TermFields
<1>2. /\ openPaymentBasePoint(ch) = openPaymentBasePoint(da)
      /\ acceptPaymentBasePoint(ch) = acceptPaymentBasePoint(da)
  BY <1>1 DEF SameTerms, Twin, openPaymentBasePoint, acceptPaymentBasePoint
<1>3. LocalCommitment(ch, << >>) = LocalCommitment(da, << >>)
  BY <1>1, <1>2 DEF SameTerms, Twin, SameNumber, SamePoint, LocalCommitment
<1> QED
  BY <1>3, Zenon DEF createLocalCommitmentTx

(* What we build of the counterpart's commitment is what it builds. *)
LEMMA TheirsSeenByUs ==
  ASSUME NEW ch, NEW other,
         (ch.funder = TRUE /\ other.funder = FALSE) \/ (ch.funder = FALSE /\ other.funder = TRUE),
         ch.fundingOutPoint = other.fundingOutPoint, ch.feeRatePerKw = other.feeRatePerKw,
         Twin(other.ourSide, ch.theirSide), Twin(ch.ourSide, other.theirSide),
         SameNumber(other.ourSide, ch.theirSide), SamePoint(other.ourSide, ch.theirSide)
  PROVE  createRemoteCommitmentTx(ch) = createLocalCommitmentTx(other)
<1>1. /\ openPaymentBasePoint(ch) = openPaymentBasePoint(other)
      /\ acceptPaymentBasePoint(ch) = acceptPaymentBasePoint(other)
  <2>1. /\ ch.ourSide.paymentBasePoint = other.theirSide.paymentBasePoint
        /\ ch.theirSide.paymentBasePoint = other.ourSide.paymentBasePoint
    BY DEF Twin
  <2>2. CASE ch.funder
    BY <2>1, <2>2 DEF openPaymentBasePoint, acceptPaymentBasePoint
  <2>3. CASE ~ch.funder
    BY <2>1, <2>3 DEF openPaymentBasePoint, acceptPaymentBasePoint
  <2> QED
    BY <2>2, <2>3
<1> DEFINE c == RemoteCommitment(ch, << >>)
           d == LocalCommitment(other, << >>)
<1>2. c.isFunderLocal = d.isFunderLocal
  BY DEF RemoteCommitment, LocalCommitment
<1>3. /\ c.htlcs = << >> /\ d.htlcs = << >>
      /\ c.commitmentNumber = d.commitmentNumber
      /\ c.openPaymentBasePoint = d.openPaymentBasePoint
      /\ c.acceptPaymentBasePoint = d.acceptPaymentBasePoint
      /\ c.fundingOutPoint = d.fundingOutPoint /\ c.feePerKw = d.feePerKw
  BY <1>1 DEF SameNumber, RemoteCommitment, LocalCommitment
<1>4. /\ c.dustLimit = d.dustLimit /\ c.localDelay = d.localDelay
      /\ c.localValue = d.localValue /\ c.remoteValue = d.remoteValue
      /\ c.remotePubKey = d.remotePubKey
  BY DEF Twin, RemoteCommitment, LocalCommitment
<1>5. c.revocationPubKey = d.revocationPubKey /\ c.delayedPubKey = d.delayedPubKey
  BY DEF Twin, SamePoint, RemoteCommitment, LocalCommitment
<1> HIDE DEF c, d
<1>6. createCommitment(c).tx = createCommitment(d).tx
  BY <1>2, <1>3, <1>4, <1>5, SameBareTx
<1> QED
  BY <1>6, Zenon DEF createRemoteCommitmentTx, createLocalCommitmentTx, c, d

(* The commitment before the next one is looked at as the next. *)
LEMMA AsNextFields ==
  ASSUME NEW ch, Shaped(ch)
  PROVE  /\ SameTerms(AsNext(ch), ch)
         /\ AsNext(ch).ourSide.nextCommitmentNumber = ch.ourSide.commitmentNumber
         /\ AsNext(ch).ourSide.nextCommitmentPoint = ch.ourSide.commitmentPoint
<1> DEFINE n == ch.ourSide.commitmentNumber
           p == ch.ourSide.commitmentPoint
           side == [ch.ourSide EXCEPT !.nextCommitmentNumber = n, !.nextCommitmentPoint = p]
<1>1. /\ "ourSide" \in DOMAIN ch /\ "theirSide" \in DOMAIN ch
      /\ TermFields \subseteq DOMAIN ch \ {"ourSide"} /\ SideFields \subseteq DOMAIN ch.ourSide
  BY DEF Shaped, TermFields
<1>2. AsNext(ch) = [ch EXCEPT !.ourSide = side]
  BY <1>1 DEF AsNext
<1>3. /\ "nextCommitmentNumber" \in DOMAIN ch.ourSide
      /\ "nextCommitmentPoint" \in DOMAIN ch.ourSide
      /\ "dustLimit" \in DOMAIN ch.ourSide /\ "balance" \in DOMAIN ch.ourSide
      /\ "toSelfDelayBlocks" \in DOMAIN ch.ourSide /\ "fundingPubKey" \in DOMAIN ch.ourSide
      /\ "paymentBasePoint" \in DOMAIN ch.ourSide /\ "delayedBasePoint" \in DOMAIN ch.ourSide
      /\ "htlcBasePoint" \in DOMAIN ch.ourSide /\ "revocationBasePoint" \in DOMAIN ch.ourSide
  BY <1>1 DEF SideFields
<1> HIDE DEF n, p
<1>4. Twin(side, ch.ourSide) /\ side.nextCommitmentNumber = n /\ side.nextCommitmentPoint = p
  BY <1>3 DEF Twin
<1> HIDE DEF side
<1>5. /\ AsNext(ch).ourSide = side
      /\ \A f \in DOMAIN ch \ {"ourSide"} : AsNext(ch)[f] = ch[f]
  BY <1>1, <1>2, OurSideSet
<1>6. Twin(ch.theirSide, ch.theirSide)
  BY DEF Twin
<1> QED
  BY <1>1, <1>4, <1>5, <1>6 DEF SameTerms, n, p

LEMMA TwinTwin ==
  ASSUME NEW s, NEW t, NEW u, Twin(s, t), Twin(t, u)
  PROVE  Twin(s, u)
BY DEF Twin

LEMMA TwinSelf == ASSUME NEW s PROVE Twin(s, s)
BY DEF Twin

(* The counterpart's side moves on: our side is left alone. *)
LEMMA ChannelReadyAttached ==
  ASSUME NEW ch, NEW point, Shaped(ch)
  PROVE  /\ Shaped(attachChannelReady(ch, point)) /\ SameTerms(attachChannelReady(ch, point), ch)
         /\ attachChannelReady(ch, point).ourSide = ch.ourSide
         /\ attachChannelReady(ch, point).theirSide = Rotated(ch.theirSide, point)
         /\ \A f \in DOMAIN ch \ {"theirSide"} :
              f \in DOMAIN attachChannelReady(ch, point)
              /\ attachChannelReady(ch, point)[f] = ch[f]
<1> DEFINE side == Rotated(ch.theirSide, point)
<1>1. /\ "ourSide" \in DOMAIN ch /\ "theirSide" \in DOMAIN ch /\ "secrets" \in DOMAIN ch
      /\ TermFields \subseteq DOMAIN ch \ {"theirSide"} /\ SideFields \subseteq DOMAIN ch.ourSide
      /\ SideFields \subseteq DOMAIN ch.theirSide /\ "seed" \in DOMAIN ch.secrets
  BY DEF Shaped, TermFields
<1>2. DOMAIN side = DOMAIN ch.theirSide /\ Twin(side, ch.theirSide)
  BY <1>1, RotatedFields
<1>3. attachChannelReady(ch, point) = [ch EXCEPT !.theirSide = side]
  BY <1>1 DEF attachChannelReady
<1> HIDE DEF side
<1> DEFINE moved == [ch EXCEPT !.theirSide = side]
<1>4. /\ DOMAIN moved = DOMAIN ch /\ moved.theirSide = side
      /\ \A f \in DOMAIN ch \ {"theirSide"} : moved[f] = ch[f]
  BY <1>1, TheirSideSet
<1> HIDE DEF moved
<1>5. moved.ourSide = ch.ourSide /\ moved.secrets = ch.secrets
  BY <1>1, <1>4
<1>6. SameTerms(moved, ch)
  BY <1>1, <1>2, <1>4, <1>5, TwinSelf DEF SameTerms
<1>7. Shaped(moved)
  BY <1>1, <1>2, <1>4, <1>5 DEF Shaped
<1> QED
  BY <1>3, <1>4, <1>5, <1>6, <1>7 DEF moved, side

(* Our side moves on: the counterpart's is left alone. *)
LEMMA LocalRevoked ==
  ASSUME NEW ch, Shaped(ch)
  PROVE  LET point == pointOf(ch.secrets.seed, next(ch.ourSide.nextCommitmentNumber))
         IN /\ Shaped(revokeLocalCommitment(ch)) /\ SameTerms(revokeLocalCommitment(ch), ch)
            /\ revokeLocalCommitment(ch).theirSide = ch.theirSide
            /\ revokeLocalCommitment(ch).ourSide = Rotated(ch.ourSide, point)
            /\ \A f \in DOMAIN ch \ {"ourSide"} :
                 f \in DOMAIN revokeLocalCommitment(ch) /\ revokeLocalCommitment(ch)[f] = ch[f]
<1> DEFINE point == pointOf(ch.secrets.seed, next(ch.ourSide.nextCommitmentNumber))
           side == Rotated(ch.ourSide, point)
<1> HIDE DEF point
<1>1. /\ "ourSide" \in DOMAIN ch /\ "theirSide" \in DOMAIN ch /\ "secrets" \in DOMAIN ch
      /\ TermFields \subseteq DOMAIN ch \ {"ourSide"} /\ SideFields \subseteq DOMAIN ch.ourSide
      /\ SideFields \subseteq DOMAIN ch.theirSide /\ "seed" \in DOMAIN ch.secrets
  BY DEF Shaped, TermFields
<1>2. DOMAIN side = DOMAIN ch.ourSide /\ Twin(side, ch.ourSide)
  BY <1>1, RotatedFields
<1>3. revokeLocalCommitment(ch) = [ch EXCEPT !.ourSide = side]
  BY <1>1 DEF revokeLocalCommitment, point
<1> HIDE DEF side
<1> DEFINE moved == [ch EXCEPT !.ourSide = side]
<1>4. /\ DOMAIN moved = DOMAIN ch /\ moved.ourSide = side
      /\ \A f \in DOMAIN ch \ {"ourSide"} : moved[f] = ch[f]
  BY <1>1, OurSideSet
<1> HIDE DEF moved
<1>5. moved.theirSide = ch.theirSide /\ moved.secrets = ch.secrets
  BY <1>1, <1>4
<1>6. SameTerms(moved, ch)
  BY <1>1, <1>2, <1>4, <1>5, TwinSelf DEF SameTerms
<1>7. Shaped(moved)
  BY <1>1, <1>2, <1>4, <1>5 DEF Shaped
<1> QED
  BY <1>3, <1>4, <1>5, <1>6, <1>7 DEF moved, side, point

(* A signature is put with our next commitment. *)
LEMMA FundingSignedAttached ==
  ASSUME NEW ch, NEW sig, Shaped(ch)
  PROVE  /\ Shaped(attachFundingSigned(ch, sig)) /\ SameTerms(attachFundingSigned(ch, sig), ch)
         /\ attachFundingSigned(ch, sig).theirSide = ch.theirSide
         /\ attachFundingSigned(ch, sig).ourSide.nextCommitmentSig = sig
         /\ \A f \in SideFields \ {"nextCommitmentSig"} :
              attachFundingSigned(ch, sig).ourSide[f] = ch.ourSide[f]
         /\ \A f \in DOMAIN ch \ {"ourSide"} :
              f \in DOMAIN attachFundingSigned(ch, sig) /\ attachFundingSigned(ch, sig)[f] = ch[f]
<1> DEFINE side == [ch.ourSide EXCEPT !.nextCommitmentSig = sig]
<1>1. /\ "ourSide" \in DOMAIN ch /\ "theirSide" \in DOMAIN ch /\ "secrets" \in DOMAIN ch
      /\ TermFields \subseteq DOMAIN ch \ {"ourSide"} /\ SideFields \subseteq DOMAIN ch.ourSide
      /\ SideFields \subseteq DOMAIN ch.theirSide /\ "seed" \in DOMAIN ch.secrets
  BY DEF Shaped, TermFields
<1>2. /\ DOMAIN side = DOMAIN ch.ourSide
      /\ \A f \in DOMAIN ch.ourSide \ {"nextCommitmentSig"} : side[f] = ch.ourSide[f]
  OBVIOUS
<1>3. side.nextCommitmentSig = sig
  BY <1>1 DEF SideFields
<1>4. attachFundingSigned(ch, sig) = [ch EXCEPT !.ourSide = side]
  BY <1>1 DEF attachFundingSigned
<1> HIDE DEF side
<1>5. Twin(side, ch.ourSide)
  BY <1>1, <1>2 DEF Twin, SideFields
<1> DEFINE moved == [ch EXCEPT !.ourSide = side]
<1>6. /\ DOMAIN moved = DOMAIN ch /\ moved.ourSide = side
      /\ \A f \in DOMAIN ch \ {"ourSide"} : moved[f] = ch[f]
  BY <1>1, OurSideSet
<1> HIDE DEF moved
<1>7. moved.theirSide = ch.theirSide /\ moved.secrets = ch.secrets
  BY <1>1, <1>6
<1>8. SameTerms(moved, ch)
  BY <1>1, <1>5, <1>6, <1>7, TwinSelf DEF SameTerms
<1>9. Shaped(moved)
  BY <1>1, <1>2, <1>6, <1>7 DEF Shaped
<1>10. \A f \in SideFields \ {"nextCommitmentSig"} : moved.ourSide[f] = ch.ourSide[f]
  BY <1>1, <1>2, <1>6
<1> QED
  BY <1>3, <1>4, <1>6, <1>7, <1>8, <1>9, <1>10 DEF moved

(* The counterpart takes another seed. *)
LEMMA SeedTaken ==
  ASSUME NEW ch, NEW seed, Shaped(ch)
  PROVE  /\ Shaped([ch EXCEPT !.secrets.seed = seed])
         /\ SameTerms([ch EXCEPT !.secrets.seed = seed], ch)
         /\ [ch EXCEPT !.secrets.seed = seed].ourSide = ch.ourSide
         /\ [ch EXCEPT !.secrets.seed = seed].theirSide = ch.theirSide
         /\ [ch EXCEPT !.secrets.seed = seed].secrets.seed = seed
         /\ DOMAIN [ch EXCEPT !.secrets.seed = seed] = DOMAIN ch
<1> DEFINE s == [ch.secrets EXCEPT !.seed = seed]
<1>1. /\ "ourSide" \in DOMAIN ch /\ "theirSide" \in DOMAIN ch /\ "secrets" \in DOMAIN ch
      /\ TermFields \subseteq DOMAIN ch \ {"secrets"} /\ SideFields \subseteq DOMAIN ch.ourSide
      /\ SideFields \subseteq DOMAIN ch.theirSide /\ "seed" \in DOMAIN ch.secrets
  BY DEF Shaped, TermFields
<1>2. s.seed = seed /\ "seed" \in DOMAIN s
  BY <1>1
<1>3. [ch EXCEPT !.secrets.seed = seed] = [ch EXCEPT !.secrets = s]
  BY <1>1
<1> HIDE DEF s
<1> DEFINE moved == [ch EXCEPT !.secrets = s]
<1>4. /\ DOMAIN moved = DOMAIN ch /\ moved.secrets = s
      /\ \A f \in DOMAIN ch \ {"secrets"} : moved[f] = ch[f]
  BY <1>1
<1> HIDE DEF moved
<1>5. moved.ourSide = ch.ourSide /\ moved.theirSide = ch.theirSide
  BY <1>1, <1>4
<1>6. SameTerms(moved, ch)
  BY <1>1, <1>4, <1>5, TwinSelf DEF SameTerms
<1>7. Shaped(moved)
  BY <1>1, <1>2, <1>4, <1>5 DEF Shaped
<1> QED
  BY <1>2, <1>3, <1>4, <1>5, <1>6, <1>7 DEF moved

LEMMA TermsTwin ==
  ASSUME NEW ch, NEW da, NEW mi, SameTerms(ch, da), SameTerms(mi, da)
  PROVE  SameTerms(ch, mi)
BY DEF SameTerms, Twin

LEMMA TermsThrough ==
  ASSUME NEW ch, NEW da, NEW mi, SameTerms(ch, da), SameTerms(da, mi)
  PROVE  SameTerms(ch, mi)
BY DEF SameTerms, Twin

(* The fields a signature is checked with. *)
LEMMA SigChecked ==
  ASSUME NEW ch, NEW da, SameTerms(ch, da), NEW tx, NEW sig
  PROVE  validateCommitmentSig(ch, tx, sig, ch.theirSide.fundingPubKey)
         <=> validateCommitmentSig(da, tx, sig, da.theirSide.fundingPubKey)
<1>1. /\ ch.fundingScript = da.fundingScript /\ ch.fundingAmount = da.fundingAmount
      /\ ch.theirSide.fundingPubKey = da.theirSide.fundingPubKey
  BY DEF SameTerms, TermFields, Twin
<1> QED
  BY <1>1, Zenon DEF validateCommitmentSig

(* A signature stays valid while the terms do and our side's commitments. *)
LEMMA SigsKept ==
  ASSUME NEW ch, NEW da, Shaped(ch), Shaped(da), SameTerms(ch, da), SigsHold(da),
         \A f \in {"commitmentNumber", "commitmentPoint", "commitmentSig", "nextCommitmentNumber",
                   "nextCommitmentPoint", "nextCommitmentSig"} : ch.ourSide[f] = da.ourSide[f]
  PROVE  SigsHold(ch)
<1>1. /\ ch.ourSide.commitmentNumber = da.ourSide.commitmentNumber
      /\ ch.ourSide.commitmentPoint = da.ourSide.commitmentPoint
      /\ ch.ourSide.commitmentSig = da.ourSide.commitmentSig
      /\ ch.ourSide.nextCommitmentNumber = da.ourSide.nextCommitmentNumber
      /\ ch.ourSide.nextCommitmentPoint = da.ourSide.nextCommitmentPoint
      /\ ch.ourSide.nextCommitmentSig = da.ourSide.nextCommitmentSig
  OBVIOUS
<1>2. createLocalCommitmentTx(ch) = createLocalCommitmentTx(da)
  BY <1>1, SameLocal DEF SameNumber, SamePoint
<1>3. createLocalCommitmentTx(AsNext(ch)) = createLocalCommitmentTx(AsNext(da))
  <2>1. SameTerms(AsNext(ch), ch) /\ SameTerms(AsNext(da), da)
    BY AsNextFields
  <2>2. SameTerms(AsNext(ch), AsNext(da))
    BY <2>1, TermsThrough, TermsTwin
  <2>3. /\ AsNext(ch).ourSide.nextCommitmentNumber = AsNext(da).ourSide.nextCommitmentNumber
        /\ AsNext(ch).ourSide.nextCommitmentPoint = AsNext(da).ourSide.nextCommitmentPoint
    BY <1>1, AsNextFields
  <2> QED
    BY <2>2, <2>3, SameLocal DEF SameNumber, SamePoint
<1> QED
  BY <1>1, <1>2, <1>3, SigChecked DEF SigsHold

(* The next signature becomes the current one with its commitment. *)
LEMMA SigsRevoked ==
  ASSUME NEW ch, Shaped(ch), SigsHold(ch)
  PROVE  SigsHold(revokeLocalCommitment(ch))
<1> DEFINE point == pointOf(ch.secrets.seed, next(ch.ourSide.nextCommitmentNumber))
           moved == revokeLocalCommitment(ch)
<1>1. /\ Shaped(moved) /\ SameTerms(moved, ch)
      /\ moved.ourSide = Rotated(ch.ourSide, point)
  BY LocalRevoked
<1> HIDE DEF moved, point
<1>2. /\ moved.ourSide.nextCommitmentSig = None
      /\ moved.ourSide.commitmentNumber = ch.ourSide.nextCommitmentNumber
      /\ moved.ourSide.commitmentPoint = ch.ourSide.nextCommitmentPoint
      /\ moved.ourSide.commitmentSig = ch.ourSide.nextCommitmentSig
  <2>1. SideFields \subseteq DOMAIN ch.ourSide
    BY DEF Shaped
  <2>2. /\ Rotated(ch.ourSide, point).nextCommitmentSig = None
        /\ Rotated(ch.ourSide, point).commitmentNumber = ch.ourSide.nextCommitmentNumber
        /\ Rotated(ch.ourSide, point).commitmentPoint = ch.ourSide.nextCommitmentPoint
        /\ Rotated(ch.ourSide, point).commitmentSig = ch.ourSide.nextCommitmentSig
    BY <2>1, RotatedFields
  <2> QED
    BY <1>1, <2>2
<1>3. createLocalCommitmentTx(AsNext(moved)) = createLocalCommitmentTx(ch)
  <2>1. /\ SameTerms(AsNext(moved), moved)
        /\ AsNext(moved).ourSide.nextCommitmentNumber = ch.ourSide.nextCommitmentNumber
        /\ AsNext(moved).ourSide.nextCommitmentPoint = ch.ourSide.nextCommitmentPoint
    BY <1>1, <1>2, AsNextFields
  <2>2. SameTerms(AsNext(moved), ch)
    BY <1>1, <2>1, TermsThrough
  <2> QED
    BY <2>1, <2>2, SameLocal DEF SameNumber, SamePoint
<1>4. \A sig : validateCommitmentSig(moved, createLocalCommitmentTx(ch), sig,
                                     moved.theirSide.fundingPubKey)
               <=> validateCommitmentSig(ch, createLocalCommitmentTx(ch), sig,
                                         ch.theirSide.fundingPubKey)
  BY <1>1, SigChecked
<1> QED
  BY <1>2, <1>3, <1>4 DEF SigsHold, moved

(* A signature that was checked is held. *)
LEMMA SigsAttached ==
  ASSUME NEW ch, NEW sig, Shaped(ch), SigsHold(ch),
         validateCommitmentSig(ch, createLocalCommitmentTx(ch), sig, ch.theirSide.fundingPubKey)
  PROVE  SigsHold(attachFundingSigned(ch, sig))
<1> DEFINE moved == attachFundingSigned(ch, sig)
<1>1. /\ Shaped(moved) /\ SameTerms(moved, ch) /\ moved.ourSide.nextCommitmentSig = sig
      /\ \A f \in SideFields \ {"nextCommitmentSig"} : moved.ourSide[f] = ch.ourSide[f]
  BY FundingSignedAttached
<1> HIDE DEF moved
<1>2. /\ moved.ourSide.commitmentNumber = ch.ourSide.commitmentNumber
      /\ moved.ourSide.commitmentPoint = ch.ourSide.commitmentPoint
      /\ moved.ourSide.commitmentSig = ch.ourSide.commitmentSig
      /\ moved.ourSide.nextCommitmentNumber = ch.ourSide.nextCommitmentNumber
      /\ moved.ourSide.nextCommitmentPoint = ch.ourSide.nextCommitmentPoint
  BY <1>1 DEF SideFields
<1>3. createLocalCommitmentTx(moved) = createLocalCommitmentTx(ch)
  BY <1>1, <1>2, SameLocal DEF SameNumber, SamePoint
<1>4. createLocalCommitmentTx(AsNext(moved)) = createLocalCommitmentTx(AsNext(ch))
  <2>1. SameTerms(AsNext(moved), moved) /\ SameTerms(AsNext(ch), ch)
    BY <1>1, AsNextFields
  <2>2. SameTerms(AsNext(moved), AsNext(ch))
    BY <1>1, <2>1, TermsThrough, TermsTwin
  <2>3. /\ AsNext(moved).ourSide.nextCommitmentNumber = AsNext(ch).ourSide.nextCommitmentNumber
        /\ AsNext(moved).ourSide.nextCommitmentPoint = AsNext(ch).ourSide.nextCommitmentPoint
    BY <1>1, <1>2, AsNextFields
  <2> QED
    BY <2>2, <2>3, SameLocal DEF SameNumber, SamePoint
<1>5. \A tx, s : validateCommitmentSig(moved, tx, s, moved.theirSide.fundingPubKey)
                 <=> validateCommitmentSig(ch, tx, s, ch.theirSide.fundingPubKey)
  BY <1>1, SigChecked
<1> QED
  BY <1>1, <1>2, <1>3, <1>4, <1>5 DEF SigsHold, moved

(* A side of the counterpart's record. *)
LEMMA PeerSide ==
  ASSUME NEW amount, NEW msg, NEW other
  PROVE  LET side == [balance |-> amount] ++ SenderSide(msg) ++ ReceiverSide(other)
         IN /\ SideFields \subseteq DOMAIN side
            /\ \A f \in SenderFields : side[f] = SenderSide(msg)[f]
            /\ side.balance = amount /\ side.toSelfDelayBlocks = other.toSelfDelay
<1> DEFINE b == [balance |-> amount]
           s == SenderSide(msg)
           r == ReceiverSide(other)
<1>1. DOMAIN b = {"balance"} /\ b.balance = amount
  OBVIOUS
<1>2. DOMAIN s = SenderFields
  BY SenderSideFields
<1>3. DOMAIN r = {"channelReserve", "toSelfDelayBlocks"} /\ r.toSelfDelayBlocks = other.toSelfDelay
  BY DEF ReceiverSide
<1> HIDE DEF b, s, r
<1> DEFINE bs == b ++ s
<1>4. /\ DOMAIN bs = {"balance"} \cup SenderFields
      /\ bs.balance = amount /\ \A f \in SenderFields : bs[f] = s[f]
  <2>1. "balance" \notin SenderFields
    BY DEF SenderFields
  <2>2. /\ DOMAIN (b ++ s) = DOMAIN b \cup DOMAIN s
        /\ \A x \in DOMAIN b : (b ++ s)[x] = b[x]
        /\ \A x \in DOMAIN s : x \notin DOMAIN b => (b ++ s)[x] = s[x]
    BY Together
  <2> QED
    BY <1>1, <1>2, <2>1, <2>2
<1> HIDE DEF bs
<1>5. /\ DOMAIN (bs ++ r) = {"balance", "channelReserve", "toSelfDelayBlocks"} \cup SenderFields
      /\ (bs ++ r).balance = amount /\ \A f \in SenderFields : (bs ++ r)[f] = s[f]
      /\ (bs ++ r).toSelfDelayBlocks = other.toSelfDelay
  <2>1. "toSelfDelayBlocks" \notin {"balance"} \cup SenderFields
    BY DEF SenderFields
  <2>2. /\ DOMAIN (bs ++ r) = DOMAIN bs \cup DOMAIN r
        /\ \A x \in DOMAIN bs : (bs ++ r)[x] = bs[x]
        /\ \A x \in DOMAIN r : x \notin DOMAIN bs => (bs ++ r)[x] = r[x]
    BY Together
  <2> QED
    BY <1>3, <1>4, <2>1, <2>2
<1>6. SideFields \subseteq DOMAIN (bs ++ r)
  BY <1>5 DEF SideFields, SenderFields
<1> QED
  BY <1>5, <1>6, Zenon DEF bs, b, s, r

(* The sides of our record when accept_channel has been taken. *)
LEMMA OurSideAccepted ==
  ASSUME NEW r, NEW msg, NEW ch, ch = createChannel(r)
  PROVE  LET side == ReceiverSide(msg) ++ ch.ourSide
         IN /\ SideFields \subseteq DOMAIN side
            /\ \A f \in SideFields \ {"toSelfDelayBlocks"} : side[f] = ch.ourSide[f]
            /\ side.toSelfDelayBlocks = msg.toSelfDelay
<1>1. SideFields \ {"toSelfDelayBlocks"} \subseteq DOMAIN ch.ourSide
  BY DEF createChannel, ++, KeysOf, FirstCommitment, SideFields
<1>2. DOMAIN ReceiverSide(msg) = {"channelReserve", "toSelfDelayBlocks"}
  BY DEF ReceiverSide
<1>3. /\ DOMAIN (ReceiverSide(msg) ++ ch.ourSide) = DOMAIN ReceiverSide(msg) \cup DOMAIN ch.ourSide
      /\ \A x \in DOMAIN ch.ourSide : x \notin DOMAIN ReceiverSide(msg) =>
            (ReceiverSide(msg) ++ ch.ourSide)[x] = ch.ourSide[x]
  BY Together, ZenonT(30)
<1>4. "channelReserve" \notin SideFields
  BY DEF SideFields
<1>5. (ReceiverSide(msg) ++ ch.ourSide).toSelfDelayBlocks = msg.toSelfDelay
  BY ReceiverSideFields
<1> QED
  BY <1>1, <1>2, <1>3, <1>4, <1>5

LEMMA TheirSideAccepted ==
  ASSUME NEW r, NEW msg, NEW ch, ch = createChannel(r)
  PROVE  LET side == SenderSide(msg) ++ ch.theirSide
         IN /\ SideFields \subseteq DOMAIN side
            /\ \A f \in SenderFields : side[f] = SenderSide(msg)[f]
            /\ side.balance = r.pushAmount /\ side.toSelfDelayBlocks = r.toSelfBlockDelay
<1>1. /\ DOMAIN ch.theirSide = {"channelReserve", "toSelfDelayBlocks", "balance"}
      /\ ch.theirSide.balance = r.pushAmount /\ ch.theirSide.toSelfDelayBlocks = r.toSelfBlockDelay
  BY CreatedSides
<1>2. DOMAIN SenderSide(msg) = SenderFields
  BY SenderSideFields
<1> DEFINE side == SenderSide(msg) ++ ch.theirSide
<1>3. /\ DOMAIN side = DOMAIN SenderSide(msg) \cup DOMAIN ch.theirSide
      /\ \A x \in DOMAIN SenderSide(msg) : side[x] = SenderSide(msg)[x]
      /\ \A x \in DOMAIN ch.theirSide : x \notin DOMAIN SenderSide(msg) =>
            side[x] = ch.theirSide[x]
  BY Together
<1> HIDE DEF side
<1>4. /\ "balance" \notin SenderFields /\ "toSelfDelayBlocks" \notin SenderFields
      /\ SideFields \subseteq SenderFields \cup {"balance", "toSelfDelayBlocks"}
  BY DEF SenderFields, SideFields
<1>5. /\ SideFields \subseteq DOMAIN side
      /\ \A f \in SenderFields : side[f] = SenderSide(msg)[f]
      /\ side.balance = r.pushAmount /\ side.toSelfDelayBlocks = r.toSelfBlockDelay
  BY <1>1, <1>2, <1>3, <1>4
<1> QED
  BY <1>5 DEF side

(* What open_channel says of a channel that was created. *)
LEMMA OpenMessage ==
  ASSUME NEW r, NEW ch, ch = createChannel(r), NEW open, open = createOpenChannelMessage(ch)
  PROVE  /\ open.fundingAmount = r.fundingAmount /\ open.pushAmount = r.pushAmount
         /\ open.feeRatePerKw = r.feeRatePerKw /\ open.dustLimit = r.dustLimit
         /\ open.toSelfDelay = r.toSelfBlockDelay
         /\ open.fundingPubKey = toPubKey(OurSecrets.funding)
         /\ open.paymentBasePoint = toPubKey(OurSecrets.payment)
         /\ open.delayedPaymentBasePoint = toPubKey(OurSecrets.delayed)
         /\ open.htlcBasePoint = toPubKey(OurSecrets.htlc)
         /\ open.revocationBasePoint = toPubKey(OurSecrets.revocation)
         /\ open.firstPerCommitmentPoint = pointOf(OurSecrets.seed, 0)
<1>1. ch.pushAmount = r.pushAmount
  BY DEF createChannel
<1>2. open = [fundingAmount |-> ch.fundingAmount, pushAmount |-> ch.pushAmount,
     feeRatePerKw |-> ch.feeRatePerKw, dustLimit |-> ch.ourSide.dustLimit,
     maxAcceptedHtlcs |-> ch.ourSide.maxAcceptedHtlc, minHtlcValue |-> ch.ourSide.minHtlcValue,
     maxHtlcValueInFlight |-> ch.ourSide.maxInFlightHtlcValue,
     channelReserve |-> ch.theirSide.channelReserve,
     toSelfDelay |-> ch.theirSide.toSelfDelayBlocks,
     fundingPubKey |-> ch.ourSide.fundingPubKey,
     paymentBasePoint |-> ch.ourSide.paymentBasePoint,
     delayedPaymentBasePoint |-> ch.ourSide.delayedBasePoint,
     htlcBasePoint |-> ch.ourSide.htlcBasePoint,
     revocationBasePoint |-> ch.ourSide.revocationBasePoint,
     firstPerCommitmentPoint |-> ch.ourSide.nextCommitmentPoint]
  BY DEF createOpenChannelMessage
<1>3. ch.fundingAmount = r.fundingAmount /\ ch.feeRatePerKw = r.feeRatePerKw
  BY CreatedChannel
<1>4. /\ ch.ourSide.dustLimit = r.dustLimit
      /\ ch.ourSide.fundingPubKey = toPubKey(OurSecrets.funding)
      /\ ch.ourSide.paymentBasePoint = toPubKey(OurSecrets.payment)
      /\ ch.ourSide.delayedBasePoint = toPubKey(OurSecrets.delayed)
      /\ ch.ourSide.htlcBasePoint = toPubKey(OurSecrets.htlc)
      /\ ch.ourSide.revocationBasePoint = toPubKey(OurSecrets.revocation)
      /\ ch.ourSide.nextCommitmentPoint = pointOf(OurSecrets.seed, 0)
      /\ ch.theirSide.toSelfDelayBlocks = r.toSelfBlockDelay
  BY CreatedSides
<1>5. /\ open.fundingAmount = r.fundingAmount /\ open.pushAmount = r.pushAmount
      /\ open.feeRatePerKw = r.feeRatePerKw /\ open.dustLimit = r.dustLimit
      /\ open.toSelfDelay = r.toSelfBlockDelay
  BY <1>1, <1>2, <1>3, <1>4
<1>6. /\ open.fundingPubKey = toPubKey(OurSecrets.funding)
      /\ open.paymentBasePoint = toPubKey(OurSecrets.payment)
      /\ open.delayedPaymentBasePoint = toPubKey(OurSecrets.delayed)
      /\ open.htlcBasePoint = toPubKey(OurSecrets.htlc)
      /\ open.revocationBasePoint = toPubKey(OurSecrets.revocation)
      /\ open.firstPerCommitmentPoint = pointOf(OurSecrets.seed, 0)
  BY <1>2, <1>4
<1> QED
  BY <1>5, <1>6

(* The two records of a channel when accept_channel has been taken. *)
LEMMA OurRecord ==
  ASSUME NEW r, NEW ch, ch = createChannel(r), NEW msg, NEW funded,
         funded = attachFundingTx(attachAcceptChannel(ch, msg),
                                  createFundingTx(attachAcceptChannel(ch, msg)))
  PROVE  /\ Shaped(funded)
         /\ funded.ourSide.dustLimit = r.dustLimit
         /\ funded.ourSide.balance = subn(r.fundingAmount, r.pushAmount)
         /\ funded.ourSide.toSelfDelayBlocks = msg.toSelfDelay
         /\ funded.ourSide.fundingPubKey = toPubKey(OurSecrets.funding)
         /\ funded.ourSide.paymentBasePoint = toPubKey(OurSecrets.payment)
         /\ funded.ourSide.delayedBasePoint = toPubKey(OurSecrets.delayed)
         /\ funded.ourSide.htlcBasePoint = toPubKey(OurSecrets.htlc)
         /\ funded.ourSide.revocationBasePoint = toPubKey(OurSecrets.revocation)
         /\ funded.ourSide.nextCommitmentNumber = 0
         /\ funded.ourSide.nextCommitmentPoint = pointOf(OurSecrets.seed, 0)
         /\ funded.ourSide.nextCommitmentSig = None /\ funded.ourSide.commitmentSig = None
         /\ \A f \in SenderFields : funded.theirSide[f] = SenderSide(msg)[f]
         /\ funded.theirSide.balance = r.pushAmount
         /\ funded.theirSide.toSelfDelayBlocks = r.toSelfBlockDelay
<1> DEFINE s == ReceiverSide(msg) ++ ch.ourSide
           t == SenderSide(msg) ++ ch.theirSide
<1> HIDE DEF s, t
<1>a. s = ReceiverSide(msg) ++ ch.ourSide /\ t = SenderSide(msg) ++ ch.theirSide
  BY DEF s, t
<1>1. /\ TermFields \cup {"ourSide", "theirSide", "secrets", "fundingTx"} \subseteq DOMAIN funded
      /\ funded.secrets = OurSecrets /\ funded.ourSide = s /\ funded.theirSide = t
  <2>1. /\ TermFields \cup {"ourSide", "theirSide", "secrets", "fundingTx"} \subseteq DOMAIN funded
        /\ funded.secrets = OurSecrets
        /\ funded.ourSide = ReceiverSide(msg) ++ ch.ourSide
        /\ funded.theirSide = SenderSide(msg) ++ ch.theirSide
    BY FundedChannel
  <2> QED
    BY <1>a, <2>1
<1>2. /\ SideFields \subseteq DOMAIN s
      /\ \A f \in SideFields \ {"toSelfDelayBlocks"} : s[f] = ch.ourSide[f]
      /\ s.toSelfDelayBlocks = msg.toSelfDelay
  BY OurSideAccepted DEF s
<1>3. /\ SideFields \subseteq DOMAIN t
      /\ \A f \in SenderFields : t[f] = SenderSide(msg)[f]
      /\ t.balance = r.pushAmount /\ t.toSelfDelayBlocks = r.toSelfBlockDelay
  BY TheirSideAccepted DEF t
<1>4. "seed" \in DOMAIN OurSecrets
  BY DEF OurSecrets, Secrets
<1>5. Shaped(funded)
  BY <1>1, <1>2, <1>3, <1>4 DEF Shaped
<1>6. /\ s.dustLimit = ch.ourSide.dustLimit /\ s.balance = ch.ourSide.balance
      /\ s.fundingPubKey = ch.ourSide.fundingPubKey
      /\ s.paymentBasePoint = ch.ourSide.paymentBasePoint
      /\ s.delayedBasePoint = ch.ourSide.delayedBasePoint
      /\ s.htlcBasePoint = ch.ourSide.htlcBasePoint
      /\ s.revocationBasePoint = ch.ourSide.revocationBasePoint
  BY <1>2 DEF SideFields
<1>7. /\ s.nextCommitmentNumber = ch.ourSide.nextCommitmentNumber
      /\ s.nextCommitmentPoint = ch.ourSide.nextCommitmentPoint
      /\ s.nextCommitmentSig = ch.ourSide.nextCommitmentSig
      /\ s.commitmentSig = ch.ourSide.commitmentSig
  BY <1>2 DEF SideFields
<1>8. /\ ch.ourSide.dustLimit = r.dustLimit
      /\ ch.ourSide.balance = subn(r.fundingAmount, r.pushAmount)
      /\ ch.ourSide.fundingPubKey = toPubKey(OurSecrets.funding)
      /\ ch.ourSide.paymentBasePoint = toPubKey(OurSecrets.payment)
      /\ ch.ourSide.delayedBasePoint = toPubKey(OurSecrets.delayed)
      /\ ch.ourSide.htlcBasePoint = toPubKey(OurSecrets.htlc)
      /\ ch.ourSide.revocationBasePoint = toPubKey(OurSecrets.revocation)
  BY CreatedSides
<1>9. /\ ch.ourSide.nextCommitmentNumber = 0
      /\ ch.ourSide.nextCommitmentPoint = pointOf(OurSecrets.seed, 0)
      /\ ch.ourSide.nextCommitmentSig = None /\ ch.ourSide.commitmentSig = None
  BY CreatedSides
<1>10. /\ s.dustLimit = r.dustLimit
       /\ s.balance = subn(r.fundingAmount, r.pushAmount)
       /\ s.fundingPubKey = toPubKey(OurSecrets.funding)
       /\ s.paymentBasePoint = toPubKey(OurSecrets.payment)
       /\ s.delayedBasePoint = toPubKey(OurSecrets.delayed)
       /\ s.htlcBasePoint = toPubKey(OurSecrets.htlc)
       /\ s.revocationBasePoint = toPubKey(OurSecrets.revocation)
       /\ s.nextCommitmentNumber = 0
       /\ s.nextCommitmentPoint = pointOf(OurSecrets.seed, 0)
       /\ s.nextCommitmentSig = None /\ s.commitmentSig = None
  BY <1>6, <1>7, <1>8, <1>9, Zenon
<1> QED
  BY <1>1, <1>2, <1>3, <1>5, <1>10, Zenon

LEMMA TheirRecord ==
  ASSUME NEW open, NEW msg, NEW funded
  PROVE  LET other == PeerChannel(funded, open, msg)
         IN /\ Shaped(other)
            /\ other.fundingAmount = open.fundingAmount /\ other.feeRatePerKw = open.feeRatePerKw
            /\ other.fundingScript = funded.fundingScript
            /\ other.fundingOutPoint = funded.fundingOutPoint
<1> DEFINE amount == subn(open.fundingAmount, open.pushAmount)
           s == [balance |-> open.pushAmount] ++ SenderSide(msg) ++ ReceiverSide(open)
           t == [balance |-> amount] ++ SenderSide(open) ++ ReceiverSide(msg)
           other == PeerChannel(funded, open, msg)
<1>1. other = [funder |-> FALSE, fundingAmount |-> open.fundingAmount,
               feeRatePerKw |-> open.feeRatePerKw, secrets |-> PeerSecrets,
               fundingScript |-> funded.fundingScript,
               fundingOutPoint |-> funded.fundingOutPoint, ourSide |-> s, theirSide |-> t]
  BY Zenon DEF PeerChannel
<1> HIDE DEF amount, other
<1>2. SideFields \subseteq DOMAIN s /\ SideFields \subseteq DOMAIN t
  BY PeerSide
<1>3. "seed" \in DOMAIN PeerSecrets
  BY DEF PeerSecrets, Secrets
<1> HIDE DEF s, t
<1>4. /\ other.ourSide = s /\ other.theirSide = t /\ other.secrets = PeerSecrets
      /\ other.fundingAmount = open.fundingAmount
      /\ other.feeRatePerKw = open.feeRatePerKw /\ other.fundingScript = funded.fundingScript
      /\ other.fundingOutPoint = funded.fundingOutPoint
      /\ TermFields \cup {"ourSide", "theirSide", "secrets"} \subseteq DOMAIN other
  BY <1>1 DEF TermFields
<1>5. Shaped(other)
  BY <1>2, <1>3, <1>4 DEF Shaped
<1> QED
  BY <1>4, <1>5 DEF other

LEMMA TheyAreFunded ==
  ASSUME NEW open, NEW msg, NEW funded
  PROVE  PeerChannel(funded, open, msg).funder = FALSE
BY DEF PeerChannel

LEMMA TheirSides ==
  ASSUME NEW open, NEW msg, NEW funded
  PROVE  LET other == PeerChannel(funded, open, msg)
         IN /\ \A f \in SenderFields : other.ourSide[f] = SenderSide(msg)[f]
            /\ other.ourSide.balance = open.pushAmount
            /\ other.ourSide.toSelfDelayBlocks = open.toSelfDelay
            /\ \A f \in SenderFields : other.theirSide[f] = SenderSide(open)[f]
            /\ other.theirSide.balance = subn(open.fundingAmount, open.pushAmount)
            /\ other.theirSide.toSelfDelayBlocks = msg.toSelfDelay
<1> DEFINE amount == subn(open.fundingAmount, open.pushAmount)
           s == [balance |-> open.pushAmount] ++ SenderSide(msg) ++ ReceiverSide(open)
           t == [balance |-> amount] ++ SenderSide(open) ++ ReceiverSide(msg)
           other == PeerChannel(funded, open, msg)
<1>1. other.ourSide = s /\ other.theirSide = t
  <2> HIDE DEF s, t
  <2>1. other = [funder |-> FALSE, fundingAmount |-> open.fundingAmount,
                 feeRatePerKw |-> open.feeRatePerKw, secrets |-> PeerSecrets,
                 fundingScript |-> funded.fundingScript,
                 fundingOutPoint |-> funded.fundingOutPoint, ourSide |-> s, theirSide |-> t]
    BY Zenon DEF PeerChannel, s, t
  <2> HIDE DEF other
  <2> QED
    BY <2>1
<1> HIDE DEF amount, other
<1>2. /\ \A f \in SenderFields : s[f] = SenderSide(msg)[f]
      /\ s.balance = open.pushAmount /\ s.toSelfDelayBlocks = open.toSelfDelay
  BY PeerSide
<1>3. /\ \A f \in SenderFields : t[f] = SenderSide(open)[f]
      /\ t.balance = amount /\ t.toSelfDelayBlocks = msg.toSelfDelay
  BY PeerSide
<1> HIDE DEF s, t
<1> QED
  BY <1>1, <1>2, <1>3 DEF other, amount

(* When accept_channel has been taken the two records are of one channel,  *)
(* and the first commitment of either side is its next one.                *)
LEMMA Paired ==
  ASSUME NEW r, NEW ch, ch = createChannel(r), NEW msg, NEW funded,
         funded = attachFundingTx(attachAcceptChannel(ch, msg),
                                  createFundingTx(attachAcceptChannel(ch, msg))),
         NEW open, open = createOpenChannelMessage(ch),
         NEW other, other = PeerChannel(funded, open, msg)
  PROVE  /\ Twin(funded.ourSide, other.theirSide) /\ Twin(other.ourSide, funded.theirSide)
         /\ SameNumber(funded.ourSide, other.theirSide)
         /\ SamePoint(funded.ourSide, other.theirSide)
         /\ SameNumber(other.ourSide, funded.theirSide)
         /\ SamePoint(other.ourSide, funded.theirSide)
         /\ other.ourSide.nextCommitmentSig = None /\ other.ourSide.commitmentSig = None
         /\ funded.theirSide.nextCommitmentNumber = 0
         /\ funded.theirSide.nextCommitmentPoint = msg.firstPerCommitmentPoint
         /\ funded.theirSide.dustLimit = msg.dustLimit
         /\ other.theirSide.fundingPubKey = toPubKey(OurSecrets.funding)
<1> DEFINE s == funded.ourSide
           t == funded.theirSide
           u == other.ourSide
           v == other.theirSide
<1>1. /\ s.dustLimit = r.dustLimit
      /\ s.balance = subn(r.fundingAmount, r.pushAmount)
      /\ s.toSelfDelayBlocks = msg.toSelfDelay
      /\ s.fundingPubKey = toPubKey(OurSecrets.funding)
      /\ s.paymentBasePoint = toPubKey(OurSecrets.payment)
      /\ s.delayedBasePoint = toPubKey(OurSecrets.delayed)
      /\ s.htlcBasePoint = toPubKey(OurSecrets.htlc)
      /\ s.revocationBasePoint = toPubKey(OurSecrets.revocation)
      /\ s.nextCommitmentNumber = 0
      /\ s.nextCommitmentPoint = pointOf(OurSecrets.seed, 0)
  BY OurRecord
<1>2. /\ \A f \in SenderFields : t[f] = SenderSide(msg)[f]
      /\ t.balance = r.pushAmount /\ t.toSelfDelayBlocks = r.toSelfBlockDelay
  BY OurRecord
<1>3. /\ \A f \in SenderFields : u[f] = SenderSide(msg)[f]
      /\ u.balance = open.pushAmount /\ u.toSelfDelayBlocks = open.toSelfDelay
  <2> DEFINE o == PeerChannel(funded, open, msg)
  <2>1. /\ \A f \in SenderFields : o.ourSide[f] = SenderSide(msg)[f]
        /\ o.ourSide.balance = open.pushAmount
        /\ o.ourSide.toSelfDelayBlocks = open.toSelfDelay
    BY TheirSides
  <2> QED
    BY <2>1, Zenon
<1>4. /\ \A f \in SenderFields : v[f] = SenderSide(open)[f]
      /\ v.balance = subn(open.fundingAmount, open.pushAmount)
      /\ v.toSelfDelayBlocks = msg.toSelfDelay
  <2> DEFINE o == PeerChannel(funded, open, msg)
  <2>1. /\ \A f \in SenderFields : o.theirSide[f] = SenderSide(open)[f]
        /\ o.theirSide.balance = subn(open.fundingAmount, open.pushAmount)
        /\ o.theirSide.toSelfDelayBlocks = msg.toSelfDelay
    BY TheirSides
  <2> QED
    BY <2>1, Zenon
<1>5. /\ open.fundingAmount = r.fundingAmount /\ open.pushAmount = r.pushAmount
      /\ open.dustLimit = r.dustLimit /\ open.toSelfDelay = r.toSelfBlockDelay
      /\ open.fundingPubKey = toPubKey(OurSecrets.funding)
      /\ open.paymentBasePoint = toPubKey(OurSecrets.payment)
      /\ open.delayedPaymentBasePoint = toPubKey(OurSecrets.delayed)
      /\ open.htlcBasePoint = toPubKey(OurSecrets.htlc)
      /\ open.revocationBasePoint = toPubKey(OurSecrets.revocation)
      /\ open.firstPerCommitmentPoint = pointOf(OurSecrets.seed, 0)
  BY OpenMessage
<1> HIDE DEF s, t, u, v
<1> DEFINE w == SenderSide(open)
           x == SenderSide(msg)
<1>6. /\ w.dustLimit = open.dustLimit /\ w.fundingPubKey = open.fundingPubKey
      /\ w.paymentBasePoint = open.paymentBasePoint
      /\ w.delayedBasePoint = open.delayedPaymentBasePoint
      /\ w.htlcBasePoint = open.htlcBasePoint
      /\ w.revocationBasePoint = open.revocationBasePoint
      /\ w.nextCommitmentNumber = 0
      /\ w.nextCommitmentPoint = open.firstPerCommitmentPoint
  BY SenderSideFields
<1>7. /\ x.nextCommitmentNumber = 0 /\ x.nextCommitmentPoint = msg.firstPerCommitmentPoint
      /\ x.nextCommitmentSig = None /\ x.commitmentSig = None /\ x.dustLimit = msg.dustLimit
  BY SenderSideFields
<1> HIDE DEF w, x
<1>8. /\ v.dustLimit = w.dustLimit /\ v.fundingPubKey = w.fundingPubKey
      /\ v.paymentBasePoint = w.paymentBasePoint
      /\ v.delayedBasePoint = w.delayedBasePoint
      /\ v.htlcBasePoint = w.htlcBasePoint
      /\ v.revocationBasePoint = w.revocationBasePoint
      /\ v.nextCommitmentNumber = w.nextCommitmentNumber
      /\ v.nextCommitmentPoint = w.nextCommitmentPoint
  BY <1>4 DEF SenderFields, w
<1>9. /\ t.dustLimit = x.dustLimit /\ t.fundingPubKey = x.fundingPubKey
      /\ t.paymentBasePoint = x.paymentBasePoint
      /\ t.delayedBasePoint = x.delayedBasePoint
      /\ t.htlcBasePoint = x.htlcBasePoint
      /\ t.revocationBasePoint = x.revocationBasePoint
      /\ t.nextCommitmentNumber = x.nextCommitmentNumber
      /\ t.nextCommitmentPoint = x.nextCommitmentPoint
  BY <1>2 DEF SenderFields, x
<1>10. /\ u.dustLimit = x.dustLimit /\ u.fundingPubKey = x.fundingPubKey
       /\ u.paymentBasePoint = x.paymentBasePoint
       /\ u.delayedBasePoint = x.delayedBasePoint
       /\ u.htlcBasePoint = x.htlcBasePoint
       /\ u.revocationBasePoint = x.revocationBasePoint
       /\ u.nextCommitmentNumber = x.nextCommitmentNumber
       /\ u.nextCommitmentPoint = x.nextCommitmentPoint
       /\ u.nextCommitmentSig = x.nextCommitmentSig /\ u.commitmentSig = x.commitmentSig
  BY <1>3 DEF SenderFields, x
<1>11. Twin(s, v) /\ SameNumber(s, v) /\ SamePoint(s, v)
  BY <1>1, <1>4, <1>5, <1>6, <1>8, Zenon DEF Twin, SameNumber, SamePoint
<1>12. Twin(u, t) /\ SameNumber(u, t) /\ SamePoint(u, t)
  BY <1>2, <1>3, <1>5, <1>9, <1>10, Zenon DEF Twin, SameNumber, SamePoint
<1>13. /\ u.nextCommitmentSig = None /\ u.commitmentSig = None
       /\ t.nextCommitmentNumber = 0 /\ t.nextCommitmentPoint = msg.firstPerCommitmentPoint
       /\ t.dustLimit = msg.dustLimit /\ v.fundingPubKey = toPubKey(OurSecrets.funding)
  BY <1>5, <1>6, <1>7, <1>8, <1>9, <1>10, Zenon
<1> QED
  BY <1>11, <1>12, <1>13, Zenon DEF s, t, u, v

(* The points are points, and no object without one. *)
LEMMA PointIsSome == ASSUME NEW k PROVE Point(k) # None
<1>1. "dlog" \in DOMAIN Point(k) /\ "dlog" \notin DOMAIN None
  BY DEF Point, None
<1> QED
  BY <1>1

LEMMA SigIsSome ==
  ASSUME NEW ch, NEW tx, NEW secret
  PROVE  Sign(ch, tx, secret) # None
<1>1. "tx" \in DOMAIN Sign(ch, tx, secret) /\ "tx" \notin DOMAIN None
  BY DEF Sign, None
<1> QED
  BY <1>1

(* The secret of an answer that passed the checks is the first one. *)
LEMMA FirstPoint ==
  ASSUME NEW a \in Accepts, isValid(AcceptMessage(a).firstPerCommitmentPoint)
  PROVE  AcceptMessage(a).firstPerCommitmentPoint = toPubKey(secretOf(PeerSecrets.seed, 0))
<1> DEFINE msg == AcceptMessage(a)
           first == secretOf(PeerSecrets.seed, 0)
<1>1. "firstPerCommitmentPoint" \notin DOMAIN a
  BY LedgerAssumption
<1>2. msg.firstPerCommitmentPoint
        = Point(IF a.badKey = "firstPerCommitmentPoint" THEN Undefined ELSE first)
  BY <1>1 DEF AcceptMessage, ++
<1>3. Point(Undefined).dlog = Undefined
  BY DEF Point
<1> HIDE DEF msg, first
<1>4. a.badKey # "firstPerCommitmentPoint"
  BY <1>2, <1>3 DEF isValid, msg
<1> QED
  BY <1>2, <1>4, Zenon DEF toPubKey, msg, first

(* The invariant holds of the first state, and a failure keeps it. *)
LEMMA InitInv == Init => IInv
<1> SUFFICES ASSUME Init PROVE IInv
  OBVIOUS
<1>1. ~Opened /\ htlcs = << >> /\ readyPoint = None /\ built = << >> /\ phase = "idle"
  BY DEF Init, Opened
<1>2. << >> \in Seq(Htlcs)
  OBVIOUS
<1>3. PhaseInv
  BY <1>1, <1>2 DEF PhaseInv
<1> QED
  BY <1>1, <1>3 DEF IInv, AgreeInv, SigInv, TermsInv, KeysInv

LEMMA FailStep ==
  ASSUME IInv, NEW error, error \notin Progress, Fail(error)
  PROVE  IInv'
<1> USE DEF Opened
<1>1. /\ phase' = error /\ channel' = channel /\ peer' = peer /\ htlcs' = htlcs
      /\ readyPoint' = readyPoint /\ given' = given /\ built' = built /\ store' = store
      /\ revoked' = revoked
  BY DEF Fail
<1>2. PhaseInv'
  BY <1>1 DEF IInv, PhaseInv, Progress
<1>3. AgreeInv'
  BY <1>1 DEF IInv, AgreeInv
<1>4. SigInv'
  BY <1>1 DEF IInv, SigInv
<1>5. TermsInv'
  BY <1>1 DEF IInv, TermsInv
<1>6. KeysInv'
  BY <1>1 DEF IInv, KeysInv
<1> QED
  BY <1>2, <1>3, <1>4, <1>5, <1>6 DEF IInv

LEMMA StutterStep == ASSUME IInv, UNCHANGED vars PROVE IInv'
<1> USE DEF Opened
<1>1. /\ phase' = phase /\ channel' = channel /\ peer' = peer /\ htlcs' = htlcs
      /\ readyPoint' = readyPoint /\ given' = given /\ built' = built
  BY DEF vars
<1>2. PhaseInv'
  BY <1>1 DEF IInv, PhaseInv
<1>3. AgreeInv'
  BY <1>1 DEF IInv, AgreeInv
<1>4. SigInv'
  BY <1>1 DEF IInv, SigInv
<1>5. TermsInv'
  BY <1>1 DEF IInv, TermsInv
<1>6. KeysInv'
  BY <1>1 DEF IInv, KeysInv
<1> QED
  BY <1>2, <1>3, <1>4, <1>5, <1>6 DEF IInv

LEMMA OpenStep == ASSUME IInv, NEW r \in Requests, OpenChannel(r) PROVE IInv'
<1>1. CASE requestError(r) # NoError /\ Fail(requestError(r))
  BY <1>1, RequestChecked, FailStep
<1>2. CASE /\ requestError(r) = NoError
           /\ phase' = "open_channel" /\ channel' = createChannel(r)
           /\ UNCHANGED <<peer, htlcs, readyPoint, given, built, store, revoked>>
  <2>1. phase = "idle"
    BY DEF OpenChannel
  <2>2. ~Opened' /\ htlcs' = << >> /\ readyPoint' = None /\ built' = << >>
    BY <1>2, <2>1 DEF IInv, PhaseInv, Opened
  <2>3. << >> \in Seq(Htlcs)
    OBVIOUS
  <2>4. PhaseInv'
    BY <1>2, <2>2, <2>3 DEF PhaseInv
  <2> QED
    BY <2>2, <2>4 DEF IInv, AgreeInv, SigInv, TermsInv, KeysInv
<1> QED
  BY <1>1, <1>2 DEF OpenChannel

(* What acceptError has checked, of the message of an answer. *)
LEMMA AcceptChecked ==
  ASSUME NEW r \in Requests, NEW a \in Accepts, NEW ch, ch = createChannel(r),
         NEW msg, msg = AcceptMessage(a),
         acceptError(ch, msg, [k \in MessageKeys |-> isValid(msg[k])]) = NoError
  PROVE  /\ lte(a.dustLimit, r.channelReserveValue)
         /\ isValid(msg.firstPerCommitmentPoint)
         /\ msg.firstPerCommitmentPoint = toPubKey(secretOf(PeerSecrets.seed, 0))
<1> DEFINE valid == [k \in MessageKeys |-> isValid(msg[k])]
<1>1. /\ validateChannelReserveDustLimit(ch.theirSide.channelReserve, ch.ourSide.dustLimit,
                                         msg.channelReserve, msg.dustLimit)
      /\ valid.firstPerCommitmentPoint
  <2> HIDE DEF valid
  <2>1. acceptError(ch, msg, valid) = NoError
    BY DEF valid
  <2> QED
    BY <2>1, AnswerChecked
<1>2. "firstPerCommitmentPoint" \in MessageKeys
  BY DEF MessageKeys
<1>3. isValid(AcceptMessage(a).firstPerCommitmentPoint)
  BY <1>1, <1>2
<1>4. lte(msg.dustLimit, ch.theirSide.channelReserve)
  BY <1>1 DEF validateChannelReserveDustLimit
<1>5. msg.dustLimit = a.dustLimit
  BY AcceptedMessage
<1>6. ch.theirSide.channelReserve = r.channelReserveValue
  BY CreatedSides
<1> QED
  BY <1>3, <1>4, <1>5, <1>6, FirstPoint

LEMMA AcceptStep == ASSUME IInv, NEW a \in Accepts, AcceptChannel(a) PROVE IInv'
<1>1. PICK msg : msg = AcceptMessage(a)
  OBVIOUS
<1>2. PICK error : error = acceptError(channel, msg, [k \in MessageKeys |-> isValid(msg[k])])
  OBVIOUS
<1>3. PICK r \in Requests : requestError(r) = NoError /\ channel = createChannel(r)
  BY DEF IInv, PhaseInv, AcceptChannel
<1>4. PICK ch : ch = channel
  OBVIOUS
<1>5. PICK funded : funded = attachFundingTx(attachAcceptChannel(ch, msg),
                                             createFundingTx(attachAcceptChannel(ch, msg)))
  OBVIOUS
<1>6. PICK open : open = createOpenChannelMessage(ch)
  OBVIOUS
<1>7. PICK other : other = PeerChannel(funded, open, msg)
  OBVIOUS
<1>8. PICK sig : sig = signCommitmentTx(funded, createRemoteCommitmentTx(funded))
  OBVIOUS
<1>9. CASE error # NoError /\ Fail(error)
  BY <1>2, <1>9, AnswerChecked, FailStep
<1>10. CASE /\ error = NoError
            /\ phase' = "funding_created" /\ channel' = funded
            /\ peer' = attachFundingSigned(other, sig)
            /\ given' = <<secretOf(PeerSecrets.seed, 0)>>
            /\ UNCHANGED <<htlcs, readyPoint, built, store, revoked>>
  <2>1. phase = "open_channel" /\ ~Opened
    BY DEF IInv, PhaseInv, AcceptChannel
  <2>2. htlcs' = << >> /\ readyPoint' = None /\ built' = << >>
    BY <2>1, <1>10 DEF IInv, PhaseInv
  <2>3. ch = createChannel(r)
    BY <1>3, <1>4
  <2>4. /\ Shaped(funded) /\ Shaped(other)
        /\ funded.funder = TRUE /\ other.funder = FALSE
    <3>1. Shaped(funded)
      BY <2>3, <1>5, OurRecord
    <3>2. funded.funder = TRUE
      BY <2>3, <1>5, FundedChannel
    <3>3. Shaped(PeerChannel(funded, open, msg))
      BY TheirRecord
    <3>4. PeerChannel(funded, open, msg).funder = FALSE
      BY TheyAreFunded
    <3> QED
      BY <1>7, <3>1, <3>2, <3>3, <3>4
  <2>5. /\ other.fundingAmount = funded.fundingAmount
        /\ other.feeRatePerKw = funded.feeRatePerKw
        /\ other.fundingScript = funded.fundingScript
        /\ other.fundingOutPoint = funded.fundingOutPoint
        /\ funded.feeRatePerKw = r.feeRatePerKw /\ funded.secrets = OurSecrets
    <3>1. /\ funded.fundingAmount = r.fundingAmount /\ funded.feeRatePerKw = r.feeRatePerKw
          /\ funded.secrets = OurSecrets
      BY <2>3, <1>5, FundedChannel
    <3>2. /\ PeerChannel(funded, open, msg).fundingAmount = open.fundingAmount
          /\ PeerChannel(funded, open, msg).feeRatePerKw = open.feeRatePerKw
          /\ PeerChannel(funded, open, msg).fundingScript = funded.fundingScript
          /\ PeerChannel(funded, open, msg).fundingOutPoint = funded.fundingOutPoint
      BY TheirRecord
    <3>3. open.fundingAmount = r.fundingAmount /\ open.feeRatePerKw = r.feeRatePerKw
      BY <2>3, <1>6, OpenMessage
    <3> QED
      BY <1>7, <3>1, <3>2, <3>3
  <2>6. /\ Twin(funded.ourSide, other.theirSide) /\ Twin(other.ourSide, funded.theirSide)
        /\ SameNumber(funded.ourSide, other.theirSide)
        /\ SamePoint(funded.ourSide, other.theirSide)
        /\ SameNumber(other.ourSide, funded.theirSide)
        /\ SamePoint(other.ourSide, funded.theirSide)
    BY <2>3, <1>5, <1>6, <1>7, Paired
  <2>7. /\ other.ourSide.nextCommitmentSig = None /\ other.ourSide.commitmentSig = None
        /\ funded.theirSide.nextCommitmentNumber = 0
        /\ funded.theirSide.nextCommitmentPoint = msg.firstPerCommitmentPoint
        /\ funded.theirSide.dustLimit = msg.dustLimit
        /\ other.theirSide.fundingPubKey = toPubKey(OurSecrets.funding)
    BY <2>3, <1>5, <1>6, <1>7, Paired
  <2>8. /\ funded.ourSide.dustLimit = r.dustLimit
        /\ funded.ourSide.balance = subn(r.fundingAmount, r.pushAmount)
        /\ funded.ourSide.revocationBasePoint = toPubKey(OurSecrets.revocation)
        /\ funded.ourSide.nextCommitmentNumber = 0
        /\ funded.ourSide.nextCommitmentPoint = pointOf(OurSecrets.seed, 0)
        /\ funded.ourSide.nextCommitmentSig = None /\ funded.ourSide.commitmentSig = None
        /\ funded.theirSide.balance = r.pushAmount
    BY <2>3, <1>5, OurRecord
  <2>9. /\ Shaped(peer') /\ SameTerms(peer', other) /\ peer'.theirSide = other.theirSide
        /\ \A f \in SideFields \ {"nextCommitmentSig"} : peer'.ourSide[f] = other.ourSide[f]
    BY <1>10, <2>4, FundingSignedAttached
  <2>10. peer' # None
    <3>1. "ourSide" \in DOMAIN peer' /\ "ourSide" \notin DOMAIN None
      BY <2>9 DEF Shaped, None
    <3> QED
      BY <3>1
  <2>11. PhaseInv'
    <3>1. << >> \in Seq(Htlcs)
      OBVIOUS
    <3> QED
      BY <1>10, <2>2, <2>10, <3>1 DEF PhaseInv, Opened
  <2>12. AgreeInv'
    <3>1. /\ peer'.funder = other.funder /\ peer'.fundingAmount = other.fundingAmount
          /\ peer'.feeRatePerKw = other.feeRatePerKw
          /\ peer'.fundingScript = other.fundingScript
          /\ peer'.fundingOutPoint = other.fundingOutPoint
          /\ Twin(peer'.ourSide, other.ourSide)
      BY <2>9 DEF SameTerms, TermFields
    <3>2. Twin(peer'.ourSide, funded.theirSide)
      BY <2>6, <3>1, TwinTwin
    <3>3. /\ peer'.ourSide.nextCommitmentNumber = other.ourSide.nextCommitmentNumber
          /\ peer'.ourSide.nextCommitmentPoint = other.ourSide.nextCommitmentPoint
      BY <2>9 DEF SideFields
    <3>4. /\ SameNumber(peer'.ourSide, funded.theirSide)
          /\ SamePoint(peer'.ourSide, funded.theirSide)
      BY <2>6, <3>3 DEF SameNumber, SamePoint
    <3>5. funded.ourSide.nextCommitmentPoint # None /\ 0 \in Nat
      BY <2>8, PointIsSome DEF pointOf, toPubKey
    <3> QED
      BY <1>10, <2>4, <2>5, <2>6, <2>8, <2>9, <3>1, <3>2, <3>4, <3>5
         DEF AgreeInv, OneChannel
  <2>13. SigInv'
    <3>1. SigsHold(funded) /\ SigsHold(other)
      BY <2>7, <2>8 DEF SigsHold
    <3>2. createRemoteCommitmentTx(funded) = createLocalCommitmentTx(other)
      <4>1. /\ (funded.funder = TRUE /\ other.funder = FALSE)
               \/ (funded.funder = FALSE /\ other.funder = TRUE)
            /\ funded.fundingOutPoint = other.fundingOutPoint
            /\ funded.feeRatePerKw = other.feeRatePerKw
        BY <2>4, <2>5
      <4> QED
        BY <2>6, <4>1, TheirsSeenByUs
    <3>3. sig = Sign(funded, createLocalCommitmentTx(other), OurSecrets.funding)
      BY <1>8, <2>5, <3>2 DEF signCommitmentTx
    <3>4. validateCommitmentSig(other, createLocalCommitmentTx(other), sig,
                                other.theirSide.fundingPubKey)
      <4>1. sig # None
        BY <3>3, SigIsSome
      <4>2. sig = [tx |-> createLocalCommitmentTx(other), script |-> funded.fundingScript,
                   amount |-> funded.fundingAmount, key |-> toPubKey(OurSecrets.funding)]
        BY <3>3, Zenon DEF Sign
      <4> QED
        BY <2>5, <2>7, <4>1, <4>2, Zenon DEF validateCommitmentSig
    <3>5. SigsHold(attachFundingSigned(other, sig))
      BY <2>4, <3>1, <3>4, SigsAttached
    <3> QED
      BY <1>10, <3>1, <3>5 DEF SigInv
  <2>14. TermsInv'
    <3>1. /\ SignsFor(funded, funded.fundingTx.outputs[1])
          /\ "fundingTx" \in DOMAIN funded
      BY <2>3, <1>5, FundedChannel
    <3>2. lte(a.dustLimit, r.channelReserveValue)
      BY <2>3, <1>1, <1>2, <1>4, <1>10, AcceptChecked
    <3>3. msg.dustLimit = a.dustLimit
      BY <1>1, AcceptedMessage
    <3> QED
      BY <1>3, <1>10, <2>5, <2>7, <2>8, <3>1, <3>2, <3>3 DEF TermsInv
  <2>15. KeysInv'
    <3>1. msg.firstPerCommitmentPoint = toPubKey(secretOf(PeerSecrets.seed, 0))
      BY <2>3, <1>1, <1>2, <1>4, <1>10, AcceptChecked
    <3>2. secretOf(PeerSecrets.seed, 0) \in SecretsGiven
      BY DEF SecretsGiven, PeerSeeds
    <3> DEFINE first == secretOf(PeerSecrets.seed, 0)
    <3> HIDE DEF first
    <3>3. /\ <<first>> \in Seq(SecretsGiven) /\ Len(<<first>>) = 1 /\ <<first>>[1] = first
          /\ << >> \in Seq({RevocationKey(s) : s \in SecretsGiven}) /\ Len(<< >>) = 0
      BY <3>2 DEF first
    <3>4. given' = <<first>> /\ built' = << >>
      BY <1>10, <2>2 DEF first
    <3> QED
      BY <1>10, <2>7, <2>8, <3>1, <3>3, <3>4 DEF KeysInv, first
  <2> QED
    BY <2>11, <2>12, <2>13, <2>14, <2>15 DEF IInv
<1> QED
  BY <1>1, <1>2, <1>4, <1>5, <1>6, <1>7, <1>8, <1>9, <1>10 DEF AcceptChannel

(* While the terms stay the records stay records of one channel. *)
LEMMA OneChannelKept ==
  ASSUME NEW ch, NEW seen, OneChannel(ch, seen),
         NEW da, SameTerms(da, ch), NEW saw, SameTerms(saw, seen)
  PROVE  OneChannel(da, saw)
<1>1. /\ da.funder = ch.funder /\ da.fundingAmount = ch.fundingAmount
      /\ da.feeRatePerKw = ch.feeRatePerKw /\ da.fundingScript = ch.fundingScript
      /\ da.fundingOutPoint = ch.fundingOutPoint
  BY DEF SameTerms, TermFields
<1>2. /\ saw.funder = seen.funder /\ saw.fundingAmount = seen.fundingAmount
      /\ saw.feeRatePerKw = seen.feeRatePerKw /\ saw.fundingScript = seen.fundingScript
      /\ saw.fundingOutPoint = seen.fundingOutPoint
  BY DEF SameTerms, TermFields
<1>3. Twin(da.ourSide, saw.theirSide) /\ Twin(saw.ourSide, da.theirSide)
  BY DEF OneChannel, SameTerms, Twin
<1> QED
  BY <1>1, <1>2, <1>3 DEF OneChannel

LEMMA TermsSelf == ASSUME NEW ch PROVE SameTerms(ch, ch)
BY DEF SameTerms, Twin

(* No step after accept_channel but AddHtlc touches the terms. *)
LEMMA TermsKept ==
  ASSUME IInv, Opened, Opened', SameTerms(channel', channel), htlcs' = htlcs,
         "fundingTx" \in DOMAIN channel', channel'.fundingTx = channel.fundingTx
  PROVE  TermsInv'
<1>1. /\ channel'.fundingAmount = channel.fundingAmount
      /\ channel'.fundingScript = channel.fundingScript
      /\ channel'.feeRatePerKw = channel.feeRatePerKw
  BY DEF SameTerms, TermFields
<1>2. /\ channel'.ourSide.balance = channel.ourSide.balance
      /\ channel'.theirSide.balance = channel.theirSide.balance
      /\ channel'.ourSide.dustLimit = channel.ourSide.dustLimit
      /\ channel'.theirSide.dustLimit = channel.theirSide.dustLimit
  BY DEF SameTerms, Twin
<1> QED
  BY <1>1, <1>2 DEF IInv, TermsInv, SignsFor

LEMMA OpenedPeer == ASSUME NEW p, Shaped(p) PROVE p # None
<1>1. "ourSide" \in DOMAIN p /\ "ourSide" \notin DOMAIN None
  BY DEF Shaped, None
<1> QED
  BY <1>1

LEMMA FundingSignedStep == ASSUME IInv, FundingSigned PROVE IInv'
<1>1. Opened
  BY DEF IInv, PhaseInv, FundingSigned
<1>2. PICK sig :
        \/ /\ validateFundingSignedMessage(channel, sig)
           /\ phase' = "funding_signed"
           /\ channel' = attachFundingSigned(channel, sig)
           /\ UNCHANGED <<peer, htlcs, readyPoint, given, built, store, revoked>>
        \/ Fail("InvalidCommitmentSig")
  BY DEF FundingSigned
<1>3. CASE Fail("InvalidCommitmentSig")
  BY <1>3, FailStep DEF Progress
<1>4. CASE /\ validateFundingSignedMessage(channel, sig)
           /\ phase' = "funding_signed"
           /\ channel' = attachFundingSigned(channel, sig)
           /\ UNCHANGED <<peer, htlcs, readyPoint, given, built, store, revoked>>
  <2>1. PICK ch : ch = channel
    OBVIOUS
  <2>2. PICK moved : moved = attachFundingSigned(ch, sig)
    OBVIOUS
  <2>3. Shaped(ch) /\ Shaped(peer) /\ OneChannel(ch, peer)
    BY <1>1, <2>1 DEF IInv, AgreeInv
  <2>4. /\ Shaped(moved) /\ SameTerms(moved, ch) /\ moved.theirSide = ch.theirSide
        /\ \A f \in SideFields \ {"nextCommitmentSig"} : moved.ourSide[f] = ch.ourSide[f]
        /\ \A f \in DOMAIN ch \ {"ourSide"} : f \in DOMAIN moved /\ moved[f] = ch[f]
    BY <2>2, <2>3, FundingSignedAttached
  <2>5. /\ moved.ourSide.nextCommitmentNumber = ch.ourSide.nextCommitmentNumber
        /\ moved.ourSide.nextCommitmentPoint = ch.ourSide.nextCommitmentPoint
        /\ moved.ourSide.revocationBasePoint = ch.ourSide.revocationBasePoint
    BY <2>4 DEF SideFields
  <2>6. channel' = moved /\ peer' = peer /\ htlcs' = htlcs /\ readyPoint' = readyPoint
        /\ given' = given /\ built' = built /\ Opened'
    BY <1>1, <1>4, <2>1, <2>2 DEF Opened
  <2>7. PhaseInv'
    BY <1>1, <1>4, <2>6 DEF IInv, PhaseInv
  <2>8. AgreeInv'
    <3>1. OneChannel(moved, peer)
      BY <2>3, <2>4, OneChannelKept, TermsSelf
    <3> QED
      BY <1>1, <2>1, <2>3, <2>4, <2>5, <2>6, <3>1 DEF IInv, AgreeInv, SameNumber, SamePoint
  <2>9. SigInv'
    <3>1. CASE htlcs = << >>
      <4>1. SigsHold(ch) /\ SigsHold(peer)
        BY <1>1, <2>1, <3>1 DEF IInv, SigInv
      <4>2. validateCommitmentSig(ch, createLocalCommitmentTx(ch), sig, ch.theirSide.fundingPubKey)
        BY <1>4, <2>1 DEF validateFundingSignedMessage
      <4>3. SigsHold(moved)
        BY <2>2, <2>3, <4>1, <4>2, SigsAttached
      <4> QED
        BY <2>6, <4>1, <4>3 DEF SigInv
    <3>2. CASE htlcs # << >>
      BY <2>6, <3>2 DEF SigInv
    <3> QED
      BY <3>1, <3>2
  <2>10. TermsInv'
    <3>1. "fundingTx" \in DOMAIN ch
      BY <1>1, <2>1 DEF IInv, TermsInv
    <3>2. "fundingTx" \in DOMAIN moved /\ moved.fundingTx = ch.fundingTx
      BY <2>4, <3>1
    <3> QED
      BY <1>1, <2>1, <2>4, <2>6, <3>2, TermsKept
  <2>11. KeysInv'
    BY <1>1, <2>1, <2>4, <2>5, <2>6 DEF IInv, KeysInv
  <2> QED
    BY <2>7, <2>8, <2>9, <2>10, <2>11 DEF IInv
<1> QED
  BY <1>2, <1>3, <1>4

(* The counterpart's record of us moves on: what it holds is as it was. *)
LEMMA SigsAtReady ==
  ASSUME NEW ch, NEW point, Shaped(ch), SigsHold(ch)
  PROVE  SigsHold(attachChannelReady(ch, point))
<1> DEFINE moved == attachChannelReady(ch, point)
<1>1. Shaped(moved) /\ SameTerms(moved, ch) /\ moved.ourSide = ch.ourSide
  BY ChannelReadyAttached
<1> HIDE DEF moved
<1> QED
  BY <1>1, SigsKept DEF moved

LEMMA DepthStep ==
  ASSUME IInv, NEW revokes \in RevokesFirst, DepthReached(revokes)
  PROVE  IInv'
<1>1. PICK ch : ch = channel
  OBVIOUS
<1>2. PICK p : p = peer
  OBVIOUS
<1>3. PICK current : current = IF revokes THEN revokeLocalCommitment(ch) ELSE ch
  OBVIOUS
<1>4. PICK point : point = current.ourSide.nextCommitmentPoint
  OBVIOUS
<1>5. PICK saw : saw = attachChannelReady(p, point)
  OBVIOUS
<1>6. /\ phase = "funding_signed" /\ readyPoint = None
      /\ channel' = current /\ readyPoint' = point /\ peer' = saw
      /\ phase' = phase /\ htlcs' = htlcs /\ given' = given /\ built' = built
  BY <1>1, <1>2, <1>3, <1>4, <1>5 DEF DepthReached
<1>7. Opened
  BY <1>6 DEF IInv, PhaseInv
<1>8. /\ Shaped(ch) /\ Shaped(p) /\ OneChannel(ch, p)
      /\ SameNumber(p.ourSide, ch.theirSide) /\ SamePoint(p.ourSide, ch.theirSide)
      /\ ch.ourSide.nextCommitmentNumber = p.theirSide.nextCommitmentNumber
      /\ ch.ourSide.nextCommitmentNumber \in Nat
      /\ ch.ourSide.nextCommitmentPoint # None
  BY <1>1, <1>2, <1>6, <1>7 DEF IInv, AgreeInv, SameNumber
<1>9. /\ Shaped(saw) /\ SameTerms(saw, p) /\ saw.ourSide = p.ourSide
      /\ saw.theirSide.nextCommitmentPoint = point
  <2>1. /\ Shaped(saw) /\ SameTerms(saw, p) /\ saw.ourSide = p.ourSide
        /\ saw.theirSide = Rotated(p.theirSide, point)
    BY <1>5, <1>8, ChannelReadyAttached
  <2>2. SideFields \subseteq DOMAIN p.theirSide
    BY <1>8 DEF Shaped
  <2>3. Rotated(p.theirSide, point).nextCommitmentPoint = point
    BY <2>2, RotatedFields
  <2> QED
    BY <2>1, <2>3
<1>10. /\ Shaped(current) /\ SameTerms(current, ch) /\ current.theirSide = ch.theirSide
       /\ current.ourSide.nextCommitmentNumber \in Nat
       /\ point # None
       /\ \A f \in DOMAIN ch \ {"ourSide"} : f \in DOMAIN current /\ current[f] = ch[f]
  <2>1. CASE revokes
    <3>1. PICK pt : pt = pointOf(ch.secrets.seed, next(ch.ourSide.nextCommitmentNumber))
      OBVIOUS
    <3>2. /\ Shaped(current) /\ SameTerms(current, ch) /\ current.theirSide = ch.theirSide
          /\ current.ourSide = Rotated(ch.ourSide, pt)
          /\ \A f \in DOMAIN ch \ {"ourSide"} : f \in DOMAIN current /\ current[f] = ch[f]
      BY <1>3, <1>8, <2>1, <3>1, LocalRevoked
    <3>3. SideFields \subseteq DOMAIN ch.ourSide
      BY <1>8 DEF Shaped
    <3>4. /\ Rotated(ch.ourSide, pt).nextCommitmentPoint = pt
          /\ Rotated(ch.ourSide, pt).nextCommitmentNumber = next(ch.ourSide.nextCommitmentNumber)
      BY <3>3, RotatedFields
    <3>5. pt # None
      BY <3>1, PointIsSome DEF pointOf, toPubKey
    <3>6. next(ch.ourSide.nextCommitmentNumber) \in Nat
      BY <1>8 DEF next
    <3> QED
      BY <1>4, <3>2, <3>4, <3>5, <3>6
  <2>2. CASE ~revokes
    BY <1>3, <1>4, <1>8, <2>2, TermsSelf
  <2> QED
    BY <2>1, <2>2
<1>11. Opened'
  BY <1>6, <1>9, OpenedPeer DEF Opened
<1>12. PhaseInv'
  BY <1>6, <1>7, <1>11 DEF IInv, PhaseInv
<1>13. AgreeInv'
  <2>1. OneChannel(current, saw)
    BY <1>8, <1>9, <1>10, OneChannelKept
  <2>2. /\ SameNumber(saw.ourSide, current.theirSide) /\ SamePoint(saw.ourSide, current.theirSide)
        /\ SamePoint(current.ourSide, saw.theirSide)
    BY <1>4, <1>8, <1>9, <1>10 DEF SameNumber, SamePoint
  <2>3. current.ourSide.nextCommitmentPoint # None
    BY <1>4, <1>10
  <2> QED
    BY <1>6, <1>9, <1>10, <2>1, <2>2, <2>3 DEF AgreeInv
<1>14. SigInv'
  <2>1. CASE htlcs = << >>
    <3>1. SigsHold(ch) /\ SigsHold(p)
      BY <1>1, <1>2, <1>7, <2>1 DEF IInv, SigInv
    <3>2. SigsHold(current)
      BY <1>3, <1>8, <3>1, SigsRevoked
    <3>3. SigsHold(saw)
      BY <1>5, <1>8, <3>1, SigsAtReady
    <3> QED
      BY <1>6, <3>2, <3>3 DEF SigInv
  <2>2. CASE htlcs # << >>
    BY <1>6, <2>2 DEF SigInv
  <2> QED
    BY <2>1, <2>2
<1>15. TermsInv'
  <2>1. "fundingTx" \in DOMAIN ch
    BY <1>1, <1>7 DEF IInv, TermsInv
  <2>2. "fundingTx" \in DOMAIN current /\ current.fundingTx = ch.fundingTx
    BY <1>10, <2>1
  <2> QED
    BY <1>1, <1>6, <1>7, <1>10, <1>11, <2>2, TermsKept
<1>16. KeysInv'
  <2>1. current.ourSide.revocationBasePoint = ch.ourSide.revocationBasePoint
    BY <1>10 DEF SameTerms, Twin
  <2> QED
    BY <1>1, <1>6, <1>7, <1>10, <2>1 DEF IInv, KeysInv
<1> QED
  BY <1>12, <1>13, <1>14, <1>15, <1>16 DEF IInv

(* The counterpart's move: one more secret, and the key of the commitment  *)
(* that was signed before.                                                 *)
LEMMA PeerStep ==
  ASSUME IInv, Opened, NEW seed \in PeerSeeds, PeerMovesOn(seed),
         phase' = phase, htlcs' = htlcs, readyPoint' = readyPoint
  PROVE  IInv'
<1>1. PICK ch : ch = channel
  OBVIOUS
<1>2. PICK p : p = peer
  OBVIOUS
<1>3. PICK seeded : seeded = [p EXCEPT !.secrets.seed = seed]
  OBVIOUS
<1>4. PICK moved : moved = revokeLocalCommitment(seeded)
  OBVIOUS
<1>5. PICK point : point = moved.ourSide.nextCommitmentPoint
  OBVIOUS
<1>6. PICK current : current = attachChannelReady(ch, point)
  OBVIOUS
<1>7. PICK secret : secret = secretOf(seed, moved.ourSide.nextCommitmentNumber)
  OBVIOUS
<1>8. PICK key : key = RemoteCommitment(ch, << >>).revocationPubKey
  OBVIOUS
<1>9. /\ peer' = moved /\ channel' = current
      /\ given' = Append(given, secret) /\ built' = Append(built, key)
  BY <1>1, <1>2, <1>3, <1>4, <1>5, <1>6, <1>7, <1>8 DEF PeerMovesOn
<1>10. /\ Shaped(ch) /\ Shaped(p) /\ OneChannel(ch, p)
       /\ p.ourSide.nextCommitmentNumber = ch.theirSide.nextCommitmentNumber
       /\ readyPoint = None => SameNumber(ch.ourSide, p.theirSide)
       /\ SameNumber(ch.ourSide, p.theirSide) => SamePoint(ch.ourSide, p.theirSide)
       /\ ch.ourSide.nextCommitmentNumber \in Nat
       /\ ch.ourSide.nextCommitmentPoint # None
  BY <1>1, <1>2 DEF IInv, AgreeInv, SameNumber
<1>11. /\ Shaped(seeded) /\ SameTerms(seeded, p) /\ seeded.ourSide = p.ourSide
       /\ seeded.theirSide = p.theirSide /\ seeded.secrets.seed = seed
  BY <1>3, <1>10, SeedTaken
<1>12. PICK n : n = ch.theirSide.nextCommitmentNumber
  OBVIOUS
<1>13. /\ Shaped(moved) /\ SameTerms(moved, p) /\ moved.theirSide = p.theirSide
       /\ moved.ourSide.nextCommitmentNumber = next(n)
       /\ moved.ourSide.nextCommitmentPoint = pointOf(seed, next(n))
  <2>1. PICK pt : pt = pointOf(seeded.secrets.seed, next(seeded.ourSide.nextCommitmentNumber))
    OBVIOUS
  <2>2. /\ Shaped(moved) /\ SameTerms(moved, seeded) /\ moved.theirSide = seeded.theirSide
        /\ moved.ourSide = Rotated(seeded.ourSide, pt)
    BY <1>4, <1>11, <2>1, LocalRevoked
  <2>3. SideFields \subseteq DOMAIN seeded.ourSide
    BY <1>11 DEF Shaped
  <2>4. /\ Rotated(seeded.ourSide, pt).nextCommitmentPoint = pt
        /\ Rotated(seeded.ourSide, pt).nextCommitmentNumber
             = next(seeded.ourSide.nextCommitmentNumber)
    BY <2>3, RotatedFields
  <2>5. seeded.ourSide.nextCommitmentNumber = n
    BY <1>10, <1>11, <1>12
  <2>6. SameTerms(moved, p)
    BY <1>11, <2>2, TermsThrough
  <2> QED
    BY <1>11, <2>1, <2>2, <2>4, <2>5, <2>6
<1>14. /\ Shaped(current) /\ SameTerms(current, ch) /\ current.ourSide = ch.ourSide
       /\ current.theirSide.nextCommitmentNumber = next(n)
       /\ current.theirSide.nextCommitmentPoint = point
       /\ \A f \in DOMAIN ch \ {"theirSide"} : f \in DOMAIN current /\ current[f] = ch[f]
  <2>1. /\ Shaped(current) /\ SameTerms(current, ch) /\ current.ourSide = ch.ourSide
        /\ current.theirSide = Rotated(ch.theirSide, point)
        /\ \A f \in DOMAIN ch \ {"theirSide"} : f \in DOMAIN current /\ current[f] = ch[f]
    BY <1>6, <1>10, ChannelReadyAttached
  <2>2. SideFields \subseteq DOMAIN ch.theirSide
    BY <1>10 DEF Shaped
  <2>3. /\ Rotated(ch.theirSide, point).nextCommitmentPoint = point
        /\ Rotated(ch.theirSide, point).nextCommitmentNumber
             = next(ch.theirSide.nextCommitmentNumber)
    BY <2>2, RotatedFields
  <2> QED
    BY <1>12, <2>1, <2>3
<1>15. Opened'
  BY <1>9, <1>13, OpenedPeer DEF Opened
<1>16. PhaseInv'
  <2>1. phase # "open_channel"
    BY DEF IInv, PhaseInv
  <2> QED
    BY <1>15, <2>1 DEF IInv, PhaseInv
<1>17. AgreeInv'
  <2>1. OneChannel(current, moved)
    BY <1>10, <1>13, <1>14, OneChannelKept
  <2>2. /\ SameNumber(moved.ourSide, current.theirSide) /\ SamePoint(moved.ourSide, current.theirSide)
    BY <1>5, <1>13, <1>14 DEF SameNumber, SamePoint
  <2> QED
    BY <1>9, <1>10, <1>13, <1>14, <2>1, <2>2 DEF AgreeInv
<1>18. SigInv'
  <2>1. CASE htlcs = << >>
    <3>1. SigsHold(ch) /\ SigsHold(p)
      BY <1>1, <1>2, <2>1 DEF IInv, SigInv
    <3>2. SigsHold(seeded)
      BY <1>10, <1>11, <3>1, SigsKept
    <3>3. SigsHold(moved)
      BY <1>4, <1>11, <3>2, SigsRevoked
    <3>4. SigsHold(current)
      BY <1>6, <1>10, <3>1, SigsAtReady
    <3> QED
      BY <1>9, <3>3, <3>4 DEF SigInv
  <2>2. CASE htlcs # << >>
    BY <2>2 DEF SigInv
  <2> QED
    BY <2>1, <2>2
<1>19. TermsInv'
  <2>1. "fundingTx" \in DOMAIN ch
    BY <1>1 DEF IInv, TermsInv
  <2>2. "fundingTx" \in DOMAIN current /\ current.fundingTx = ch.fundingTx
    BY <1>14, <2>1
  <2> QED
    BY <1>1, <1>9, <1>14, <1>15, <2>2, TermsKept
<1>20. KeysInv'
  <2>1. /\ given \in Seq(SecretsGiven) /\ built \in Seq({RevocationKey(s) : s \in SecretsGiven})
        /\ Len(given) = Len(built) + 1
        /\ ch.ourSide.revocationBasePoint = toPubKey(OurSecrets.revocation)
        /\ n = Len(built)
        /\ ch.theirSide.nextCommitmentPoint = toPubKey(given[Len(given)])
        /\ \A k \in 1 .. Len(built) : built[k] = RevocationKey(given[k])
    BY <1>1, <1>12 DEF IInv, KeysInv
  <2>2. secret = secretOf(seed, next(n)) /\ point = toPubKey(secret)
    BY <1>5, <1>7, <1>13 DEF pointOf
  <2>3. Len(built) \in Nat /\ next(n) = Len(built) + 1 /\ next(n) \in Nat
    BY <2>1 DEF next
  <2>4. secret \in SecretsGiven
    BY <2>2, <2>3 DEF SecretsGiven
  <2>5. key = RevocationKey(given[Len(given)])
    BY <1>8, <2>1 DEF RemoteCommitment, RevocationKey
  <2>6. given[Len(given)] \in SecretsGiven
    BY <2>1, <2>3
  <2>7. /\ given' \in Seq(SecretsGiven) /\ Len(given') = Len(given) + 1
        /\ given'[Len(given')] = secret
        /\ \A k \in 1 .. Len(given) : given'[k] = given[k]
    BY <1>9, <2>1, <2>4
  <2>8. /\ built' \in Seq({RevocationKey(s) : s \in SecretsGiven})
        /\ Len(built') = Len(built) + 1 /\ built'[Len(built')] = key
        /\ \A k \in 1 .. Len(built) : built'[k] = built[k]
    BY <1>9, <2>1, <2>5, <2>6
  <2>9. \A k \in 1 .. Len(built') : built'[k] = RevocationKey(given'[k])
    BY <2>1, <2>3, <2>5, <2>7, <2>8
  <2>10. current.ourSide.revocationBasePoint = toPubKey(OurSecrets.revocation)
    BY <1>14, <2>1
  <2> QED
    BY <1>9, <1>14, <2>1, <2>2, <2>3, <2>7, <2>8, <2>9, <2>10 DEF KeysInv
<1> QED
  BY <1>16, <1>17, <1>18, <1>19, <1>20 DEF IInv

LEMMA ChannelReadyStep ==
  ASSUME IInv, NEW seed \in PeerSeeds, ChannelReady(seed)
  PROVE  IInv'
<1>1. Opened
  BY DEF IInv, PhaseInv, ChannelReady
<1> QED
  BY <1>1, PeerStep DEF ChannelReady

LEMMA RevokeStep == ASSUME IInv, NEW seed \in PeerSeeds, Revoke(seed) PROVE IInv'
<1>1. Opened
  BY DEF IInv, PhaseInv, Revoke
<1>2. CASE Fail("secret refused")
  BY <1>2, FailStep DEF Progress
<1>3. CASE PeerMovesOn(seed) /\ UNCHANGED <<phase, htlcs, readyPoint>>
  BY <1>1, <1>3, PeerStep
<1> QED
  BY <1>2, <1>3 DEF Revoke

(* An HTLC comes off the balance of its sender, in both records. *)
Paid(side, value) == [side EXCEPT !.balance = subn(@, value)]

LEMMA PaidFields ==
  ASSUME NEW side, NEW value, SideFields \subseteq DOMAIN side
  PROVE  /\ DOMAIN Paid(side, value) = DOMAIN side
         /\ Paid(side, value).balance = subn(side.balance, value)
         /\ \A f \in DOMAIN side \ {"balance"} : Paid(side, value)[f] = side[f]
BY DEF Paid, SideFields

LEMMA PaidTwins ==
  ASSUME NEW side, NEW seen, NEW value, SideFields \subseteq DOMAIN side,
         SideFields \subseteq DOMAIN seen, Twin(side, seen)
  PROVE  Twin(Paid(side, value), Paid(seen, value))
<1> DEFINE s == Paid(side, value)
           t == Paid(seen, value)
<1>1. /\ s.balance = subn(side.balance, value)
      /\ \A f \in SideFields \ {"balance"} : s[f] = side[f]
  BY PaidFields
<1>2. /\ t.balance = subn(seen.balance, value)
      /\ \A f \in SideFields \ {"balance"} : t[f] = seen[f]
  BY PaidFields
<1> HIDE DEF s, t
<1>3. /\ s.dustLimit = side.dustLimit /\ s.toSelfDelayBlocks = side.toSelfDelayBlocks
      /\ s.fundingPubKey = side.fundingPubKey /\ s.paymentBasePoint = side.paymentBasePoint
      /\ s.delayedBasePoint = side.delayedBasePoint /\ s.htlcBasePoint = side.htlcBasePoint
      /\ s.revocationBasePoint = side.revocationBasePoint
  BY <1>1 DEF SideFields
<1>4. /\ t.dustLimit = seen.dustLimit /\ t.toSelfDelayBlocks = seen.toSelfDelayBlocks
      /\ t.fundingPubKey = seen.fundingPubKey /\ t.paymentBasePoint = seen.paymentBasePoint
      /\ t.delayedBasePoint = seen.delayedBasePoint /\ t.htlcBasePoint = seen.htlcBasePoint
      /\ t.revocationBasePoint = seen.revocationBasePoint
  BY <1>2 DEF SideFields
<1> QED
  BY <1>1, <1>2, <1>3, <1>4 DEF Twin, s, t

(* A channel one of whose sides pays keeps all else. *)
LEMMA OurSidePays ==
  ASSUME NEW ch, NEW value, Shaped(ch)
  PROVE  LET moved == [ch EXCEPT !.ourSide = Paid(@, value)]
         IN /\ Shaped(moved) /\ moved.ourSide = Paid(ch.ourSide, value)
            /\ \A f \in DOMAIN ch \ {"ourSide"} : f \in DOMAIN moved /\ moved[f] = ch[f]
<1> DEFINE side == Paid(ch.ourSide, value)
<1>1. /\ "ourSide" \in DOMAIN ch /\ "theirSide" \in DOMAIN ch /\ "secrets" \in DOMAIN ch
      /\ TermFields \subseteq DOMAIN ch /\ SideFields \subseteq DOMAIN ch.ourSide
      /\ SideFields \subseteq DOMAIN ch.theirSide /\ "seed" \in DOMAIN ch.secrets
  BY DEF Shaped
<1>2. DOMAIN side = DOMAIN ch.ourSide
  BY <1>1, PaidFields
<1> HIDE DEF side
<1> DEFINE moved == [ch EXCEPT !.ourSide = side]
<1>3. /\ DOMAIN moved = DOMAIN ch /\ moved.ourSide = side
      /\ \A f \in DOMAIN ch \ {"ourSide"} : moved[f] = ch[f]
  BY <1>1, OurSideSet
<1>4. [ch EXCEPT !.ourSide = Paid(@, value)] = moved
  BY <1>1 DEF side
<1> HIDE DEF moved
<1>5. Shaped(moved)
  BY <1>1, <1>2, <1>3 DEF Shaped
<1> QED
  BY <1>3, <1>4, <1>5 DEF side

LEMMA TheirSidePays ==
  ASSUME NEW ch, NEW value, Shaped(ch)
  PROVE  LET moved == [ch EXCEPT !.theirSide = Paid(@, value)]
         IN /\ Shaped(moved) /\ moved.theirSide = Paid(ch.theirSide, value)
            /\ \A f \in DOMAIN ch \ {"theirSide"} : f \in DOMAIN moved /\ moved[f] = ch[f]
<1> DEFINE side == Paid(ch.theirSide, value)
<1>1. /\ "ourSide" \in DOMAIN ch /\ "theirSide" \in DOMAIN ch /\ "secrets" \in DOMAIN ch
      /\ TermFields \subseteq DOMAIN ch /\ SideFields \subseteq DOMAIN ch.ourSide
      /\ SideFields \subseteq DOMAIN ch.theirSide /\ "seed" \in DOMAIN ch.secrets
  BY DEF Shaped
<1>2. DOMAIN side = DOMAIN ch.theirSide
  BY <1>1, PaidFields
<1> HIDE DEF side
<1> DEFINE moved == [ch EXCEPT !.theirSide = side]
<1>3. /\ DOMAIN moved = DOMAIN ch /\ moved.theirSide = side
      /\ \A f \in DOMAIN ch \ {"theirSide"} : moved[f] = ch[f]
  BY <1>1, TheirSideSet
<1>4. [ch EXCEPT !.theirSide = Paid(@, value)] = moved
  BY <1>1 DEF side
<1> HIDE DEF moved
<1>5. Shaped(moved)
  BY <1>1, <1>2, <1>3 DEF Shaped
<1> QED
  BY <1>3, <1>4, <1>5 DEF side

(* What both records of a payment have in common. *)
LEMMA PaymentKeeps ==
  ASSUME NEW payer, NEW payee, NEW value,
         Shaped(payer), Shaped(payee),
         Twin(payer.ourSide, payee.theirSide), Twin(payee.ourSide, payer.theirSide)
  PROVE  LET p == [payer EXCEPT !.ourSide = Paid(@, value)]
             q == [payee EXCEPT !.theirSide = Paid(@, value)]
         IN /\ Shaped(p) /\ Shaped(q)
            /\ \A f \in DOMAIN payer \ {"ourSide"} : f \in DOMAIN p /\ p[f] = payer[f]
            /\ \A f \in DOMAIN payee \ {"theirSide"} : f \in DOMAIN q /\ q[f] = payee[f]
            /\ \A f \in SideFields \ {"balance"} :
                 p.ourSide[f] = payer.ourSide[f] /\ q.theirSide[f] = payee.theirSide[f]
            /\ p.theirSide = payer.theirSide /\ q.ourSide = payee.ourSide
            /\ Twin(p.ourSide, q.theirSide) /\ Twin(q.ourSide, p.theirSide)
<1> DEFINE p == [payer EXCEPT !.ourSide = Paid(@, value)]
           q == [payee EXCEPT !.theirSide = Paid(@, value)]
<1>1. /\ Shaped(p) /\ p.ourSide = Paid(payer.ourSide, value)
      /\ \A f \in DOMAIN payer \ {"ourSide"} : f \in DOMAIN p /\ p[f] = payer[f]
  BY OurSidePays
<1>2. /\ Shaped(q) /\ q.theirSide = Paid(payee.theirSide, value)
      /\ \A f \in DOMAIN payee \ {"theirSide"} : f \in DOMAIN q /\ q[f] = payee[f]
  BY TheirSidePays
<1> HIDE DEF p, q
<1>3. /\ SideFields \subseteq DOMAIN payer.ourSide /\ SideFields \subseteq DOMAIN payee.theirSide
      /\ "theirSide" \in DOMAIN payer /\ "ourSide" \in DOMAIN payee
  BY DEF Shaped
<1>4. p.theirSide = payer.theirSide /\ q.ourSide = payee.ourSide
  BY <1>1, <1>2, <1>3
<1>5. Twin(p.ourSide, q.theirSide)
  BY <1>1, <1>2, <1>3, PaidTwins
<1>6. \A f \in SideFields \ {"balance"} : p.ourSide[f] = payer.ourSide[f]
  BY <1>1, <1>3, PaidFields
<1>7. \A f \in SideFields \ {"balance"} : q.theirSide[f] = payee.theirSide[f]
  BY <1>2, <1>3, PaidFields
<1> QED
  BY <1>1, <1>2, <1>4, <1>5, <1>6, <1>7 DEF p, q

LEMMA AddHtlcStep == ASSUME IInv, NEW h \in Htlcs, AddHtlc(h) PROVE IInv'
<1>1. PICK ch : ch = channel
  OBVIOUS
<1>2. PICK p : p = peer
  OBVIOUS
<1>3. /\ Opened /\ phase' = phase /\ phase = "funding_signed" /\ readyPoint' = readyPoint
      /\ given' = given /\ built' = built /\ htlcs' = Append(htlcs, h)
  BY DEF IInv, PhaseInv, AddHtlc
<1>4. /\ Shaped(ch) /\ Shaped(p) /\ OneChannel(ch, p)
      /\ SameNumber(p.ourSide, ch.theirSide) /\ SamePoint(p.ourSide, ch.theirSide)
      /\ readyPoint = None => SameNumber(ch.ourSide, p.theirSide)
      /\ SameNumber(ch.ourSide, p.theirSide) => SamePoint(ch.ourSide, p.theirSide)
      /\ ch.ourSide.nextCommitmentNumber \in Nat
      /\ ch.ourSide.nextCommitmentPoint # None
  BY <1>1, <1>2, <1>3 DEF IInv, AgreeInv
<1>5. Twin(ch.ourSide, p.theirSide) /\ Twin(p.ourSide, ch.theirSide)
  BY <1>4 DEF OneChannel
<1> DEFINE Kept(c, q) ==
      /\ Shaped(c) /\ Shaped(q)
      /\ \A f \in DOMAIN ch \ {"ourSide", "theirSide"} : f \in DOMAIN c /\ c[f] = ch[f]
      /\ \A f \in DOMAIN p \ {"ourSide", "theirSide"} : f \in DOMAIN q /\ q[f] = p[f]
      /\ \A f \in SideFields \ {"balance"} :
           /\ c.ourSide[f] = ch.ourSide[f] /\ c.theirSide[f] = ch.theirSide[f]
           /\ q.ourSide[f] = p.ourSide[f] /\ q.theirSide[f] = p.theirSide[f]
      /\ Twin(c.ourSide, q.theirSide) /\ Twin(q.ourSide, c.theirSide)
<1>6. PICK c, q : c = channel' /\ q = peer' /\ Kept(c, q)
  <2>1. CASE h.direction = "offered"
    <3> DEFINE c == [ch EXCEPT !.ourSide = Paid(@, h.value)]
               q == [p EXCEPT !.theirSide = Paid(@, h.value)]
    <3>1. channel' = c /\ peer' = q
      BY <1>1, <1>2, <2>1 DEF AddHtlc, Paid
    <3>2. /\ Shaped(c) /\ Shaped(q)
          /\ \A f \in DOMAIN ch \ {"ourSide"} : f \in DOMAIN c /\ c[f] = ch[f]
          /\ \A f \in DOMAIN p \ {"theirSide"} : f \in DOMAIN q /\ q[f] = p[f]
          /\ \A f \in SideFields \ {"balance"} :
               c.ourSide[f] = ch.ourSide[f] /\ q.theirSide[f] = p.theirSide[f]
          /\ c.theirSide = ch.theirSide /\ q.ourSide = p.ourSide
          /\ Twin(c.ourSide, q.theirSide) /\ Twin(q.ourSide, c.theirSide)
      BY <1>4, <1>5, PaymentKeeps
    <3> HIDE DEF c, q
    <3>3. Kept(c, q)
      BY <3>2
    <3> QED
      BY <3>1, <3>3
  <2>2. CASE h.direction # "offered"
    <3> DEFINE c == [ch EXCEPT !.theirSide = Paid(@, h.value)]
               q == [p EXCEPT !.ourSide = Paid(@, h.value)]
    <3>1. channel' = c /\ peer' = q
      BY <1>1, <1>2, <2>2 DEF AddHtlc, Paid
    <3>2. /\ Shaped(q) /\ Shaped(c)
          /\ \A f \in DOMAIN p \ {"ourSide"} : f \in DOMAIN q /\ q[f] = p[f]
          /\ \A f \in DOMAIN ch \ {"theirSide"} : f \in DOMAIN c /\ c[f] = ch[f]
          /\ \A f \in SideFields \ {"balance"} :
               q.ourSide[f] = p.ourSide[f] /\ c.theirSide[f] = ch.theirSide[f]
          /\ q.theirSide = p.theirSide /\ c.ourSide = ch.ourSide
          /\ Twin(q.ourSide, c.theirSide) /\ Twin(c.ourSide, q.theirSide)
      BY <1>4, <1>5, PaymentKeeps
    <3> HIDE DEF c, q
    <3>3. Kept(c, q)
      BY <3>2
    <3> QED
      BY <3>1, <3>3
  <2> QED
    BY <2>1, <2>2
<1>7. /\ TermFields \subseteq DOMAIN ch \ {"ourSide", "theirSide"}
      /\ TermFields \subseteq DOMAIN p \ {"ourSide", "theirSide"}
  BY <1>4 DEF Shaped, TermFields
<1>8. (\A f \in TermFields : c[f] = ch[f]) /\ (\A f \in TermFields : q[f] = p[f])
  BY <1>6, <1>7
<1>9. OneChannel(c, q)
  <2>1. /\ c.funder = ch.funder /\ c.fundingAmount = ch.fundingAmount
        /\ c.feeRatePerKw = ch.feeRatePerKw /\ c.fundingScript = ch.fundingScript
        /\ c.fundingOutPoint = ch.fundingOutPoint
    BY <1>8 DEF TermFields
  <2>2. /\ q.funder = p.funder /\ q.fundingAmount = p.fundingAmount
        /\ q.feeRatePerKw = p.feeRatePerKw /\ q.fundingScript = p.fundingScript
        /\ q.fundingOutPoint = p.fundingOutPoint
    BY <1>8 DEF TermFields
  <2> QED
    BY <1>4, <1>6, <2>1, <2>2 DEF OneChannel
<1>10. /\ c.ourSide.nextCommitmentNumber = ch.ourSide.nextCommitmentNumber
       /\ c.ourSide.nextCommitmentPoint = ch.ourSide.nextCommitmentPoint
       /\ c.theirSide.nextCommitmentNumber = ch.theirSide.nextCommitmentNumber
       /\ c.theirSide.nextCommitmentPoint = ch.theirSide.nextCommitmentPoint
       /\ q.ourSide.nextCommitmentNumber = p.ourSide.nextCommitmentNumber
       /\ q.ourSide.nextCommitmentPoint = p.ourSide.nextCommitmentPoint
       /\ q.theirSide.nextCommitmentNumber = p.theirSide.nextCommitmentNumber
       /\ q.theirSide.nextCommitmentPoint = p.theirSide.nextCommitmentPoint
       /\ c.ourSide.revocationBasePoint = ch.ourSide.revocationBasePoint
  BY <1>6 DEF SideFields
<1>11. Opened'
  <2>1. Shaped(q)
    BY <1>6
  <2> QED
    BY <1>6, <2>1, OpenedPeer DEF Opened
<1>12. htlcs' \in Seq(Htlcs) /\ htlcs' # << >>
  <2>1. htlcs \in Seq(Htlcs)
    BY DEF IInv, PhaseInv
  <2>2. Append(htlcs, h) \in Seq(Htlcs) /\ Len(Append(htlcs, h)) = Len(htlcs) + 1
        /\ Len(htlcs) \in Nat /\ Len(<< >>) = 0
    BY <2>1
  <2>3. Append(htlcs, h) # << >>
    BY <2>2
  <2> QED
    BY <1>3, <2>2, <2>3
<1>13. PhaseInv'
  BY <1>3, <1>11, <1>12 DEF PhaseInv
<1>14. AgreeInv'
  BY <1>3, <1>4, <1>6, <1>9, <1>10 DEF AgreeInv, SameNumber, SamePoint
<1>15. SigInv'
  BY <1>12 DEF SigInv
<1>16. TermsInv'
  <2>1. /\ "fundingTx" \in DOMAIN ch
        /\ SignsFor(ch, ch.fundingTx.outputs[1])
    BY <1>1, <1>3 DEF IInv, TermsInv
  <2>2. "fundingTx" \in DOMAIN c /\ c.fundingTx = ch.fundingTx
    BY <1>6, <2>1
  <2>3. c.fundingAmount = ch.fundingAmount /\ c.fundingScript = ch.fundingScript
    BY <1>8 DEF TermFields
  <2> QED
    BY <1>6, <1>12, <2>1, <2>2, <2>3 DEF TermsInv, SignsFor
<1>17. KeysInv'
  BY <1>1, <1>3, <1>6, <1>10 DEF IInv, KeysInv
<1> QED
  BY <1>13, <1>14, <1>15, <1>16, <1>17 DEF IInv

(* The invariant holds of every state. *)
THEOREM Invariance == Spec => []IInv
<1>1. IInv /\ [Next]_vars => IInv'
  <2> SUFFICES ASSUME IInv, [Next]_vars PROVE IInv'
    OBVIOUS
  <2>1. CASE \E r \in Requests : OpenChannel(r)
    BY <2>1, OpenStep
  <2>2. CASE \E a \in Accepts : AcceptChannel(a)
    BY <2>2, AcceptStep
  <2>3. CASE FundingSigned
    BY <2>3, FundingSignedStep
  <2>4. CASE \E revokes \in RevokesFirst : DepthReached(revokes)
    BY <2>4, DepthStep
  <2>5. CASE \E seed \in PeerSeeds : ChannelReady(seed)
    BY <2>5, ChannelReadyStep
  <2>6. CASE \E seed \in PeerSeeds : Revoke(seed)
    BY <2>6, RevokeStep
  <2>7. CASE \E h \in Htlcs : AddHtlc(h)
    BY <2>7, AddHtlcStep
  <2>8. CASE UNCHANGED vars
    BY <2>8, StutterStep
  <2> QED
    BY <2>1, <2>2, <2>3, <2>4, <2>5, <2>6, <2>7, <2>8 DEF Next
<1> QED
  BY InitInv, <1>1, PTL DEF Spec

(* The signature a side holds is the other side's over the commitment it   *)
(* is held with, for any amounts, rates and limits that pass the rules,    *)
(* and whether our side revokes its commitment or not                      *)
(* (attachFundingSigned, revokeLocalCommitment).                           *)
THEOREM SignaturesStayValid == Spec => []HeldSigIsValid
<1>1. IInv => HeldSigIsValid
  <2> SUFFICES ASSUME IInv, htlcs = << >>, NEW ch \in {channel, peer} \ {None},
                      ch # channel \/ Opened
               PROVE  SigsHold(ch)
    BY DEF HeldSigIsValid, SigsHold
  <2>1. Opened
    BY DEF Opened
  <2>2. SigsHold(channel) /\ SigsHold(peer)
    BY <2>1 DEF IInv, SigInv
  <2> QED
    BY <2>2
<1> QED
  BY <1>1, Invariance, PTL

(* An output that is not dust is made. *)
LEMMA NotDust ==
  ASSUME NEW c, NEW value, NEW lock, sats(value) >= sats(c.dustLimit)
  PROVE  unlessDust(c, value, lock) # << >>
BY DEF unlessDust

(* The first commitments can be paid and have outputs. *)
LEMMA FirstPays ==
  ASSUME IInv, Opened, htlcs = << >>
  PROVE  /\ sats(channel.ourSide.balance) >= FeesFor(724, sats(channel.feeRatePerKw))
         /\ createLocalCommitmentTx(channel).outputs # << >>
         /\ createRemoteCommitmentTx(channel).outputs # << >>
<1>1. PICK ch : ch = channel
  OBVIOUS
<1>2. PICK r \in Requests, a \in Accepts :
        /\ requestError(r) = NoError /\ lte(a.dustLimit, r.channelReserveValue)
        /\ ch.feeRatePerKw = r.feeRatePerKw
        /\ ch.ourSide.balance = subn(r.fundingAmount, r.pushAmount)
        /\ ch.theirSide.balance = r.pushAmount
        /\ ch.ourSide.dustLimit = r.dustLimit
        /\ ch.theirSide.dustLimit = a.dustLimit
  BY <1>1 DEF IInv, TermsInv
<1>3. /\ r.fundingAmount \in Amount /\ r.pushAmount \in Amount /\ r.feeRatePerKw \in Amount
      /\ r.channelReserveValue \in Amount /\ r.dustLimit \in Amount /\ a.dustLimit \in Amount
  BY LedgerAssumption
<1>4. /\ validateFunderFees(r.fundingAmount, r.pushAmount, r.feeRatePerKw)
      /\ lte(r.dustLimit, r.channelReserveValue)
      /\ validateChannelReserveReachable(r.fundingAmount, r.pushAmount, r.feeRatePerKw,
                                         r.channelReserveValue)
  BY <1>2, RequestChecked DEF openReserveCoversDust
<1> DEFINE balance == subn(r.fundingAmount, r.pushAmount)
           fee == FeesFor(724, sats(r.feeRatePerKw))
<1>5. /\ sats(balance) >= fee
      /\ \A dust \in Amount : lte(dust, r.channelReserveValue) =>
           \/ sats(AfterFee(balance, fee)) >= sats(dust)
           \/ sats(r.pushAmount) >= sats(dust)
  BY <1>3, <1>4, FunderPays
<1> HIDE DEF balance
<1>6. ch.funder = TRUE
  BY <1>1 DEF IInv, AgreeInv, OneChannel
<1>7. createLocalCommitmentTx(ch).outputs # << >>
  <2> DEFINE c == LocalCommitment(ch, << >>)
  <2>1. /\ c.htlcs = << >> /\ c.isFunderLocal = ch.funder /\ c.feePerKw = sats(ch.feeRatePerKw)
        /\ c.dustLimit = ch.ourSide.dustLimit
        /\ c.localValue = ch.ourSide.balance /\ c.remoteValue = ch.theirSide.balance
    BY DEF LocalCommitment
  <2> HIDE DEF c
  <2>2. BareFee(c) = fee
    BY <1>2, <2>1 DEF BareFee
  <2>3. \/ sats(AfterFee(balance, fee)) >= sats(c.dustLimit)
        \/ sats(r.pushAmount) >= sats(c.dustLimit)
    BY <1>2, <1>3, <1>4, <1>5, <2>1
  <2>4. /\ (IF c.isFunderLocal THEN AfterFee(c.localValue, BareFee(c)) ELSE c.localValue)
             = AfterFee(balance, fee)
        /\ (IF c.isFunderLocal THEN c.remoteValue ELSE AfterFee(c.remoteValue, BareFee(c)))
             = r.pushAmount
    BY <1>2, <1>6, <2>1, <2>2 DEF balance
  <2>5. LocalPaid(c, BareFee(c)) # << >> \/ RemotePaid(c, BareFee(c)) # << >>
    BY <2>3, <2>4, NotDust DEF LocalPaid, RemotePaid
  <2>6. createCommitment(c).tx.outputs # << >>
    BY <2>1, <2>5, OutputsCounted
  <2> QED
    BY <2>6, Zenon DEF createLocalCommitmentTx, c
<1>8. createRemoteCommitmentTx(ch).outputs # << >>
  <2> DEFINE c == RemoteCommitment(ch, << >>)
  <2>1. /\ c.htlcs = << >> /\ c.isFunderLocal = ~ch.funder /\ c.feePerKw = sats(ch.feeRatePerKw)
        /\ c.dustLimit = ch.theirSide.dustLimit
        /\ c.localValue = ch.theirSide.balance /\ c.remoteValue = ch.ourSide.balance
    BY DEF RemoteCommitment
  <2> HIDE DEF c
  <2>2. BareFee(c) = fee
    BY <1>2, <2>1 DEF BareFee
  <2>3. \/ sats(AfterFee(balance, fee)) >= sats(c.dustLimit)
        \/ sats(r.pushAmount) >= sats(c.dustLimit)
    BY <1>2, <1>3, <1>4, <1>5, <2>1
  <2>4. /\ (IF c.isFunderLocal THEN c.remoteValue ELSE AfterFee(c.remoteValue, BareFee(c)))
             = AfterFee(balance, fee)
        /\ (IF c.isFunderLocal THEN AfterFee(c.localValue, BareFee(c)) ELSE c.localValue)
             = r.pushAmount
    BY <1>2, <1>6, <2>1, <2>2 DEF balance
  <2>5. LocalPaid(c, BareFee(c)) # << >> \/ RemotePaid(c, BareFee(c)) # << >>
    BY <2>3, <2>4, NotDust DEF LocalPaid, RemotePaid
  <2>6. createCommitment(c).tx.outputs # << >>
    BY <2>1, <2>5, OutputsCounted
  <2> QED
    BY <2>6, Zenon DEF createRemoteCommitmentTx, c
<1>9. sats(ch.ourSide.balance) >= FeesFor(724, sats(ch.feeRatePerKw))
  BY <1>2, <1>5 DEF balance
<1> QED
  BY <1>1, <1>7, <1>8, <1>9

(* Whatever amounts, rates, reserves and dust limits pass the checks of    *)
(* createChannel and validateAcceptChannel, the funder can pay the fee of  *)
(* the first commitments, the dust limits leave each of them an output,    *)
(* and both nodes sign for the output that createFundingTx makes.          *)
THEOREM TheChecksSuffice == Spec => []FirstCommitmentsPay
<1>1. IInv => FirstCommitmentsPay
  <2> SUFFICES ASSUME IInv, Opened, htlcs = << >>
               PROVE  /\ sats(channel.ourSide.balance) >= FeesFor(724, sats(channel.feeRatePerKw))
                      /\ createLocalCommitmentTx(channel).outputs # << >>
                      /\ createRemoteCommitmentTx(channel).outputs # << >>
                      /\ \A ch \in {channel, peer} :
                            SignsFor(ch, channel.fundingTx.outputs[1])
    BY DEF FirstCommitmentsPay
  <2>1. SignsFor(channel, channel.fundingTx.outputs[1])
    BY DEF IInv, TermsInv
  <2>2. peer.fundingAmount = channel.fundingAmount /\ peer.fundingScript = channel.fundingScript
    BY DEF IInv, AgreeInv, OneChannel
  <2>3. \A ch \in {channel, peer} : SignsFor(ch, channel.fundingTx.outputs[1])
    BY <2>1, <2>2 DEF SignsFor
  <2> QED
    BY <2>3, FirstPays
<1> QED
  BY <1>1, Invariance, PTL

(* The two nodes give createCommitment the same arguments for a commitment *)
(* they agree on the number of, but for whose HTLCs they are: ours, unless *)
(* revokeLocalCommitment is not called, and the counterpart's always       *)
(* (createRemoteCommitmentTx, createLocalCommitmentTx).                    *)
SeenByOther(c) == [c EXCEPT !.reverseHtlcs = TRUE]

CommitmentsAgree ==
    Opened => \A hs :
        /\ SameNumber(channel.ourSide, peer.theirSide) =>
            RemoteCommitment(peer, hs) = SeenByOther(LocalCommitment(channel, hs))
        /\ RemoteCommitment(channel, hs) = SeenByOther(LocalCommitment(peer, hs))

(* Two records of one channel give createCommitment the same arguments. *)
LEMMA SameArguments ==
  ASSUME NEW ch, NEW other,
         (ch.funder = TRUE /\ other.funder = FALSE) \/ (ch.funder = FALSE /\ other.funder = TRUE),
         ch.fundingOutPoint = other.fundingOutPoint, ch.feeRatePerKw = other.feeRatePerKw,
         Twin(other.ourSide, ch.theirSide), Twin(ch.ourSide, other.theirSide),
         SameNumber(other.ourSide, ch.theirSide), SamePoint(other.ourSide, ch.theirSide), NEW hs
  PROVE  RemoteCommitment(ch, hs) = SeenByOther(LocalCommitment(other, hs))
<1>1. /\ openPaymentBasePoint(ch) = openPaymentBasePoint(other)
      /\ acceptPaymentBasePoint(ch) = acceptPaymentBasePoint(other)
  <2>1. /\ ch.ourSide.paymentBasePoint = other.theirSide.paymentBasePoint
        /\ ch.theirSide.paymentBasePoint = other.ourSide.paymentBasePoint
    BY DEF Twin
  <2>2. CASE ch.funder = TRUE /\ other.funder = FALSE
    BY <2>1, <2>2 DEF openPaymentBasePoint, acceptPaymentBasePoint
  <2>3. CASE ch.funder = FALSE /\ other.funder = TRUE
    BY <2>1, <2>3 DEF openPaymentBasePoint, acceptPaymentBasePoint
  <2> QED
    BY <2>2, <2>3
<1>2. (~ch.funder) = other.funder
  OBVIOUS
<1>3. /\ ch.theirSide.nextCommitmentNumber = other.ourSide.nextCommitmentNumber
      /\ ch.theirSide.nextCommitmentPoint = other.ourSide.nextCommitmentPoint
      /\ ch.theirSide.dustLimit = other.ourSide.dustLimit
      /\ ch.theirSide.toSelfDelayBlocks = other.ourSide.toSelfDelayBlocks
      /\ ch.theirSide.balance = other.ourSide.balance
      /\ ch.ourSide.balance = other.theirSide.balance
      /\ ch.ourSide.revocationBasePoint = other.theirSide.revocationBasePoint
      /\ ch.theirSide.delayedBasePoint = other.ourSide.delayedBasePoint
      /\ ch.ourSide.paymentBasePoint = other.theirSide.paymentBasePoint
      /\ ch.theirSide.htlcBasePoint = other.ourSide.htlcBasePoint
      /\ ch.ourSide.htlcBasePoint = other.theirSide.htlcBasePoint
  BY DEF Twin, SameNumber, SamePoint
<1> DEFINE point == other.ourSide.nextCommitmentPoint
           c == [isFunderLocal |-> other.funder,
                 commitmentNumber |-> other.ourSide.nextCommitmentNumber,
                 openPaymentBasePoint |-> openPaymentBasePoint(other),
                 acceptPaymentBasePoint |-> acceptPaymentBasePoint(other),
                 fundingOutPoint |-> other.fundingOutPoint, dustLimit |-> other.ourSide.dustLimit,
                 feePerKw |-> sats(other.feeRatePerKw),
                 localDelay |-> other.ourSide.toSelfDelayBlocks,
                 localValue |-> other.ourSide.balance, remoteValue |-> other.theirSide.balance,
                 revocationPubKey |->
                    deriveRevocationPubKey(point, other.theirSide.revocationBasePoint),
                 delayedPubKey |-> derivePubKey(point, other.ourSide.delayedBasePoint),
                 remotePubKey |-> other.theirSide.paymentBasePoint, reverseHtlcs |-> TRUE,
                 localHtlcPubKey |-> derivePubKey(point, other.ourSide.htlcBasePoint),
                 remoteHtlcPubKey |-> derivePubKey(point, other.theirSide.htlcBasePoint),
                 htlcs |-> hs]
<1>4. RemoteCommitment(ch, hs) = c
  <2>1. PICK funds : funds = other.funder
    OBVIOUS
  <2>2. (~ch.funder) = funds
    BY <1>2, <2>1
  <2>3. PICK o, q : o = openPaymentBasePoint(ch) /\ q = acceptPaymentBasePoint(ch)
    OBVIOUS
  <2>4. RemoteCommitment(ch, hs) =
           [isFunderLocal |-> ~ch.funder,
            commitmentNumber |-> ch.theirSide.nextCommitmentNumber,
            openPaymentBasePoint |-> o, acceptPaymentBasePoint |-> q,
            fundingOutPoint |-> ch.fundingOutPoint, dustLimit |-> ch.theirSide.dustLimit,
            feePerKw |-> sats(ch.feeRatePerKw), localDelay |-> ch.theirSide.toSelfDelayBlocks,
            localValue |-> ch.theirSide.balance, remoteValue |-> ch.ourSide.balance,
            revocationPubKey |-> deriveRevocationPubKey(ch.theirSide.nextCommitmentPoint,
                                                        ch.ourSide.revocationBasePoint),
            delayedPubKey |-> derivePubKey(ch.theirSide.nextCommitmentPoint,
                                           ch.theirSide.delayedBasePoint),
            remotePubKey |-> ch.ourSide.paymentBasePoint, reverseHtlcs |-> TRUE,
            localHtlcPubKey |-> derivePubKey(ch.theirSide.nextCommitmentPoint,
                                             ch.theirSide.htlcBasePoint),
            remoteHtlcPubKey |-> derivePubKey(ch.theirSide.nextCommitmentPoint,
                                              ch.ourSide.htlcBasePoint),
            htlcs |-> hs]
    BY <2>3, Zenon DEF RemoteCommitment
  <2>5. o = openPaymentBasePoint(other) /\ q = acceptPaymentBasePoint(other)
    BY <1>1, <2>3
  <2> QED
    BY <1>3, <2>1, <2>2, <2>4, <2>5
<1>5. SeenByOther(LocalCommitment(other, hs)) = c
  <2>1. PICK d : d = LocalCommitment(other, hs)
    OBVIOUS
  <2>2. DOMAIN d = DOMAIN c
    BY <2>1 DEF LocalCommitment
  <2>3. \A f \in DOMAIN c \ {"reverseHtlcs"} : d[f] = c[f]
    BY <2>1 DEF LocalCommitment
  <2>4. c = [f \in DOMAIN c |-> c[f]] /\ c.reverseHtlcs = TRUE
    OBVIOUS
  <2> HIDE DEF c
  <2>5. [d EXCEPT !.reverseHtlcs = TRUE]
          = [f \in DOMAIN d |-> IF f = "reverseHtlcs" THEN TRUE ELSE d[f]]
    OBVIOUS
  <2>6. c = [f \in DOMAIN d |-> IF f = "reverseHtlcs" THEN TRUE ELSE d[f]]
    BY <2>2, <2>3, <2>4
  <2> QED
    BY <2>1, <2>5, <2>6 DEF SeenByOther
<1> QED
  BY <1>4, <1>5, Zenon

(* Both nodes always build the commitments they sign for each other from   *)
(* the same arguments (createRemoteCommitmentTx, createLocalCommitmentTx). *)
THEOREM TheNodesAgree == Spec => []CommitmentsAgree
<1>1. IInv => CommitmentsAgree
  <2> SUFFICES ASSUME IInv, Opened, NEW hs
               PROVE  /\ SameNumber(channel.ourSide, peer.theirSide) =>
                          RemoteCommitment(peer, hs)
                            = SeenByOther(LocalCommitment(channel, hs))
                      /\ RemoteCommitment(channel, hs)
                            = SeenByOther(LocalCommitment(peer, hs))
    BY DEF CommitmentsAgree
  <2>1. PICK ch, p : ch = channel /\ p = peer
    OBVIOUS
  <2>2. /\ ch.funder = TRUE /\ p.funder = FALSE
        /\ ch.fundingOutPoint = p.fundingOutPoint /\ ch.feeRatePerKw = p.feeRatePerKw
        /\ Twin(ch.ourSide, p.theirSide) /\ Twin(p.ourSide, ch.theirSide)
        /\ SameNumber(p.ourSide, ch.theirSide) /\ SamePoint(p.ourSide, ch.theirSide)
        /\ SameNumber(ch.ourSide, p.theirSide) => SamePoint(ch.ourSide, p.theirSide)
    BY <2>1 DEF IInv, AgreeInv, OneChannel
  <2>3. RemoteCommitment(ch, hs) = SeenByOther(LocalCommitment(p, hs))
    <3>1. (ch.funder = TRUE /\ p.funder = FALSE) \/ (ch.funder = FALSE /\ p.funder = TRUE)
      BY <2>2
    <3> QED
      BY <2>2, <3>1, SameArguments
  <2>4. SameNumber(ch.ourSide, p.theirSide) =>
          RemoteCommitment(p, hs) = SeenByOther(LocalCommitment(ch, hs))
    <3>1. (p.funder = TRUE /\ ch.funder = FALSE) \/ (p.funder = FALSE /\ ch.funder = TRUE)
      BY <2>2
    <3>2. p.fundingOutPoint = ch.fundingOutPoint /\ p.feeRatePerKw = ch.feeRatePerKw
      BY <2>2
    <3> QED
      BY <2>2, <3>1, <3>2, SameArguments
  <2> QED
    BY <2>1, <2>3, <2>4
<1> QED
  BY <1>1, Invariance, PTL

(* Of each commitment that was signed for the counterpart, the secret it   *)
(* gave for that number opens the revocation key with our own: half of     *)
(* RevokedIsPunishable, for any number of commitments                      *)
(* (deriveRevocationPubKey, deriveRevocationPrivKey, attachChannelReady).  *)
GivenSecretsRevoke ==
    Opened => \A n \in 1 .. Len(built) :
        toPubKey(deriveRevocationPrivKey(given[n], OurSecrets.revocation)) = built[n]

(* The two halves of a revocation key meet. *)
LEMMA RevocationKeysMatch ==
  ASSUME NEW s, NEW b
  PROVE  toPubKey(deriveRevocationPrivKey(s, b)) = deriveRevocationPubKey(toPubKey(s), toPubKey(b))
BY DEF toPubKey, Point, deriveRevocationPrivKey, deriveRevocationPubKey, privateKeyTweakMul,
       privateKeyTweakAdd, publicKeyTweakMul, publicKeyCombine

(* The secrets the counterpart gave revoke the commitments that were       *)
(* signed for it, however many there were (attachChannelReady).            *)
THEOREM TheSecretsRevoke == Spec => []GivenSecretsRevoke
<1>1. IInv => GivenSecretsRevoke
  BY RevocationKeysMatch DEF IInv, KeysInv, GivenSecretsRevoke, RevocationKey
<1> QED
  BY <1>1, Invariance, PTL

-----------------------------------------------------------------------------
(* Induction, of a set of numbers. *)
LEMMA Induct ==
  ASSUME NEW S, 0 \in S, \A n \in Nat : n \in S => n + 1 \in S
  PROVE  \A n \in Nat : n \in S
<1> SUFFICES ASSUME NEW n \in Nat, n \notin S PROVE FALSE
  OBVIOUS
<1> DEFINE T == {k \in Nat : k \notin S}
<1>1. Min(T) \in T /\ \A y \in T : Min(T) <= y
  <2>1. T \subseteq Nat /\ T # {}
    OBVIOUS
  <2> QED
    BY <2>1, Least
<1>2. PICK m \in T : \A y \in T : m <= y
  BY <1>1
<1>3. m \in Nat /\ m \notin S /\ m # 0
  BY <1>2
<1>4. m - 1 \in Nat /\ ~(m <= m - 1) /\ m - 1 + 1 = m
  BY <1>3
<1>5. m - 1 \in S
  BY <1>2, <1>4
<1> QED
  BY <1>3, <1>4, <1>5

(* The powers of two. *)
LEMMA PowersExist ==
  \E f : f = [b \in 0 .. Bits |-> IF b = 0 THEN 1 ELSE 2 * f[b - 1]]
<1> DEFINE S == {n \in Nat : \E f : f = [b \in 0 .. n |-> IF b = 0 THEN 1 ELSE 2 * f[b - 1]]}
<1>1. 0 \in S
  <2> DEFINE f == [b \in 0 .. 0 |-> 1]
  <2>1. f = [b \in 0 .. 0 |-> IF b = 0 THEN 1 ELSE 2 * f[b - 1]]
    OBVIOUS
  <2> QED
    BY <2>1
<1>2. \A n \in Nat : n \in S => n + 1 \in S
  <2> SUFFICES ASSUME NEW n \in Nat, n \in S PROVE n + 1 \in S
    OBVIOUS
  <2>1. PICK f : f = [b \in 0 .. n |-> IF b = 0 THEN 1 ELSE 2 * f[b - 1]]
    OBVIOUS
  <2>2. PICK g : g = [b \in 0 .. n + 1 |-> IF b = n + 1 THEN 2 * f[n] ELSE f[b]]
    OBVIOUS
  <2>3. g = [b \in 0 .. n + 1 |-> IF b = 0 THEN 1 ELSE 2 * g[b - 1]]
    <3>1. \A b \in 0 .. n + 1 : g[b] = IF b = 0 THEN 1 ELSE 2 * g[b - 1]
      <4> SUFFICES ASSUME NEW b \in 0 .. n + 1
                   PROVE  g[b] = IF b = 0 THEN 1 ELSE 2 * g[b - 1]
        OBVIOUS
      <4>1. CASE b = n + 1
        <5>1. b # 0 /\ b - 1 = n /\ n \in 0 .. n + 1 /\ n # n + 1
          BY <4>1
        <5> QED
          BY <2>2, <4>1, <5>1
      <4>2. CASE b # n + 1
        <5>1. b \in 0 .. n /\ (b # 0 => b - 1 \in 0 .. n + 1 /\ b - 1 # n + 1)
          BY <4>2
        <5>2. f[b] = IF b = 0 THEN 1 ELSE 2 * f[b - 1]
          BY <2>1, <5>1
        <5> QED
          BY <2>2, <4>2, <5>1, <5>2
      <4> QED
        BY <4>1, <4>2
    <3> QED
      BY <2>2, <3>1
  <2> QED
    BY <2>3
<1>3. Bits \in S
  <2> HIDE DEF S
  <2> QED
    BY <1>1, <1>2, Induct, BitsAssumption
<1> QED
  BY <1>3

(* They are what their definition says: some function is. *)
LEMMA PowersRecur == Pow2 = [b \in 0 .. Bits |-> IF b = 0 THEN 1 ELSE 2 * Pow2[b - 1]]
<1> DEFINE P(f) == f = [b \in 0 .. Bits |-> IF b = 0 THEN 1 ELSE 2 * f[b - 1]]
           c == CHOOSE f : P(f)
<1>1. P(c)
  BY PowersExist, Zenon
<1>2. Pow2 = c
  BY Zenon DEF Pow2
<1> QED
  BY <1>1, <1>2, Zenon

(* Each is twice the last, and positive. *)
LEMMA Powers ==
  /\ Pow2[0] = 1
  /\ \A b \in 0 .. Bits - 1 : Pow2[b + 1] = 2 * Pow2[b]
  /\ \A b \in 0 .. Bits : Pow2[b] \in Nat /\ Pow2[b] >= 1
<1>1. \A b \in 0 .. Bits : Pow2[b] = IF b = 0 THEN 1 ELSE 2 * Pow2[b - 1]
  BY PowersRecur
<1>2. Pow2[0] = 1
  BY <1>1, BitsAssumption
<1>3. \A b \in 0 .. Bits - 1 : Pow2[b + 1] = 2 * Pow2[b]
  <2> SUFFICES ASSUME NEW b \in 0 .. Bits - 1 PROVE Pow2[b + 1] = 2 * Pow2[b]
    OBVIOUS
  <2>1. b + 1 \in 0 .. Bits /\ b + 1 # 0 /\ b + 1 - 1 = b
    BY BitsAssumption
  <2> QED
    BY <1>1, <2>1
<1>4. \A b \in 0 .. Bits : Pow2[b] \in Nat /\ Pow2[b] >= 1
  <2> DEFINE S == {n \in Nat : n <= Bits => Pow2[n] \in Nat /\ Pow2[n] >= 1}
  <2>1. 0 \in S
    BY <1>2
  <2>2. \A n \in Nat : n \in S => n + 1 \in S
    <3> SUFFICES ASSUME NEW n \in Nat, n \in S, n + 1 <= Bits
                 PROVE  Pow2[n + 1] \in Nat /\ Pow2[n + 1] >= 1
      OBVIOUS
    <3>1. n \in 0 .. Bits - 1 /\ n <= Bits
      BY BitsAssumption
    <3> QED
      BY <1>3, <3>1
  <2>3. \A n \in Nat : n \in S
    <3> HIDE DEF S
    <3> QED
      BY <2>1, <2>2, Induct
  <2> QED
    BY <2>3, BitsAssumption
<1> QED
  BY <1>2, <1>3, <1>4

(* Division by a number that does not vary. *)
LEMMA Quotient ==
  ASSUME NEW p \in Nat, p >= 1, NEW q \in Nat, NEW r \in 0 .. p - 1
  PROVE  (p * q + r) \div p = q
OBVIOUS

(* Every number has a quotient and a rest. *)
LEMMA QuotientExists ==
  ASSUME NEW p \in Nat, p >= 1, NEW i \in Nat
  PROVE  \E q \in Nat, r \in 0 .. p - 1 : i = p * q + r /\ i \div p = q
<1>1. i = p * (i \div p) + (i % p) /\ i % p \in 0 .. p - 1
  OBVIOUS
<1>2. i \div p \in Nat
  OBVIOUS
<1> QED
  BY <1>1, <1>2

(* The next power of two halves the quotient. *)
LEMMA Halving ==
  ASSUME NEW i \in Nat, NEW a \in 0 .. Bits - 1
  PROVE  i \div Pow2[a + 1] = (i \div Pow2[a]) \div 2
<1>1. PICK p \in Nat : p = Pow2[a] /\ p >= 1 /\ Pow2[a + 1] = 2 * p
  BY Powers, BitsAssumption
<1>2. PICK q \in Nat, r \in 0 .. p - 1 : i = p * q + r /\ i \div p = q
  BY <1>1, QuotientExists
<1>3. PICK h \in Nat, e \in 0 .. 1 : q = 2 * h + e /\ q \div 2 = h
  <2>1. q = 2 * (q \div 2) + (q % 2) /\ q % 2 \in 0 .. 1 /\ q \div 2 \in Nat
    OBVIOUS
  <2> QED
    BY <2>1
<1>4. p * q = (2 * p) * h + p * e
  BY <1>3
<1>5. p * e + r \in 0 .. 2 * p - 1
  <2>1. CASE e = 0
    BY <2>1, <1>1
  <2>2. CASE e = 1
    BY <2>2, <1>1
  <2> QED
    BY <2>1, <2>2
<1>6. i = (2 * p) * h + (p * e + r)
  BY <1>2, <1>4, <1>5
<1>7. i \div (2 * p) = h
  BY <1>1, <1>5, <1>6, Quotient
<1> QED
  BY <1>1, <1>2, <1>3, <1>7

(* The bits below b are clear in the multiples of its power. *)
LEMMA ClearBits ==
  ASSUME NEW i \in Nat, NEW b \in 0 .. Bits
  PROVE  (\A a \in 0 .. b - 1 : ~HasBit(i, a)) <=> \E q \in Nat : i = Pow2[b] * q
<1> DEFINE Clear(n) == \A a \in 0 .. n - 1 : ~HasBit(i, a)
           Multiple(n) == \E q \in Nat : i = Pow2[n] * q
           S == {n \in Nat : n <= Bits => (Clear(n) <=> Multiple(n))}
<1>1. 0 \in S
  <2>1. Pow2[0] * i = i
    BY Powers
  <2> QED
    BY <2>1
<1>2. \A n \in Nat : n \in S => n + 1 \in S
  <2> SUFFICES ASSUME NEW n \in Nat, n \in S, n + 1 <= Bits
               PROVE  Clear(n + 1) <=> Multiple(n + 1)
    OBVIOUS
  <2>1. n \in 0 .. Bits - 1 /\ n <= Bits
    BY BitsAssumption
  <2>2. PICK p \in Nat : p = Pow2[n] /\ p >= 1 /\ Pow2[n + 1] = 2 * p
    BY <2>1, Powers
  <2>3. Clear(n) <=> Multiple(n)
    BY <2>1
  <2>4. Clear(n + 1) <=> Clear(n) /\ ~HasBit(i, n)
    <3>1. 0 .. n + 1 - 1 = (0 .. n - 1) \cup {n}
      OBVIOUS
    <3> QED
      BY <3>1
  <2>5. ASSUME Clear(n), ~HasBit(i, n) PROVE Multiple(n + 1)
    <3>1. PICK q \in Nat : i = p * q
      BY <2>2, <2>3, <2>5
    <3>2. i = p * q + 0 /\ 0 \in 0 .. p - 1
      BY <2>2, <3>1
    <3>3. i \div p = q
      BY <2>2, <3>2, Quotient
    <3>4. q % 2 # 1
      BY <2>2, <2>5, <3>3 DEF HasBit
    <3>5. q = 2 * (q \div 2) /\ q \div 2 \in Nat
      BY <3>4
    <3>6. PICK h \in Nat : q = 2 * h
      BY <3>5
    <3>7. i = (2 * p) * h
      BY <3>1, <3>6
    <3> QED
      BY <2>2, <3>7
  <2>6. ASSUME Multiple(n + 1) PROVE Clear(n) /\ ~HasBit(i, n)
    <3>1. PICK h \in Nat : i = (2 * p) * h
      BY <2>2, <2>6
    <3>2. i = p * (2 * h) /\ i = p * (2 * h) + 0 /\ 2 * h \in Nat /\ 0 \in 0 .. p - 1
      BY <2>2, <3>1
    <3>3. i \div p = 2 * h
      BY <2>2, <3>2, Quotient
    <3>4. (2 * h) % 2 # 1
      OBVIOUS
    <3>5. Multiple(n)
      BY <2>2, <3>2
    <3> QED
      BY <2>2, <2>3, <3>3, <3>4, <3>5 DEF HasBit
  <2> QED
    <3> HIDE DEF Clear, Multiple
    <3> QED
      BY <2>4, <2>5, <2>6
<1>3. \A n \in Nat : n \in S
  <2> HIDE DEF S
  <2> QED
    BY <1>1, <1>2, Induct
<1> QED
  BY <1>3, BitsAssumption

(* The slot of an index is its lowest bit. *)
LEMMA Slot ==
  ASSUME NEW i \in 1 .. MAX_COMMITMENT_NUMBER
  PROVE  /\ calcIndex(i) \in 0 .. Bits - 1
         /\ \A a \in 0 .. calcIndex(i) - 1 : ~HasBit(i, a)
         /\ \E h \in Nat : i = Pow2[calcIndex(i)] * (2 * h + 1)
<1>0. i \in Nat /\ i < Pow2[Bits] /\ Bits \in 0 .. Bits /\ Pow2[Bits] \in Nat
  BY Powers, BitsAssumption DEF MAX_COMMITMENT_NUMBER
<1> DEFINE T == {b \in 0 .. Bits - 1 : HasBit(i, b)}
<1>1. T # {}
  <2> SUFFICES ASSUME \A b \in 0 .. Bits - 1 : ~HasBit(i, b) PROVE FALSE
    OBVIOUS
  <2>1. PICK q \in Nat : i = Pow2[Bits] * q
    BY <1>0, ClearBits
  <2>2. PICK p \in Nat : p = Pow2[Bits] /\ p >= 1
    BY <1>0, Powers
  <2>3. CASE q = 0
    BY <2>1, <2>2, <2>3
  <2>4. CASE q >= 1
    <3>1. p * q >= p
      BY <2>2, <2>4
    <3> QED
      BY <1>0, <2>1, <2>2, <3>1
  <2> QED
    BY <2>3, <2>4
<1>2. PICK m \in T : \A b \in T : m <= b
  <2>1. T \subseteq Nat
    BY BitsAssumption
  <2> QED
    BY <1>1, <2>1, Least
<1>3. HasBit(i, m) /\ \A a \in 0 .. m - 1 : ~HasBit(i, a)
  <2> SUFFICES ASSUME NEW a \in 0 .. m - 1 PROVE ~HasBit(i, a)
    BY <1>2
  <2>1. a \in 0 .. Bits - 1 /\ ~(m <= a)
    BY <1>2, BitsAssumption
  <2> QED
    BY <1>2, <2>1
<1> DEFINE Fits(b) == HasBit(i, b) /\ \A a \in 0 .. b - 1 : ~HasBit(i, a)
           c == CHOOSE b \in 0 .. Bits - 1 : Fits(b)
<1>4. c \in 0 .. Bits - 1 /\ Fits(c)
  <2>1. m \in 0 .. Bits - 1 /\ Fits(m)
    BY <1>2, <1>3
  <2> HIDE DEF Fits
  <2> QED
    BY <2>1
<1>5. calcIndex(i) = c
  <2>1. i # 0
    OBVIOUS
  <2> QED
    BY <2>1, Zenon DEF calcIndex, LowestBit
<1> HIDE DEF c
<1>6. PICK q \in Nat : i = Pow2[c] * q
  BY <1>0, <1>4, ClearBits, BitsAssumption
<1>7. PICK p \in Nat : p = Pow2[c] /\ p >= 1
  BY <1>4, Powers, BitsAssumption
<1>8. i \div p = q
  <2>1. i = p * q + 0 /\ 0 \in 0 .. p - 1
    BY <1>6, <1>7
  <2> QED
    BY <1>7, <2>1, Quotient
<1>9. q % 2 = 1
  BY <1>4, <1>7, <1>8 DEF HasBit
<1>10. q = 2 * (q \div 2) + 1 /\ q \div 2 \in Nat
  BY <1>9
<1>11. \E h \in Nat : i = Pow2[c] * (2 * h + 1)
  BY <1>6, <1>10
<1> QED
  BY <1>4, <1>5, <1>11

(* A lowest bit is the only one. *)
LEMMA SlotOf ==
  ASSUME NEW i \in 1 .. MAX_COMMITMENT_NUMBER, NEW b \in 0 .. Bits - 1, NEW h \in Nat,
         i = Pow2[b] * (2 * h + 1)
  PROVE  calcIndex(i) = b
<1>0. i \in Nat /\ Bits \in Nat
  BY Powers, BitsAssumption DEF MAX_COMMITMENT_NUMBER
<1>1. PICK p \in Nat : p = Pow2[b] /\ p >= 1
  BY Powers, BitsAssumption
<1>2. HasBit(i, b)
  <2>1. 2 * h + 1 \in Nat /\ i = p * (2 * h + 1) + 0 /\ 0 \in 0 .. p - 1
    BY <1>1
  <2>2. i \div p = 2 * h + 1
    BY <1>1, <2>1, Quotient
  <2>3. (2 * h + 1) % 2 = 1
    OBVIOUS
  <2> QED
    BY <1>1, <2>2, <2>3 DEF HasBit
<1>3. \A a \in 0 .. b - 1 : ~HasBit(i, a)
  <2>1. 2 * h + 1 \in Nat /\ b \in 0 .. Bits
    BY <1>0
  <2> QED
    BY <1>0, <2>1, ClearBits
<1>4. PICK c : c = calcIndex(i)
  OBVIOUS
<1>5. /\ c \in 0 .. Bits - 1 /\ \A a \in 0 .. c - 1 : ~HasBit(i, a)
      /\ \E k \in Nat : i = Pow2[c] * (2 * k + 1)
  BY <1>4, Slot
<1>6. HasBit(i, c)
  <2>1. PICK k \in Nat : i = Pow2[c] * (2 * k + 1)
    BY <1>5
  <2>2. PICK d \in Nat : d = Pow2[c] /\ d >= 1
    BY <1>0, <1>5, Powers
  <2>3. 2 * k + 1 \in Nat /\ i = d * (2 * k + 1) + 0 /\ 0 \in 0 .. d - 1
    BY <2>1, <2>2
  <2>4. i \div d = 2 * k + 1
    BY <2>2, <2>3, Quotient
  <2>5. (2 * k + 1) % 2 = 1
    OBVIOUS
  <2> QED
    BY <2>2, <2>4, <2>5 DEF HasBit
<1>7. ~(c < b) /\ ~(b < c)
  <2>1. c < b => c \in 0 .. b - 1
    BY <1>0, <1>5
  <2>2. b < c => b \in 0 .. c - 1
    BY <1>0, <1>5
  <2> QED
    BY <1>2, <1>3, <1>5, <1>6, <2>1, <2>2
<1> QED
  BY <1>0, <1>4, <1>5, <1>7

(* What is added below b leaves the bits from b on alone. *)
LEMMA SameBits ==
  ASSUME NEW b \in 0 .. Bits, NEW q \in Nat, NEW s \in 0 .. Pow2[b] - 1
  PROVE  \A a \in b .. Bits - 1 : HasBit(Pow2[b] * q + s, a) <=> HasBit(Pow2[b] * q, a)
<1>1. PICK p \in Nat : p = Pow2[b] /\ p >= 1
  BY Powers
<1>2. PICK i \in Nat : i = p * q + s
  BY <1>1
<1>3. PICK x \in Nat : x = p * q
  BY <1>1
<1> DEFINE S == {n \in Nat : b + n <= Bits => i \div Pow2[b + n] = x \div Pow2[b + n]}
<1>4. 0 \in S
  <2>1. i \div p = q
    BY <1>1, <1>2, Quotient
  <2>2. x = p * q + 0 /\ 0 \in 0 .. p - 1
    BY <1>1, <1>3
  <2>3. x \div p = q
    BY <1>1, <2>2, Quotient
  <2>4. b + 0 = b
    BY BitsAssumption
  <2> QED
    BY <1>1, <2>1, <2>3, <2>4
<1>5. \A n \in Nat : n \in S => n + 1 \in S
  <2> SUFFICES ASSUME NEW n \in Nat, n \in S, b + (n + 1) <= Bits
               PROVE  i \div Pow2[b + (n + 1)] = x \div Pow2[b + (n + 1)]
    OBVIOUS
  <2>1. b + n \in 0 .. Bits - 1 /\ b + (n + 1) = b + n + 1 /\ b + n <= Bits
    BY BitsAssumption
  <2>2. i \div Pow2[b + n] = x \div Pow2[b + n]
    BY <2>1
  <2> QED
    BY <2>1, <2>2, Halving
<1>6. \A n \in Nat : n \in S
  <2> HIDE DEF S
  <2> QED
    BY <1>4, <1>5, Induct
<1>7. \A a \in b .. Bits - 1 : i \div Pow2[a] = x \div Pow2[a]
  <2> SUFFICES ASSUME NEW a \in b .. Bits - 1 PROVE i \div Pow2[a] = x \div Pow2[a]
    OBVIOUS
  <2>1. a - b \in Nat /\ b + (a - b) = a /\ a <= Bits
    BY BitsAssumption
  <2>2. a - b \in S
    BY <1>6, <2>1
  <2> QED
    BY <2>1, <2>2
<1>8. \A a \in b .. Bits - 1 : HasBit(i, a) <=> HasBit(x, a)
  BY <1>7 DEF HasBit
<1> QED
  BY <1>1, <1>2, <1>3, <1>8

(* How a secret is derived: one step for each bit. *)
Step(i, b, s) == IF HasBit(i, b) THEN FlipAndHash(s, b) ELSE s
Along(p, i, lo, hi) == \A b \in lo .. hi - 1 : p[b] = Step(i, b, p[b + 1])
Walks(p, seed, i, bits) == p[bits] = seed /\ Along(p, i, 0, bits)

NoBits(i, lo, hi) == \A b \in lo .. hi - 1 : ~HasBit(i, b)
SameFrom(i, j, lo, hi) == \A b \in lo .. hi - 1 : HasBit(i, b) <=> HasBit(j, b)

IsWalk(p, seed, i, bits) ==
    p = [b \in 0 .. bits |-> IF b = bits THEN seed ELSE Step(i, b, p[b + 1])]

(* Some function is such a derivation. *)
LEMMA WalkExists == ASSUME NEW seed, NEW i, NEW bits \in Nat PROVE \E p : IsWalk(p, seed, i, bits)
<1> DEFINE From(n) == \E p : p = [b \in bits - n .. bits |->
                                    IF b = bits THEN seed ELSE Step(i, b, p[b + 1])]
           S == {n \in Nat : n <= bits => From(n)}
<1>1. 0 \in S
  <2> DEFINE p == [b \in bits .. bits |-> seed]
  <2>1. p = [b \in bits .. bits |-> IF b = bits THEN seed ELSE Step(i, b, p[b + 1])]
    OBVIOUS
  <2>2. bits - 0 = bits
    OBVIOUS
  <2> HIDE DEF p
  <2> QED
    BY <2>1, <2>2
<1>2. \A n \in Nat : n \in S => n + 1 \in S
  <2> SUFFICES ASSUME NEW n \in Nat, n \in S, n + 1 <= bits PROVE From(n + 1)
    OBVIOUS
  <2>1. PICK lo \in Nat : lo = bits - (n + 1) /\ bits - n = lo + 1 /\ lo < bits
    OBVIOUS
  <2>2. PICK p : p = [b \in lo + 1 .. bits |-> IF b = bits THEN seed ELSE Step(i, b, p[b + 1])]
    BY <2>1
  <2>3. PICK r : r = [b \in lo .. bits |-> IF b = lo THEN Step(i, lo, p[lo + 1]) ELSE p[b]]
    OBVIOUS
  <2>4. \A b \in lo .. bits : r[b] = IF b = bits THEN seed ELSE Step(i, b, r[b + 1])
    <3> SUFFICES ASSUME NEW b \in lo .. bits
                 PROVE  r[b] = IF b = bits THEN seed ELSE Step(i, b, r[b + 1])
      OBVIOUS
    <3>1. CASE b = lo
      <4>1. lo + 1 \in lo .. bits /\ lo + 1 # lo /\ lo # bits
        BY <2>1
      <4>2. r[lo + 1] = p[lo + 1] /\ r[lo] = Step(i, lo, p[lo + 1])
        BY <2>1, <2>3, <4>1
      <4> QED
        BY <3>1, <4>1, <4>2
    <3>2. CASE b # lo
      <4>1. b \in lo + 1 .. bits /\ (b # bits => b + 1 \in lo .. bits /\ b + 1 # lo)
        BY <2>1, <3>2
      <4>2. r[b] = p[b] /\ (b # bits => r[b + 1] = p[b + 1])
        BY <2>3, <3>2, <4>1
      <4>3. p[b] = IF b = bits THEN seed ELSE Step(i, b, p[b + 1])
        BY <2>2, <4>1
      <4> QED
        BY <4>2, <4>3
    <3> QED
      BY <3>1, <3>2
  <2>5. r = [b \in lo .. bits |-> IF b = bits THEN seed ELSE Step(i, b, r[b + 1])]
    BY <2>3, <2>4
  <2> QED
    BY <2>1, <2>5
<1>3. bits \in S
  <2> HIDE DEF S
  <2> QED
    BY <1>1, <1>2, Induct
<1>4. bits - bits = 0
  OBVIOUS
<1> QED
  BY <1>3, <1>4 DEF IsWalk

(* derive ends where it does. *)
LEMMA Derivation ==
  ASSUME NEW seed, NEW i, NEW bits \in Nat
  PROVE  \E p : Walks(p, seed, i, bits) /\ derive(seed, i, bits) = p[0]
<1> DEFINE c == CHOOSE p : IsWalk(p, seed, i, bits)
<1>1. IsWalk(c, seed, i, bits)
  <2>1. \E p : IsWalk(p, seed, i, bits)
    BY WalkExists
  <2> QED
    BY <2>1, Zenon
<1>2. derive(seed, i, bits) = c[0]
  BY Zenon DEF derive, Step, IsWalk
<1>3. PICK p : IsWalk(p, seed, i, bits) /\ derive(seed, i, bits) = p[0]
  BY <1>1, <1>2, Zenon
<1>4. Walks(p, seed, i, bits)
  <2>1. \A b \in 0 .. bits : p[b] = IF b = bits THEN seed ELSE Step(i, b, p[b + 1])
    BY <1>3 DEF IsWalk
  <2>2. \A b \in 0 .. bits - 1 : b \in 0 .. bits /\ b # bits
    OBVIOUS
  <2> QED
    BY <2>1, <2>2 DEF Walks, Along
<1> QED
  BY <1>3, <1>4

(* Two derivations that meet and see the same bits end alike. *)
LEMMA WalksMeet ==
  ASSUME NEW p, NEW r, NEW i, NEW j, NEW lo \in Nat, NEW hi \in Nat, lo <= hi,
         Along(p, i, lo, hi), Along(r, j, lo, hi), SameFrom(i, j, lo, hi), p[hi] = r[hi]
  PROVE  p[lo] = r[lo]
<1> DEFINE S == {n \in Nat : n <= hi - lo => p[hi - n] = r[hi - n]}
<1>1. 0 \in S
  OBVIOUS
<1>2. \A n \in Nat : n \in S => n + 1 \in S
  <2> SUFFICES ASSUME NEW n \in Nat, n \in S, n + 1 <= hi - lo
               PROVE  p[hi - (n + 1)] = r[hi - (n + 1)]
    OBVIOUS
  <2>1. PICK b \in lo .. hi - 1 : b = hi - (n + 1) /\ b + 1 = hi - n
    OBVIOUS
  <2>2. p[b + 1] = r[b + 1]
    BY <2>1
  <2>3. Step(i, b, p[b + 1]) = Step(j, b, r[b + 1])
    BY <2>2 DEF Step, SameFrom
  <2> QED
    BY <2>1, <2>3 DEF Along
<1>3. hi - lo \in S
  <2> HIDE DEF S
  <2> QED
    BY <1>1, <1>2, Induct
<1> QED
  BY <1>3

(* Without bits a derivation rests. *)
LEMMA WalkRests ==
  ASSUME NEW p, NEW i, NEW lo \in Nat, NEW hi \in Nat, lo <= hi,
         Along(p, i, lo, hi), NoBits(i, lo, hi)
  PROVE  p[lo] = p[hi]
<1> DEFINE S == {n \in Nat : n <= hi - lo => p[hi - n] = p[hi]}
<1>1. 0 \in S
  OBVIOUS
<1>2. \A n \in Nat : n \in S => n + 1 \in S
  <2> SUFFICES ASSUME NEW n \in Nat, n \in S, n + 1 <= hi - lo PROVE p[hi - (n + 1)] = p[hi]
    OBVIOUS
  <2>1. PICK b \in lo .. hi - 1 : b = hi - (n + 1) /\ b + 1 = hi - n
    OBVIOUS
  <2>2. p[b + 1] = p[hi]
    BY <2>1
  <2> QED
    BY <2>1, <2>2 DEF Step, Along, NoBits
<1>3. hi - lo \in S
  <2> HIDE DEF S
  <2> QED
    BY <1>1, <1>2, Induct
<1> QED
  BY <1>3

(* What has no bits is its own prefix... *)
LEMMA DeriveSelf ==
  ASSUME NEW seed, NEW i, NEW bits \in Nat, NoBits(i, 0, bits)
  PROVE  derive(seed, i, bits) = seed
<1>1. PICK p : Walks(p, seed, i, bits) /\ derive(seed, i, bits) = p[0]
  BY Derivation
<1>2. p[0] = p[bits]
  <2>1. 0 \in Nat /\ 0 <= bits /\ Along(p, i, 0, bits)
    BY <1>1 DEF Walks
  <2> QED
    BY <2>1, WalkRests
<1> QED
  BY <1>1, <1>2 DEF Walks

(* ... and a derivation may stop at a prefix and go on from there. *)
LEMMA DeriveThrough ==
  ASSUME NEW seed, NEW i, NEW x, NEW hi \in Nat, NEW lo \in 0 .. hi,
         SameFrom(i, x, lo, hi), NoBits(x, 0, lo)
  PROVE  derive(seed, i, hi) = derive(derive(seed, x, hi), i, lo)
<1>1. PICK p : Walks(p, seed, i, hi) /\ derive(seed, i, hi) = p[0]
  BY Derivation
<1>2. PICK r : Walks(r, seed, x, hi) /\ derive(seed, x, hi) = r[0]
  BY Derivation
<1>3. lo \in Nat /\ lo <= hi /\ 0 \in Nat /\ 0 <= lo
  OBVIOUS
<1>4. PICK t : Walks(t, r[0], i, lo) /\ derive(r[0], i, lo) = t[0]
  BY <1>3, Derivation
<1>5. lo .. hi - 1 \subseteq 0 .. hi - 1 /\ 0 .. lo - 1 \subseteq 0 .. hi - 1
  OBVIOUS
<1>6. p[lo] = r[lo]
  <2>1. Along(p, i, lo, hi) /\ Along(r, x, lo, hi) /\ p[hi] = r[hi]
    BY <1>1, <1>2, <1>5 DEF Walks, Along
  <2> QED
    BY <1>3, <2>1, WalksMeet
<1>7. r[0] = r[lo]
  <2>1. Along(r, x, 0, lo)
    BY <1>2, <1>5 DEF Walks, Along
  <2> QED
    BY <1>3, <2>1, WalkRests
<1>8. p[0] = t[0]
  <2>1. Along(p, i, 0, lo) /\ Along(t, i, 0, lo) /\ p[lo] = t[lo]
    BY <1>1, <1>4, <1>5, <1>6, <1>7 DEF Walks, Along
  <2>2. SameFrom(i, i, 0, lo)
    BY DEF SameFrom
  <2> QED
    BY <1>3, <2>1, <2>2, WalksMeet
<1> QED
  BY <1>1, <1>2, <1>4, <1>8

(***************************************************************************)
(* What the store holds when the secrets of the indices from low on have   *)
(* been received, in gs from the highest index down: in each slot the      *)
(* lowest index received that belongs there, from whose secret all those   *)
(* behind it that share its higher bits can be derived.                    *)
(***************************************************************************)
SecretAt(gs, i) == gs[MAX_COMMITMENT_NUMBER - i + 1]

Empty(item, b, low) ==
    /\ item.secret = Undefined
    /\ \A i \in low .. MAX_COMMITMENT_NUMBER : calcIndex(i) # b

Filled(item, b, low, gs) ==
    /\ item.secret # Undefined
    /\ item.index \in low .. MAX_COMMITMENT_NUMBER /\ calcIndex(item.index) = b
    /\ \A i \in low .. item.index - 1 : calcIndex(i) # b
    /\ \A j \in item.index .. MAX_COMMITMENT_NUMBER :
            j < item.index + Pow2[b] => derive(item.secret, j, b) = SecretAt(gs, j)

HoldsFrom(st, low, gs) ==
    /\ DOMAIN st = 0 .. Bits /\ st[Bits].secret = Undefined
    /\ \A b \in 0 .. Bits - 1 : Empty(st[b], b, low) \/ Filled(st[b], b, low, gs)

(* The bounds that every step needs. *)
LEMMA Numbers ==
  /\ Bits \in Nat /\ Bits >= 1 /\ Pow2[Bits] = MAX_COMMITMENT_NUMBER + 1
  /\ MAX_COMMITMENT_NUMBER \in Nat
  /\ \A b \in 0 .. Bits - 1 : b \in 0 .. Bits /\ b \in Nat
BY Powers, BitsAssumption DEF MAX_COMMITMENT_NUMBER

(* Every index received is behind the one in some slot. *)
LEMMA Covered ==
  ASSUME NEW st, NEW gs, NEW low \in 1 .. MAX_COMMITMENT_NUMBER + 1, HoldsFrom(st, low, gs),
         NEW j \in low .. MAX_COMMITMENT_NUMBER
  PROVE  \E b \in 0 .. Bits - 1 : Filled(st[b], b, low, gs) /\ st[b].index = (j \div Pow2[b]) * Pow2[b]
<1>0. j \in Nat /\ low \in Nat /\ j < Pow2[Bits]
  BY Numbers
<1> DEFINE T == {b \in 0 .. Bits : (j \div Pow2[b]) * Pow2[b] < low}
<1>1. Bits \in T
  <2>1. PICK p \in Nat : p = Pow2[Bits] /\ p >= 1
    BY Numbers
  <2>2. j = p * 0 + j /\ j \in 0 .. p - 1
    BY <1>0, <2>1
  <2>3. j \div p = 0
    BY <2>1, <2>2, Quotient
  <2> QED
    BY <2>1, <2>3, Numbers
<1>2. 0 \notin T
  <2>1. Pow2[0] = 1 /\ j \div 1 = j
    BY <1>0, Powers
  <2> QED
    BY <1>0, <2>1
<1>3. PICK m \in T : \A b \in T : m <= b
  <2>1. T \subseteq Nat /\ T # {}
    BY <1>1
  <2> QED
    BY <2>1, Least
<1>4. PICK b \in 0 .. Bits - 1 : m = b + 1
  <2>1. m # 0 /\ m \in 0 .. Bits
    BY <1>2, <1>3
  <2>2. m - 1 \in 0 .. Bits - 1 /\ m = m - 1 + 1
    BY <2>1, Numbers
  <2> QED
    BY <2>2
<1>5. PICK p \in Nat : p = Pow2[b] /\ p >= 1 /\ Pow2[b + 1] = 2 * p
  BY Powers, Numbers
<1>6. PICK q \in Nat, r \in 0 .. p - 1 : j = p * q + r /\ j \div p = q
  BY <1>0, <1>5, QuotientExists
<1>7. ~(q * p < low)
  <2>1. b \in 0 .. Bits /\ ~(m <= b)
    BY <1>4, Numbers
  <2>2. b \notin T
    BY <1>3, <2>1
  <2> QED
    BY <1>5, <1>6, <2>1, <2>2
<1>8. (q \div 2) * (2 * p) < low
  <2>1. j \div Pow2[b + 1] = q \div 2
    BY <1>0, <1>5, <1>6, Halving
  <2> QED
    BY <1>3, <1>4, <1>5, <2>1
<1>9. PICK h \in Nat : q = 2 * h + 1 /\ q \div 2 = h
  <2>1. PICK k \in Nat, e \in 0 .. 1 : q = 2 * k + e /\ q \div 2 = k
    <3>1. q = 2 * (q \div 2) + (q % 2) /\ q % 2 \in 0 .. 1 /\ q \div 2 \in Nat
      OBVIOUS
    <3> QED
      BY <3>1
  <2>2. CASE e = 0
    <3>1. q * p = k * (2 * p)
      BY <2>1, <2>2
    <3> QED
      BY <1>7, <1>8, <2>1, <3>1
  <2>3. CASE e = 1
    BY <2>1, <2>3
  <2> QED
    BY <2>2, <2>3
<1>10. PICK x \in Nat : x = p * q /\ x = q * p /\ x <= j /\ low <= x /\ j < x + p
  <2>1. p * q \in Nat /\ p * q = q * p
    OBVIOUS
  <2> QED
    BY <1>0, <1>6, <1>7, <2>1
<1>11. x \in 1 .. MAX_COMMITMENT_NUMBER /\ x \in low .. MAX_COMMITMENT_NUMBER
  BY <1>10, Numbers
<1>12. calcIndex(x) = b
  BY <1>5, <1>9, <1>10, <1>11, SlotOf
<1>13. Filled(st[b], b, low, gs)
  <2>1. ~Empty(st[b], b, low)
    BY <1>11, <1>12 DEF Empty
  <2> QED
    BY <2>1 DEF HoldsFrom
<1>14. PICK y : y = st[b].index
  OBVIOUS
<1>15. /\ y \in low .. MAX_COMMITMENT_NUMBER /\ calcIndex(y) = b
       /\ \A i \in low .. y - 1 : calcIndex(i) # b
  BY <1>13, <1>14 DEF Filled
<1>16. ~(x < y)
  <2>1. x < y => x \in low .. y - 1
    BY <1>10, <1>11, <1>15, Numbers
  <2> QED
    BY <1>12, <1>15, <2>1
<1>17. ~(y < x)
  <2> SUFFICES ASSUME y < x PROVE FALSE
    OBVIOUS
  <2>1. y \in 1 .. MAX_COMMITMENT_NUMBER /\ y \in Nat
    BY <1>15, Numbers
  <2>2. PICK k \in Nat : y = p * (2 * k + 1)
    BY <1>5, <1>15, <2>1, Slot
  <2>3. x = p * (2 * h + 1)
    BY <1>9, <1>10
  <2>4. k < h
    <3> SUFFICES ASSUME h <= k PROVE FALSE
      OBVIOUS
    <3>1. PICK d \in Nat : k = h + d
      <4>1. k - h \in Nat /\ k = h + (k - h)
        OBVIOUS
      <4> QED
        BY <4>1
    <3>2. p * (2 * k + 1) = p * (2 * h + 1) + 2 * (p * d) /\ p * d \in Nat
      BY <3>1
    <3> QED
      BY <2>2, <2>3, <3>2
  <2>5. PICK d \in Nat : h = k + 1 + d
    <3>1. h - k - 1 \in Nat /\ h = k + 1 + (h - k - 1)
      BY <2>4
    <3> QED
      BY <3>1
  <2>6. h * (2 * p) = p * (2 * k + 1) + p + 2 * (p * d) /\ p * d \in Nat
    BY <2>5
  <2>7. h * (2 * p) < low
    BY <1>8, <1>9
  <2> QED
    BY <1>5, <1>15, <2>1, <2>2, <2>6, <2>7
<1>18. y = x
  BY <1>10, <1>15, <1>16, <1>17, Numbers
<1> QED
  BY <1>5, <1>6, <1>10, <1>13, <1>14, <1>18

(* What has been received comes out, and nothing else. *)
LEMMA Recovered ==
  ASSUME NEW st, NEW gs, NEW low \in 1 .. MAX_COMMITMENT_NUMBER + 1, HoldsFrom(st, low, gs),
         NEW j \in 0 .. MAX_COMMITMENT_NUMBER
  PROVE  recover(st, j) = IF j < low THEN NotReceived ELSE SecretAt(gs, j)
<1>0. j \in Nat /\ low \in Nat
  BY Numbers
<1> DEFINE fits == {b \in 0 .. Bits : (j \div Pow2[b]) * Pow2[b] = st[b].index
                                      /\ st[b].secret # Undefined}
<1>1. recover(st, j) = IF fits = {} THEN NotReceived
                       ELSE derive(st[Min(fits)].secret, j, Min(fits))
  BY Zenon DEF recover
<1>2. \A b \in fits : /\ b \in 0 .. Bits - 1 /\ Filled(st[b], b, low, gs)
                      /\ st[b].index <= j /\ j < st[b].index + Pow2[b]
  <2> SUFFICES ASSUME NEW b \in fits
               PROVE  /\ b \in 0 .. Bits - 1 /\ Filled(st[b], b, low, gs)
                      /\ st[b].index <= j /\ j < st[b].index + Pow2[b]
    OBVIOUS
  <2>1. b \in 0 .. Bits - 1
    <3>1. b # Bits
      BY DEF HoldsFrom
    <3> QED
      BY <3>1, Numbers
  <2>2. Filled(st[b], b, low, gs)
    BY <2>1 DEF HoldsFrom, Empty
  <2>3. PICK p \in Nat : p = Pow2[b] /\ p >= 1
    BY <2>1, Powers, Numbers
  <2>4. PICK q \in Nat, r \in 0 .. p - 1 : j = p * q + r /\ j \div p = q
    BY <1>0, <2>3, QuotientExists
  <2>5. st[b].index = q * p /\ q * p = p * q /\ p * q \in Nat
    BY <2>3, <2>4
  <2>6. p * q <= j /\ j < p * q + p
    BY <2>3, <2>4, <2>5
  <2> QED
    BY <2>1, <2>2, <2>3, <2>5, <2>6
<1>3. CASE j < low
  <2>1. fits = {}
    <3> SUFFICES ASSUME NEW b \in fits PROVE FALSE
      OBVIOUS
    <3>1. PICK y : y = st[b].index
      OBVIOUS
    <3>2. y \in low .. MAX_COMMITMENT_NUMBER /\ y <= j
      BY <1>2, <3>1 DEF Filled
    <3> QED
      BY <1>0, <1>3, <3>2, Numbers
  <2> QED
    BY <1>1, <1>3, <2>1
<1>4. CASE ~(j < low)
  <2>1. j \in low .. MAX_COMMITMENT_NUMBER
    BY <1>0, <1>4, Numbers
  <2>2. fits # {}
    <3>1. PICK b \in 0 .. Bits - 1 : /\ Filled(st[b], b, low, gs)
                                     /\ st[b].index = (j \div Pow2[b]) * Pow2[b]
      BY <2>1, Covered
    <3>2. b \in fits
      BY <3>1, Numbers DEF Filled
    <3> QED
      BY <3>2
  <2>3. PICK b \in fits : b = Min(fits)
    <3>1. fits \subseteq Nat
      BY Numbers
    <3> QED
      BY <2>2, <3>1, Least
  <2>4. Filled(st[b], b, low, gs) /\ st[b].index <= j /\ j < st[b].index + Pow2[b]
    BY <1>2
  <2>5. PICK y : y = st[b].index
    OBVIOUS
  <2>6. y \in low .. MAX_COMMITMENT_NUMBER
    BY <2>4, <2>5 DEF Filled
  <2>7. j \in y .. MAX_COMMITMENT_NUMBER
    BY <2>1, <2>4, <2>5, <2>6, Numbers
  <2>8. derive(st[b].secret, j, b) = SecretAt(gs, j)
    BY <2>4, <2>5, <2>7 DEF Filled
  <2> HIDE DEF fits
  <2> QED
    BY <1>1, <1>4, <2>2, <2>3, <2>8
<1> QED
  BY <1>3, <1>4

(* What insert accepts belongs to the secrets held below it. *)
LEMMA Inserted ==
  ASSUME NEW st, NEW gs, NEW i \in 1 .. MAX_COMMITMENT_NUMBER, HoldsFrom(st, i + 1, gs),
         NEW s, s = SecretAt(gs, i), s # Undefined, isDerivable(st, s, i)
  PROVE  HoldsFrom(insert(st, s, i), i, gs)
<1>0. i \in Nat /\ i + 1 \in 1 .. MAX_COMMITMENT_NUMBER + 1 /\ i <= MAX_COMMITMENT_NUMBER
  BY Numbers
<1>1. PICK c : c = calcIndex(i)
  OBVIOUS
<1>2. c \in 0 .. Bits - 1 /\ NoBits(i, 0, c)
  BY <1>1, Slot DEF NoBits
<1>3. PICK p \in Nat : p = Pow2[c] /\ p >= 1
  BY <1>2, Powers, Numbers
<1>4. PICK h \in Nat : i = p * (2 * h + 1)
  BY <1>1, <1>3, Slot
<1>5. /\ DOMAIN insert(st, s, i) = 0 .. Bits
      /\ insert(st, s, i)[c] = [index |-> i, secret |-> s]
      /\ \A b \in 0 .. Bits : b # c => insert(st, s, i)[b] = st[b]
  BY <1>1, <1>2, Numbers DEF insert, HoldsFrom
<1>6. \A j \in i .. MAX_COMMITMENT_NUMBER : j < i + p => derive(s, j, c) = SecretAt(gs, j)
  <2> SUFFICES ASSUME NEW j \in i .. MAX_COMMITMENT_NUMBER, j < i + p
               PROVE  derive(s, j, c) = SecretAt(gs, j)
    OBVIOUS
  <2>1. CASE j = i
    <3>1. c \in Nat
      BY <1>2, Numbers
    <3> QED
      BY <1>2, <2>1, <3>1, DeriveSelf
  <2>2. CASE j # i
    <3>1. j \in i + 1 .. MAX_COMMITMENT_NUMBER /\ j \in Nat
      BY <1>0, <2>2, Numbers
    <3>2. PICK b \in 0 .. Bits - 1 : /\ Filled(st[b], b, i + 1, gs)
                                     /\ st[b].index = (j \div Pow2[b]) * Pow2[b]
      BY <1>0, <3>1, Covered
    <3>3. PICK d \in Nat : d = Pow2[b] /\ d >= 1
      BY Powers, Numbers
    <3>4. PICK q \in Nat, r \in 0 .. d - 1 : j = d * q + r /\ j \div d = q
      BY <3>1, <3>3, QuotientExists
    <3>5. PICK x \in Nat : x = d * q /\ x = q * d
      OBVIOUS
    <3>6. x = st[b].index
      BY <3>2, <3>3, <3>4, <3>5
    <3>7. x \in i + 1 .. MAX_COMMITMENT_NUMBER /\ calcIndex(x) = b
      BY <3>2, <3>6 DEF Filled
    <3>8. x <= j /\ j < x + d /\ x < i + p /\ i < x
      BY <1>0, <3>1, <3>3, <3>4, <3>5, <3>7, Numbers
    <3>9. x \in 1 .. MAX_COMMITMENT_NUMBER
      BY <1>0, <3>7, Numbers
    <3>10. NoBits(x, 0, b)
      BY <3>7, <3>9, Slot DEF NoBits
    <3>11. b < c
      <4> SUFFICES ASSUME c <= b PROVE FALSE
        BY <1>2, Numbers
      <4>1. c \in 0 .. Bits /\ 0 .. c - 1 \subseteq 0 .. b - 1
        BY <1>2, Numbers
      <4>2. PICK m \in Nat : x = p * m
        BY <1>3, <3>10, <4>1, ClearBits DEF NoBits
      <4>3. 2 * h + 1 < m
        <5> SUFFICES ASSUME m <= 2 * h + 1 PROVE FALSE
          OBVIOUS
        <5>1. PICK e \in Nat : 2 * h + 1 = m + e
          <6>1. 2 * h + 1 - m \in Nat /\ 2 * h + 1 = m + (2 * h + 1 - m)
            OBVIOUS
          <6> QED
            BY <6>1
        <5>2. i = p * m + p * e /\ p * e \in Nat /\ p * m \in Nat
          BY <1>4, <5>1
        <5> QED
          BY <3>8, <4>2, <5>2
      <4>4. PICK e \in Nat : m = 2 * h + 1 + 1 + e
        <5>1. m - (2 * h + 1) - 1 \in Nat /\ m = 2 * h + 1 + 1 + (m - (2 * h + 1) - 1)
          BY <4>3
        <5> QED
          BY <5>1
      <4>5. x = p * (2 * h + 1) + p + p * e /\ p * e \in Nat
        BY <4>2, <4>4
      <4> QED
        BY <1>0, <1>4, <3>8, <4>5
    <3>12. b \in 0 .. c - 1 /\ b \in 0 .. c /\ c \in Nat /\ b \in 0 .. Bits /\ b \in Nat
      BY <1>2, <3>11, Numbers
    <3>13. st[b].secret = derive(s, x, c)
      BY <1>1, <3>6, <3>12 DEF isDerivable
    <3>14. derive(st[b].secret, j, b) = SecretAt(gs, j)
      <4>1. j \in x .. MAX_COMMITMENT_NUMBER
        BY <3>1, <3>8, Numbers
      <4> QED
        BY <3>2, <3>3, <3>6, <3>8, <4>1 DEF Filled
    <3>15. SameFrom(j, x, b, c)
      <4>1. \A a \in b .. Bits - 1 : HasBit(d * q + r, a) <=> HasBit(d * q, a)
        BY <3>3, <3>4, <3>12, SameBits
      <4>2. b .. c - 1 \subseteq b .. Bits - 1
        BY <1>2, <3>12, Numbers
      <4> QED
        BY <3>4, <3>5, <4>1, <4>2 DEF SameFrom
    <3>16. derive(s, j, c) = derive(derive(s, x, c), j, b)
      BY <3>10, <3>12, <3>15, DeriveThrough
    <3> QED
      BY <3>13, <3>14, <3>16
  <2> QED
    BY <2>1, <2>2
<1>7. Filled(insert(st, s, i)[c], c, i, gs)
  <2>1. i \in i .. MAX_COMMITMENT_NUMBER /\ i .. i - 1 = {}
    BY <1>0, Numbers
  <2> QED
    BY <1>1, <1>3, <1>5, <1>6, <2>1 DEF Filled
<1>8. ASSUME NEW b \in 0 .. Bits - 1, b # c
      PROVE  \/ Empty(insert(st, s, i)[b], b, i)
             \/ Filled(insert(st, s, i)[b], b, i, gs)
  <2>1. insert(st, s, i)[b] = st[b]
    BY <1>5, <1>8, Numbers
  <2>2. i .. MAX_COMMITMENT_NUMBER = {i} \cup (i + 1 .. MAX_COMMITMENT_NUMBER)
    BY <1>0, Numbers
  <2>3. CASE Empty(st[b], b, i + 1)
    BY <1>1, <1>8, <2>1, <2>2, <2>3 DEF Empty
  <2>4. CASE Filled(st[b], b, i + 1, gs)
    <3>1. PICK y : y = st[b].index
      OBVIOUS
    <3>2. y \in i + 1 .. MAX_COMMITMENT_NUMBER
      BY <2>4, <3>1 DEF Filled
    <3>3. i .. y - 1 \subseteq {i} \cup (i + 1 .. y - 1) /\ y \in i .. MAX_COMMITMENT_NUMBER
      BY <1>0, <3>2, Numbers
    <3> QED
      BY <1>1, <1>8, <2>1, <2>4, <3>1, <3>3 DEF Filled
  <2> QED
    BY <2>3, <2>4 DEF HoldsFrom
<1>9. insert(st, s, i)[Bits].secret = Undefined
  BY <1>2, <1>5, Numbers DEF HoldsFrom
<1> QED
  BY <1>5, <1>7, <1>8, <1>9 DEF HoldsFrom

(* An empty store holds nothing. *)
LEMMA NothingHeld ==
  ASSUME NEW gs
  PROVE  HoldsFrom(EmptySecrets, MAX_COMMITMENT_NUMBER + 1, gs)
<1>1. MAX_COMMITMENT_NUMBER + 1 .. MAX_COMMITMENT_NUMBER = {}
  BY Numbers
<1>2. \A b \in 0 .. Bits : EmptySecrets[b].secret = Undefined
  BY DEF EmptySecrets
<1>3. DOMAIN EmptySecrets = 0 .. Bits /\ Bits \in 0 .. Bits
  BY Numbers DEF EmptySecrets
<1> QED
  BY <1>1, <1>2, <1>3, Numbers DEF HoldsFrom, Empty

(* Only the secrets received count. *)
LEMMA HeldKept ==
  ASSUME NEW st, NEW gs, NEW hs, NEW low \in 1 .. MAX_COMMITMENT_NUMBER + 1,
         HoldsFrom(st, low, gs),
         \A n \in 1 .. MAX_COMMITMENT_NUMBER + 1 - low : hs[n] = gs[n]
  PROVE  HoldsFrom(st, low, hs)
<1>1. \A j \in low .. MAX_COMMITMENT_NUMBER : SecretAt(hs, j) = SecretAt(gs, j)
  <2> SUFFICES ASSUME NEW j \in low .. MAX_COMMITMENT_NUMBER
               PROVE  SecretAt(hs, j) = SecretAt(gs, j)
    OBVIOUS
  <2>1. MAX_COMMITMENT_NUMBER - j + 1 \in 1 .. MAX_COMMITMENT_NUMBER + 1 - low
    BY Numbers
  <2> QED
    BY <2>1 DEF SecretAt
<1>2. ASSUME NEW b \in 0 .. Bits - 1, Filled(st[b], b, low, gs) PROVE Filled(st[b], b, low, hs)
  <2>1. PICK y : y = st[b].index
    OBVIOUS
  <2>2. y \in low .. MAX_COMMITMENT_NUMBER
    BY <1>2, <2>1 DEF Filled
  <2>3. \A j \in y .. MAX_COMMITMENT_NUMBER : j \in low .. MAX_COMMITMENT_NUMBER
    BY <2>2, Numbers
  <2> QED
    BY <1>1, <1>2, <2>1, <2>3 DEF Filled
<1> QED
  BY <1>2 DEF HoldsFrom

-----------------------------------------------------------------------------
(* The store along the specification: it holds the secrets of the revoked  *)
(* commitments, of those given, and a given secret has a point.            *)
StoreInv ==
    /\ revoked \in 0 .. MAX_COMMITMENT_NUMBER
    /\ ~Opened => revoked = 0
    /\ Opened => revoked <= Len(built) /\ \A n \in 1 .. Len(given) : given[n] # Undefined
    /\ HoldsFrom(store, MAX_COMMITMENT_NUMBER + 1 - revoked, given)

(* Secrets that are not received yet may come and go. *)
LEMMA StoreRests ==
  ASSUME StoreInv, store' = store, revoked' = revoked,
         ~Opened' => revoked = 0,
         Opened' => revoked <= Len(built') /\ \A n \in 1 .. Len(given') : given'[n] # Undefined,
         \A n \in 1 .. revoked : given'[n] = given[n]
  PROVE  StoreInv'
<1>1. PICK low : low = MAX_COMMITMENT_NUMBER + 1 - revoked
  OBVIOUS
<1>2. /\ low \in 1 .. MAX_COMMITMENT_NUMBER + 1
      /\ MAX_COMMITMENT_NUMBER + 1 - low = revoked
  BY <1>1, Numbers DEF StoreInv
<1>3. HoldsFrom(store, low, given)
  BY <1>1 DEF StoreInv
<1>4. HoldsFrom(store, low, given')
  <2>1. PICK gs, hs : gs = given /\ hs = given'
    OBVIOUS
  <2> QED
    BY <1>2, <1>3, <2>1, HeldKept
<1> QED
  BY <1>1, <1>4 DEF StoreInv

(* The counterpart gives one more secret, of a point that is valid. *)
LEMMA SecretGiven ==
  ASSUME IInv, IInv', Opened, StoreInv, NEW seed \in PeerSeeds, PeerMovesOn(seed), Opened'
  PROVE  /\ Len(given) = Len(built) + 1 /\ Len(built) \in Nat /\ Len(built') = Len(built) + 1
         /\ \A n \in 1 .. Len(given) : given'[n] = given[n]
         /\ \A n \in 1 .. Len(given') : given'[n] # Undefined
<1>1. PICK ch : ch = channel
  OBVIOUS
<1>2. PICK moved : moved = revokeLocalCommitment([peer EXCEPT !.secrets.seed = seed])
  OBVIOUS
<1>3. PICK point : point = moved.ourSide.nextCommitmentPoint
  OBVIOUS
<1>4. PICK secret : secret = secretOf(seed, moved.ourSide.nextCommitmentNumber)
  OBVIOUS
<1>5. PICK key : key = RemoteCommitment(channel, << >>).revocationPubKey
  OBVIOUS
<1>6. /\ isValid(point) /\ channel' = attachChannelReady(ch, point)
      /\ given' = Append(given, secret) /\ built' = Append(built, key)
  BY <1>1, <1>2, <1>3, <1>4, <1>5 DEF PeerMovesOn
<1>7. /\ given \in Seq(SecretsGiven) /\ built \in Seq({RevocationKey(s) : s \in SecretsGiven})
      /\ Len(given) = Len(built) + 1 /\ Len(built) \in Nat
  BY DEF IInv, KeysInv
<1>8. /\ Len(given') = Len(given) + 1 /\ Len(built') = Len(built) + 1
      /\ given'[Len(given')] = secret /\ \A n \in 1 .. Len(given) : given'[n] = given[n]
  BY <1>6, <1>7
<1>9. secret # Undefined
  <2>1. Shaped(ch) /\ SideFields \subseteq DOMAIN ch.theirSide
    BY <1>1 DEF IInv, AgreeInv, Shaped
  <2>2. channel'.theirSide.nextCommitmentPoint = point
    BY <1>6, <2>1, ChannelReadyAttached, RotatedFields
  <2>3. channel'.theirSide.nextCommitmentPoint = toPubKey(given'[Len(given')])
    BY DEF IInv, KeysInv
  <2> QED
    BY <1>6, <1>8, <2>2, <2>3 DEF isValid, toPubKey, Point
<1> QED
  BY <1>7, <1>8, <1>9 DEF StoreInv

(* A secret is received: what is held reaches one number further down. *)
LEMMA StoreGrows ==
  ASSUME IInv, IInv', StoreInv, NEW seed \in PeerSeeds, Revoke(seed), Opened,
         PeerMovesOn(seed), Opened',
         isDerivable(store, given[revoked + 1], secretIndex(revoked)),
         store' = insert(store, given[revoked + 1], secretIndex(revoked)),
         revoked' = revoked + 1
  PROVE  StoreInv'
<1>1. PICK i : i = secretIndex(revoked)
  OBVIOUS
<1>2. PICK s : s = given[revoked + 1]
  OBVIOUS
<1>3. PICK gs, st : gs = given /\ st = store
  OBVIOUS
<1>4. /\ revoked \in Nat /\ revoked + 2 <= MAX_COMMITMENT_NUMBER /\ revoked <= Len(built)
      /\ \A n \in 1 .. Len(given) : given[n] # Undefined
  BY Numbers DEF StoreInv, Revoke
<1>5. /\ i \in 1 .. MAX_COMMITMENT_NUMBER /\ i + 1 = MAX_COMMITMENT_NUMBER + 1 - revoked
      /\ MAX_COMMITMENT_NUMBER - i + 1 = revoked + 1
      /\ i = MAX_COMMITMENT_NUMBER + 1 - (revoked + 1)
  BY <1>1, <1>4, Numbers DEF secretIndex
<1>6. /\ Len(given) = Len(built) + 1 /\ Len(built) \in Nat /\ Len(built') = Len(built) + 1
      /\ \A n \in 1 .. Len(given) : given'[n] = given[n]
      /\ \A n \in 1 .. Len(given') : given'[n] # Undefined
  BY SecretGiven
<1>7. revoked + 1 \in 1 .. Len(given) /\ 1 .. revoked + 1 \subseteq 1 .. Len(given)
  BY <1>4, <1>6
<1>8. s # Undefined /\ s = SecretAt(gs, i)
  BY <1>2, <1>3, <1>4, <1>5, <1>7 DEF SecretAt
<1>9. HoldsFrom(insert(st, s, i), i, gs)
  <2>1. HoldsFrom(st, i + 1, gs)
    BY <1>3, <1>5 DEF StoreInv
  <2>2. isDerivable(st, s, i)
    BY <1>1, <1>2, <1>3
  <2> QED
    BY <1>5, <1>8, <2>1, <2>2, Inserted
<1>10. HoldsFrom(store', i, given')
  <2>1. PICK hs, ss : hs = given' /\ ss = store'
    OBVIOUS
  <2>2. ss = insert(st, s, i)
    BY <1>1, <1>2, <1>3, <2>1
  <2>3. \A n \in 1 .. MAX_COMMITMENT_NUMBER + 1 - i : hs[n] = gs[n]
    <3>1. MAX_COMMITMENT_NUMBER + 1 - i = revoked + 1
      BY <1>4, <1>5, Numbers
    <3> QED
      BY <1>3, <1>6, <1>7, <2>1, <3>1
  <2>4. i \in 1 .. MAX_COMMITMENT_NUMBER + 1
    BY <1>5, Numbers
  <2> QED
    BY <1>9, <2>1, <2>2, <2>3, <2>4, HeldKept
<1>11. revoked + 1 \in 0 .. MAX_COMMITMENT_NUMBER /\ revoked + 1 <= Len(built')
  BY <1>4, <1>6, Numbers
<1> QED
  BY <1>5, <1>6, <1>10, <1>11 DEF StoreInv

(* Every step keeps what the store holds. *)
LEMMA StoreStep == ASSUME IInv, IInv', StoreInv, [Next]_vars PROVE StoreInv'
<1>1. revoked \in Nat /\ (~Opened => revoked = 0)
  BY Numbers DEF StoreInv
<1>2. ASSUME UNCHANGED <<given, built, store, revoked>>, Opened' <=> Opened PROVE StoreInv'
  BY <1>2, StoreRests DEF StoreInv
<1>3. ASSUME NEW error, Fail(error) PROVE StoreInv'
  BY <1>2, <1>3 DEF Fail, Opened
<1>4. CASE \E r \in Requests : OpenChannel(r)
  <2>1. CASE \E r \in Requests : Fail(requestError(r))
    BY <1>3, <2>1
  <2>2. CASE UNCHANGED <<peer, given, built, store, revoked>>
    BY <1>2, <2>2 DEF Opened
  <2> QED
    BY <1>4, <2>1, <2>2 DEF OpenChannel
<1>5. CASE \E a \in Accepts : AcceptChannel(a)
  <2>1. PICK a \in Accepts : AcceptChannel(a)
    BY <1>5
  <2>2. PICK msg : msg = AcceptMessage(a)
    OBVIOUS
  <2>3. PICK error : error = acceptError(channel, msg, [k \in MessageKeys |-> isValid(msg[k])])
    OBVIOUS
  <2>4. CASE Fail(error)
    BY <1>3, <2>4
  <2>5. CASE /\ error = NoError /\ given' = <<secretOf(PeerSecrets.seed, 0)>>
             /\ phase' = "funding_created"
             /\ UNCHANGED <<built, store, revoked>>
    <3>1. ~Opened /\ phase = "open_channel" /\ revoked = 0
      BY <1>1, <2>1 DEF AcceptChannel, IInv, PhaseInv
    <3>2. PICK r \in Requests : channel = createChannel(r)
      BY <3>1 DEF IInv, PhaseInv
    <3>3. PICK ch : ch = channel
      OBVIOUS
    <3>4. /\ isValid(msg.firstPerCommitmentPoint)
          /\ msg.firstPerCommitmentPoint = toPubKey(secretOf(PeerSecrets.seed, 0))
      BY <2>2, <2>3, <2>5, <3>2, <3>3, AcceptChecked
    <3>5. PICK first : first = secretOf(PeerSecrets.seed, 0)
      OBVIOUS
    <3>6. first # Undefined
      BY <3>4, <3>5 DEF isValid, toPubKey, Point
    <3>7. Len(given') = 1 /\ given'[1] = first
      BY <2>5, <3>5
    <3>8. built' = << >> /\ 0 <= Len(built')
      BY <2>5, <3>1 DEF IInv, PhaseInv
    <3> QED
      BY <2>5, <3>1, <3>6, <3>7, <3>8, StoreRests
  <2> QED
    BY <2>1, <2>2, <2>3, <2>4, <2>5 DEF AcceptChannel
<1>6. CASE FundingSigned
  <2>1. Opened
    BY <1>6 DEF FundingSigned, IInv, PhaseInv
  <2>2. CASE Fail("InvalidCommitmentSig")
    BY <1>3, <2>2
  <2>3. CASE UNCHANGED <<peer, given, built, store, revoked>>
    BY <1>2, <2>3 DEF Opened
  <2> QED
    BY <1>6, <2>2, <2>3 DEF FundingSigned
<1>7. CASE \E revokes \in RevokesFirst : DepthReached(revokes)
  <2>1. phase = "funding_signed" /\ phase' = phase
    BY <1>7 DEF DepthReached
  <2>2. Opened /\ Opened'
    BY <2>1 DEF IInv, PhaseInv
  <2> QED
    BY <1>2, <1>7, <2>2 DEF DepthReached
<1>8. CASE \E seed \in PeerSeeds : ChannelReady(seed)
  <2>1. PICK seed \in PeerSeeds : ChannelReady(seed)
    BY <1>8
  <2>2. /\ phase = "funding_signed" /\ phase' = phase /\ PeerMovesOn(seed)
        /\ store' = store /\ revoked' = revoked
    BY <2>1 DEF ChannelReady
  <2>3. Opened /\ Opened'
    BY <2>2 DEF IInv, PhaseInv
  <2>4. /\ Len(given) = Len(built) + 1 /\ Len(built) \in Nat /\ Len(built') = Len(built) + 1
        /\ \A n \in 1 .. Len(given) : given'[n] = given[n]
        /\ \A n \in 1 .. Len(given') : given'[n] # Undefined
    BY <2>2, <2>3, SecretGiven
  <2>5. revoked <= Len(built)
    BY <2>3 DEF StoreInv
  <2>6. 1 .. revoked \subseteq 1 .. Len(given) /\ revoked <= Len(built')
    BY <1>1, <2>4, <2>5
  <2> QED
    BY <2>2, <2>3, <2>4, <2>6, StoreRests
<1>9. CASE \E seed \in PeerSeeds : Revoke(seed)
  <2>1. PICK seed \in PeerSeeds : Revoke(seed)
    BY <1>9
  <2>2. CASE Fail("secret refused")
    BY <1>3, <2>2
  <2>3. CASE /\ isDerivable(store, given[revoked + 1], secretIndex(revoked))
             /\ store' = insert(store, given[revoked + 1], secretIndex(revoked))
             /\ revoked' = revoked + 1 /\ PeerMovesOn(seed) /\ phase' = phase
    <3>1. Opened /\ Opened'
      BY <2>1, <2>3 DEF Revoke, IInv, PhaseInv
    <3> QED
      BY <2>1, <2>3, <3>1, StoreGrows
  <2> QED
    BY <2>1, <2>2, <2>3 DEF Revoke
<1>10. CASE \E h \in Htlcs : AddHtlc(h)
  <2>1. phase = "funding_signed" /\ phase' = phase /\ UNCHANGED <<given, built, store, revoked>>
    BY <1>10 DEF AddHtlc
  <2>2. Opened /\ Opened'
    BY <2>1 DEF IInv, PhaseInv
  <2> QED
    BY <1>2, <2>1, <2>2
<1>11. CASE UNCHANGED vars
  BY <1>2, <1>11 DEF vars, Opened
<1> QED
  BY <1>4, <1>5, <1>6, <1>7, <1>8, <1>9, <1>10, <1>11 DEF Next

(* The store holds what was revoked, whichever seeds the secrets came from *)
(* (CommitmentSecretStore.insert).                                         *)
THEOREM StoreInvariance == Spec => []StoreInv
<1>1. Init => StoreInv
  <2> SUFFICES ASSUME Init PROVE StoreInv
    OBVIOUS
  <2>1. ~Opened /\ revoked = 0 /\ store = EmptySecrets
    BY DEF Init, Opened
  <2>2. 0 \in 0 .. MAX_COMMITMENT_NUMBER /\ MAX_COMMITMENT_NUMBER + 1 - 0 = MAX_COMMITMENT_NUMBER + 1
    BY Numbers
  <2>3. HoldsFrom(EmptySecrets, MAX_COMMITMENT_NUMBER + 1, given)
    BY NothingHeld
  <2> QED
    BY <2>1, <2>2, <2>3 DEF StoreInv
<1> QED
  BY <1>1, StoreStep, Invariance, PTL DEF Spec

(* A secret the counterpart revealed comes back out of the store and opens *)
(* the revocation key of the commitment that was signed for its number;    *)
(* none that was not revealed does (CommitmentSecretStore, ChannelKeys).   *)
THEOREM TheRevokedArePunishable == Spec => []RevokedIsPunishable
<1>1. IInv /\ StoreInv => RevokedIsPunishable
  <2> SUFFICES ASSUME IInv, StoreInv, NEW n \in 0 .. MAX_COMMITMENT_NUMBER,
                      NEW secret, secret = recover(store, secretIndex(n))
               PROVE  IF n >= revoked THEN secret = NotReceived
                      ELSE /\ secret = given[n + 1]
                           /\ toPubKey(deriveRevocationPrivKey(secret, OurSecrets.revocation))
                                = built[n + 1]
    BY DEF RevokedIsPunishable
  <2>1. PICK i : i = secretIndex(n)
    OBVIOUS
  <2>2. PICK low : low = MAX_COMMITMENT_NUMBER + 1 - revoked
    OBVIOUS
  <2>3. revoked \in 0 .. MAX_COMMITMENT_NUMBER
    BY DEF StoreInv
  <2>4. /\ i \in 0 .. MAX_COMMITMENT_NUMBER /\ low \in 1 .. MAX_COMMITMENT_NUMBER + 1
        /\ i < low <=> n >= revoked
        /\ MAX_COMMITMENT_NUMBER - i + 1 = n + 1
    BY <2>1, <2>2, <2>3, Numbers DEF secretIndex
  <2>5. secret = IF i < low THEN NotReceived ELSE SecretAt(given, i)
    <3>1. HoldsFrom(store, low, given)
      BY <2>2 DEF StoreInv
    <3> QED
      BY <2>1, <2>4, <3>1, Recovered
  <2>6. CASE n >= revoked
    BY <2>4, <2>5, <2>6
  <2>7. CASE ~(n >= revoked)
    <3>1. Opened /\ revoked <= Len(built) /\ Len(built) \in Nat
      <4>1. revoked # 0
        BY <2>3, <2>7
      <4>2. Opened /\ revoked <= Len(built)
        BY <4>1 DEF StoreInv
      <4> QED
        BY <4>2 DEF IInv, KeysInv
    <3>2. n + 1 \in 1 .. Len(built)
      BY <2>3, <2>7, <3>1, Numbers
    <3>3. secret = given[n + 1]
      BY <2>4, <2>5, <2>7 DEF SecretAt
    <3>4. built[n + 1] = RevocationKey(given[n + 1])
      BY <3>1, <3>2 DEF IInv, KeysInv
    <3> QED
      BY <2>7, <3>3, <3>4, RevocationKeysMatch DEF RevocationKey
  <2> QED
    BY <2>6, <2>7
<1> QED
  BY <1>1, Invariance, StoreInvariance, PTL

-----------------------------------------------------------------------------
(* A total order on a finite set, as a set of pairs, and the place of each *)
(* element in it.                                                          *)
Orders(L, D) ==
    /\ \A k \in D : <<k, k>> \notin L
    /\ \A i, j, k \in D : <<i, j>> \in L /\ <<j, k>> \in L => <<i, k>> \in L
    /\ \A j, k \in D : j = k \/ <<j, k>> \in L \/ <<k, j>> \in L
Below(L, D, k) == {j \in D : <<j, k>> \in L}
Place(L, D, k) == 1 + Cardinality(Below(L, D, k))

(* Sets below an element are finite and smaller. *)
LEMMA BelowCounted ==
  ASSUME NEW D, IsFiniteSet(D), NEW L, Orders(L, D), NEW k \in D
  PROVE  /\ IsFiniteSet(Below(L, D, k)) /\ Cardinality(Below(L, D, k)) \in Nat
         /\ Cardinality(D) \in Nat /\ Cardinality(Below(L, D, k)) < Cardinality(D)
<1>1. Below(L, D, k) \in SUBSET D /\ Below(L, D, k) # D
  BY DEF Below, Orders
<1>2. /\ IsFiniteSet(Below(L, D, k)) /\ Cardinality(Below(L, D, k)) <= Cardinality(D)
      /\ Cardinality(D) # Cardinality(Below(L, D, k))
  BY <1>1, FS_Subset
<1>3. Cardinality(Below(L, D, k)) \in Nat /\ Cardinality(D) \in Nat
  BY <1>2, FS_CardinalityType
<1> QED
  BY <1>2, <1>3

(* What comes earlier has an earlier place. *)
LEMMA PlacesRise ==
  ASSUME NEW D, IsFiniteSet(D), NEW L, Orders(L, D), NEW j \in D, NEW k \in D, <<j, k>> \in L
  PROVE  Place(L, D, j) < Place(L, D, k)
<1>1. Below(L, D, j) \in SUBSET Below(L, D, k) /\ Below(L, D, j) # Below(L, D, k)
  BY DEF Below, Orders
<1>2. IsFiniteSet(Below(L, D, k)) /\ Cardinality(Below(L, D, k)) \in Nat
      /\ Cardinality(Below(L, D, j)) \in Nat
  BY BelowCounted
<1>3. /\ Cardinality(Below(L, D, j)) <= Cardinality(Below(L, D, k))
      /\ Cardinality(Below(L, D, k)) # Cardinality(Below(L, D, j))
  BY <1>1, <1>2, FS_Subset
<1> QED
  BY <1>2, <1>3 DEF Place

(* Each place is taken, by one element. *)
Placed(L, D) ==
    /\ \A k \in D : Place(L, D, k) \in 1 .. Cardinality(D)
    /\ \A j, k \in D : Place(L, D, j) = Place(L, D, k) => j = k
    /\ \A p \in 1 .. Cardinality(D) : \E k \in D : Place(L, D, k) = p

(* Each element has a place of its own, and no place stays empty. *)
LEMMA Places ==
  ASSUME NEW D, IsFiniteSet(D), NEW L, Orders(L, D)
  PROVE  Placed(L, D)
<1>1. \A k \in D : Place(L, D, k) \in 1 .. Cardinality(D)
  <2> SUFFICES ASSUME NEW k \in D PROVE Place(L, D, k) \in 1 .. Cardinality(D)
    OBVIOUS
  <2>1. /\ Cardinality(Below(L, D, k)) \in Nat /\ Cardinality(D) \in Nat
        /\ Cardinality(Below(L, D, k)) < Cardinality(D)
    BY BelowCounted
  <2> QED
    BY <2>1 DEF Place
<1>2. ASSUME NEW j \in D, NEW k \in D, Place(L, D, j) = Place(L, D, k) PROVE j = k
  <2>1. Place(L, D, j) \in Nat /\ Place(L, D, k) \in Nat
    BY BelowCounted DEF Place
  <2>2. ~(Place(L, D, j) < Place(L, D, k)) /\ ~(Place(L, D, k) < Place(L, D, j))
    BY <1>2, <2>1
  <2>3. <<j, k>> \notin L /\ <<k, j>> \notin L
    BY <2>2, PlacesRise
  <2> QED
    BY <2>3 DEF Orders
<1>3. Cardinality(D) \in Nat
  BY FS_CardinalityType
<1> DEFINE f == [k \in D |-> Place(L, D, k)]
           T == 1 .. Cardinality(D)
<1>4. f \in Injection(D, T)
  <2>1. f \in [D -> T]
    BY <1>1
  <2>2. \A j, k \in D : f[j] = f[k] => j = k
    BY <1>2
  <2> HIDE DEF f, T
  <2> QED
    BY <2>1, <2>2 DEF Injection, IsInjective
<1>5. IsFiniteSet(T) /\ Cardinality(T) = Cardinality(D)
  BY <1>3, FS_Interval
<1>6. f \in Surjection(D, T)
  <2> HIDE DEF f, T
  <2> QED
    BY <1>4, <1>5, FS_Injection
<1>7. \A p \in T : \E k \in D : f[k] = p
  <2> HIDE DEF f, T
  <2> QED
    BY <1>6 DEF Surjection
<1> QED
  BY <1>1, <1>2, <1>7 DEF Placed

(* A relation that ranks a set, as far as it tells elements apart. *)
Ranks(R, D) ==
    /\ \A j, k \in D : <<j, k>> \in R => <<k, j>> \notin R
    /\ \A i, j, k \in D : <<i, k>> \in R => <<i, j>> \in R \/ <<j, k>> \in R
Respects(L, R, D) == \A j, k \in D : <<j, k>> \in R => <<j, k>> \in L

(* Of two orders that respect one relation, the elements at the same place *)
(* are not related: if k came before m, what is up to k in the first       *)
(* would all be below m in the second.                                     *)
LEMMA SamePlace ==
  ASSUME NEW D, IsFiniteSet(D), NEW L, Orders(L, D), NEW M, Orders(M, D),
         NEW R, Ranks(R, D), Respects(L, R, D), Respects(M, R, D),
         NEW k \in D, NEW m \in D, Place(L, D, k) = Place(M, D, m)
  PROVE  <<k, m>> \notin R
<1> SUFFICES ASSUME <<k, m>> \in R PROVE FALSE
  OBVIOUS
<1> DEFINE A == Below(L, D, k) \cup {k}
<1>1. A \in SUBSET Below(M, D, m)
  <2> SUFFICES ASSUME NEW j \in A PROVE j \in D /\ <<j, m>> \in M
    BY DEF Below
  <2>1. CASE j = k
    BY <2>1 DEF Respects
  <2>2. CASE j # k
    <3>1. j \in D /\ <<j, k>> \in L
      BY <2>2 DEF Below
    <3>2. <<k, j>> \notin L
      BY <3>1 DEF Orders
    <3>3. <<k, j>> \notin R
      BY <3>1, <3>2 DEF Respects
    <3>4. <<j, m>> \in R
      BY <3>1, <3>3 DEF Ranks
    <3> QED
      BY <3>1, <3>4 DEF Respects
  <2> QED
    BY <2>1, <2>2
<1>2. /\ IsFiniteSet(Below(L, D, k)) /\ Cardinality(Below(L, D, k)) \in Nat
      /\ IsFiniteSet(Below(M, D, m)) /\ Cardinality(Below(M, D, m)) \in Nat
  BY BelowCounted
<1>3. k \notin Below(L, D, k)
  BY DEF Below, Orders
<1>4. Cardinality(A) = Cardinality(Below(L, D, k)) + 1
  BY <1>2, <1>3, FS_AddElement
<1>5. Cardinality(A) <= Cardinality(Below(M, D, m))
  <2> HIDE DEF A
  <2> QED
    BY <1>1, <1>2, FS_Subset
<1>6. Cardinality(Below(L, D, k)) = Cardinality(Below(M, D, m))
  BY <1>2 DEF Place
<1> QED
  BY <1>2, <1>4, <1>5, <1>6

(* A one to one image of a set has as many elements. *)
LEMMA SameCount ==
  ASSUME NEW A, NEW B, IsFiniteSet(A), NEW f, \A x \in A : f[x] \in B,
         \A x, y \in A : f[x] = f[y] => x = y, \A y \in B : \E x \in A : f[x] = y
  PROVE  IsFiniteSet(B) /\ Cardinality(A) = Cardinality(B)
<1> DEFINE g == [x \in A |-> f[x]]
<1>1. g \in Bijection(A, B)
  <2>1. g \in [A -> B]
    OBVIOUS
  <2>2. \A x, y \in A : g[x] = g[y] => x = y
    OBVIOUS
  <2>3. \A y \in B : \E x \in A : g[x] = y
    OBVIOUS
  <2> HIDE DEF g
  <2> QED
    BY <2>1, <2>2, <2>3 DEF Bijection, Injection, IsInjective, Surjection
<1>2. ExistsBijection(A, B)
  <2> HIDE DEF g
  <2> QED
    BY <1>1 DEF ExistsBijection
<1> QED
  BY <1>2, FS_Bijection

-----------------------------------------------------------------------------
(* The outputs of a commitment in the order of sortCommitmentOutputs. *)
Before(xs) == {z \in (DOMAIN xs) \X (DOMAIN xs) : isBefore(xs[z[1]], xs[z[2]])}
First(xs) ==
    {z \in (DOMAIN xs) \X (DOMAIN xs) :
        isBefore(xs[z[1]], xs[z[2]]) \/ (z[1] < z[2] /\ ~isBefore(xs[z[2]], xs[z[1]]))}

(* Which of two outputs comes first. *)
LEMMA FirstPairs ==
  ASSUME NEW xs, NEW j \in DOMAIN xs, NEW k \in DOMAIN xs
  PROVE  <<j, k>> \in First(xs) <=> isBefore(xs[j], xs[k]) \/ (j < k /\ ~isBefore(xs[k], xs[j]))
<1> DEFINE D == DOMAIN xs
<1>1. First(xs) = {z \in D \X D :
                     isBefore(xs[z[1]], xs[z[2]]) \/ (z[1] < z[2] /\ ~isBefore(xs[z[2]], xs[z[1]]))}
  BY DEF First
<1>2. PICK z : z = <<j, k>>
  OBVIOUS
<1>3. z \in D \X D /\ z[1] = j /\ z[2] = k
  BY <1>2
<1> HIDE DEF D
<1> QED
  BY <1>1, <1>2, <1>3, Zenon

(* The order of the outputs is a total one, in which those that come       *)
(* before do.                                                              *)
LEMMA FirstOrders ==
  ASSUME NEW n \in Nat, NEW xs, DOMAIN xs = 1 .. n, Ranks(Before(xs), 1 .. n)
  PROVE  Orders(First(xs), 1 .. n) /\ Respects(First(xs), Before(xs), 1 .. n)
<1> DEFINE D == 1 .. n
           R == Before(xs)
           L == First(xs)
<1>1. \A j, k \in D : <<j, k>> \in R <=> isBefore(xs[j], xs[k])
  BY DEF Before
<1>2. \A j, k \in D : <<j, k>> \in L <=> <<j, k>> \in R \/ (j < k /\ <<k, j>> \notin R)
  <2> SUFFICES ASSUME NEW j \in D, NEW k \in D
               PROVE  <<j, k>> \in L <=> <<j, k>> \in R \/ (j < k /\ <<k, j>> \notin R)
    OBVIOUS
  <2>1. <<j, k>> \in L <=> isBefore(xs[j], xs[k]) \/ (j < k /\ ~isBefore(xs[k], xs[j]))
    BY FirstPairs
  <2>2. <<j, k>> \in R <=> isBefore(xs[j], xs[k])
    BY <1>1
  <2>3. <<k, j>> \in R <=> isBefore(xs[k], xs[j])
    BY <1>1
  <2> HIDE DEF R, L
  <2> QED
    BY <2>1, <2>2, <2>3
<1>3. \A j \in D : j \in Nat
  OBVIOUS
<1> HIDE DEF R, L, D
<1>4. Ranks(R, D)
  BY DEF D, R
<1>5. \A k \in D : <<k, k>> \notin L
  BY <1>2, <1>3, <1>4 DEF Ranks
<1>6. ASSUME NEW i \in D, NEW j \in D, NEW k \in D, <<i, j>> \in L, <<j, k>> \in L
      PROVE  <<i, k>> \in L
  <2>1. i \in Nat /\ j \in Nat /\ k \in Nat
    BY <1>3
  <2>2. <<j, i>> \notin R /\ <<k, j>> \notin R
    BY <1>2, <1>4, <1>6 DEF Ranks
  <2>3. <<k, i>> \notin R
    BY <1>4, <2>2 DEF Ranks
  <2>4. CASE <<i, j>> \in R
    <3>1. <<i, k>> \in R \/ <<k, j>> \in R
      BY <1>4, <2>4 DEF Ranks
    <3> QED
      BY <1>2, <2>2, <3>1
  <2>5. CASE <<j, k>> \in R
    <3>1. <<j, i>> \in R \/ <<i, k>> \in R
      BY <1>4, <2>5 DEF Ranks
    <3> QED
      BY <1>2, <2>2, <3>1
  <2>6. CASE i < j /\ j < k
    BY <1>2, <2>1, <2>3, <2>6
  <2> QED
    BY <1>2, <1>6, <2>4, <2>5, <2>6
<1>7. ASSUME NEW j \in D, NEW k \in D PROVE j = k \/ <<j, k>> \in L \/ <<k, j>> \in L
  <2>1. j = k \/ j < k \/ k < j
    BY <1>3
  <2> QED
    BY <1>2, <2>1
<1>8. \A j, k \in D : <<j, k>> \in R => <<j, k>> \in L
  BY <1>2
<1>9. Orders(L, D)
  BY <1>5, <1>6, <1>7 DEF Orders
<1>10. Respects(L, R, D)
  BY <1>8 DEF Respects
<1> QED
  BY <1>9, <1>10 DEF D, R, L

(* The sort puts each output in its place. *)
LEMMA SortPlaces ==
  ASSUME NEW n \in Nat, NEW xs, DOMAIN xs = 1 .. n, Ranks(Before(xs), 1 .. n)
  PROVE  /\ DOMAIN sortCommitmentOutputs(xs) = 1 .. n
         /\ \A p \in 1 .. n : \E k \in 1 .. n :
                Place(First(xs), 1 .. n, k) = p /\ sortCommitmentOutputs(xs)[p] = xs[k]
<1> DEFINE D == DOMAIN xs
           comesFirst(j, k) == \/ isBefore(xs[j], xs[k])
                               \/ j < k /\ ~isBefore(xs[k], xs[j])
           place(k) == 1 + Cardinality({j \in D : comesFirst(j, k)})
           at(p) == CHOOSE k \in D : place(k) = p
<1>1. sortCommitmentOutputs(xs) = [p \in D |-> xs[at(p)]]
  BY Zenon DEF sortCommitmentOutputs
<1>2. \A k \in D : place(k) = Place(First(xs), D, k)
  <2> SUFFICES ASSUME NEW k \in D PROVE place(k) = Place(First(xs), D, k)
    OBVIOUS
  <2>1. {j \in D : comesFirst(j, k)} = Below(First(xs), D, k)
    <3>1. \A j \in D : comesFirst(j, k) <=> <<j, k>> \in First(xs)
      BY FirstPairs, Zenon
    <3> HIDE DEF comesFirst, D
    <3>2. {j \in D : comesFirst(j, k)} \subseteq D
      OBVIOUS
    <3> QED
      BY <3>1, <3>2 DEF Below
  <2> QED
    BY <2>1 DEF Place
<1>3. IsFiniteSet(D) /\ Cardinality(D) = n
  BY FS_Interval
<1>4. \A p \in D : \E k \in D : Place(First(xs), D, k) = p
  <2>1. Orders(First(xs), D)
    BY FirstOrders
  <2> HIDE DEF D
  <2>2. \A p \in 1 .. Cardinality(D) : \E k \in D : Place(First(xs), D, k) = p
    BY <1>3, <2>1, Places DEF Placed
  <2> QED
    BY <1>3, <2>2 DEF D
<1>5. \A p \in D : at(p) \in D /\ place(at(p)) = p
  <2> SUFFICES ASSUME NEW p \in D PROVE at(p) \in D /\ place(at(p)) = p
    OBVIOUS
  <2> HIDE DEF place, D
  <2>1. \E k \in D : place(k) = p
    BY <1>2, <1>4
  <2> QED
    BY <2>1
<1> HIDE DEF at, place
<1>6. \A p \in D : \E k \in D : Place(First(xs), D, k) = p /\ sortCommitmentOutputs(xs)[p] = xs[k]
  BY <1>1, <1>2, <1>5
<1>7. DOMAIN sortCommitmentOutputs(xs) = D
  BY <1>1
<1> QED
  BY <1>6, <1>7 DEF D

(* Two lists of the same outputs, the second in the order that f gives. *)
OneToOne(f, n) ==
    /\ \A j, k \in 1 .. n : f[j] = f[k] => j = k
    /\ \A i \in 1 .. n : \E j \in 1 .. n : f[j] = i
OrderKept(f, xs, ys, n) ==
    \A j, k \in 1 .. n : isBefore(ys[f[j]], ys[f[k]]) <=> isBefore(xs[j], xs[k])
TiedPlaces(f, xs, ys, n) ==
    \A p \in 1 .. n : \E k, m \in 1 .. n :
        /\ sortCommitmentOutputs(xs)[p] = xs[k] /\ sortCommitmentOutputs(ys)[p] = ys[f[m]]
        /\ ~isBefore(xs[k], xs[m]) /\ ~isBefore(xs[m], xs[k])

(* The sort puts outputs that tie in one place of the two lists. *)
LEMMA SortedAlike ==
  ASSUME NEW n \in Nat, NEW xs, DOMAIN xs = 1 .. n, NEW ys, DOMAIN ys = 1 .. n,
         NEW f \in [1 .. n -> 1 .. n], OneToOne(f, n), OrderKept(f, xs, ys, n),
         Ranks(Before(xs), 1 .. n)
  PROVE  TiedPlaces(f, xs, ys, n)
<1> USE DEF OneToOne, OrderKept, TiedPlaces
<1> DEFINE D == 1 .. n
           R == Before(xs)
           L == First(xs)
           S == First(ys)
           M == {z \in D \X D : <<f[z[1]], f[z[2]]>> \in S}
<1>10. IsFiniteSet(D)
  <2>1. 1 \in Int /\ n \in Int
    OBVIOUS
  <2> QED
    BY <2>1, FS_Interval, Zenon
<1>s. /\ \A p \in D : \E k \in D : Place(L, D, k) = p /\ sortCommitmentOutputs(xs)[p] = xs[k]
      /\ Ranks(Before(ys), D) =>
          \A p \in D : \E k \in D : Place(S, D, k) = p /\ sortCommitmentOutputs(ys)[p] = ys[k]
  BY SortPlaces, ZenonT(60)
<1>1. \A j, k \in D : <<j, k>> \in R <=> isBefore(xs[j], xs[k])
  BY DEF Before
<1>2. \A j, k \in D : <<j, k>> \in Before(ys) <=> isBefore(ys[j], ys[k])
  BY DEF Before
<1>3. \A j, k \in D : <<f[j], f[k]>> \in Before(ys) <=> <<j, k>> \in R
  <2> HIDE DEF R
  <2> QED
    BY <1>1, <1>2
<1>4. Ranks(Before(ys), D)
  <2> HIDE DEF R, D
  <2>1. Ranks(R, D)
    BY DEF R, D
  <2>2. ASSUME NEW j \in D, NEW k \in D, <<j, k>> \in Before(ys) PROVE <<k, j>> \notin Before(ys)
    <3>1. PICK a \in D, b \in D : f[a] = j /\ f[b] = k
      BY DEF D
    <3> QED
      BY <1>3, <2>1, <2>2, <3>1 DEF Ranks
  <2>3. ASSUME NEW i \in D, NEW j \in D, NEW k \in D, <<i, k>> \in Before(ys)
        PROVE  <<i, j>> \in Before(ys) \/ <<j, k>> \in Before(ys)
    <3>1. PICK a \in D, b \in D, c \in D : f[a] = i /\ f[b] = j /\ f[c] = k
      BY DEF D
    <3> QED
      BY <1>3, <2>1, <2>3, <3>1 DEF Ranks
  <2> QED
    BY <2>2, <2>3 DEF Ranks
<1>5. /\ Orders(L, D) /\ Respects(L, R, D)
      /\ Orders(S, D) /\ Respects(S, Before(ys), D)
  BY <1>4, FirstOrders
<1>6. \A j, k \in D : <<j, k>> \in M <=> <<f[j], f[k]>> \in S
  OBVIOUS
<1>7. \A j \in D : f[j] \in D
  OBVIOUS
<1> HIDE DEF M, L, S, R
<1>8. Orders(M, D)
  <2>0. \A j, k \in D : f[j] = f[k] => j = k
    OBVIOUS
  <2> HIDE DEF D
  <2> QED
    <3>1. \A k \in D : <<k, k>> \notin M
      BY <1>5, <1>6, <1>7 DEF Orders
    <3>2. \A i, j, k \in D : <<i, j>> \in M /\ <<j, k>> \in M => <<i, k>> \in M
      <4> SUFFICES ASSUME NEW i \in D, NEW j \in D, NEW k \in D, <<i, j>> \in M, <<j, k>> \in M
                   PROVE  <<i, k>> \in M
        OBVIOUS
      <4>1. <<f[i], f[j]>> \in S /\ <<f[j], f[k]>> \in S
        BY <1>6
      <4>2. <<f[i], f[k]>> \in S
        BY <1>5, <1>7, <4>1 DEF Orders
      <4> QED
        BY <1>6, <4>2
    <3>3. \A j, k \in D : j = k \/ <<j, k>> \in M \/ <<k, j>> \in M
      <4> SUFFICES ASSUME NEW j \in D, NEW k \in D, j # k
                   PROVE  <<j, k>> \in M \/ <<k, j>> \in M
        OBVIOUS
      <4>1. <<f[j], f[k]>> \in S \/ <<f[k], f[j]>> \in S
        BY <1>5, <1>7, <2>0 DEF Orders
      <4> QED
        BY <1>6, <4>1
    <3> QED
      BY <3>1, <3>2, <3>3 DEF Orders
<1>9. Respects(M, R, D)
  <2> HIDE DEF D
  <2> QED
    BY <1>3, <1>5, <1>6, <1>7 DEF Respects
<1>11. ASSUME NEW m \in D PROVE Place(M, D, m) = Place(S, D, f[m])
  <2> DEFINE A == Below(M, D, m)
             B == Below(S, D, f[m])
  <2>1. \A j \in D : j \in A <=> f[j] \in B
    <3> HIDE DEF D
    <3> QED
      BY <1>6, <1>7, <1>11 DEF Below
  <2>2. \A j \in A : j \in D
    BY DEF Below
  <2>3. \A i \in B : \E j \in D : f[j] = i
    BY DEF Below
  <2>4. \A j, k \in D : f[j] = f[k] => j = k
    OBVIOUS
  <2>5. IsFiniteSet(A)
    BY <1>8, <1>10, <1>11, BelowCounted
  <2> HIDE DEF A, B, D
  <2>6. Cardinality(A) = Cardinality(B)
    <3>1. \A j \in A : f[j] \in B
      BY <2>1, <2>2
    <3>2. \A j, k \in A : f[j] = f[k] => j = k
      BY <2>2, <2>4
    <3>3. \A i \in B : \E j \in A : f[j] = i
      BY <2>1, <2>3
    <3> QED
      BY <2>5, <3>1, <3>2, <3>3, SameCount
  <2> QED
    BY <2>6 DEF Place, A, B
<1> SUFFICES ASSUME NEW p \in D
             PROVE  \E k, m \in D :
                /\ sortCommitmentOutputs(xs)[p] = xs[k] /\ sortCommitmentOutputs(ys)[p] = ys[f[m]]
                /\ ~isBefore(xs[k], xs[m]) /\ ~isBefore(xs[m], xs[k])
  OBVIOUS
<1>12. PICK k \in D : Place(L, D, k) = p /\ sortCommitmentOutputs(xs)[p] = xs[k]
  BY <1>s
<1>13. PICK i \in D : Place(S, D, i) = p /\ sortCommitmentOutputs(ys)[p] = ys[i]
  BY <1>4, <1>s
<1>14. PICK m \in D : f[m] = i
  OBVIOUS
<1>15. Place(M, D, m) = p
  BY <1>11, <1>13, <1>14
<1>16. Ranks(R, D)
  BY DEF R
<1>17. <<k, m>> \notin R /\ <<m, k>> \notin R
  <2> HIDE DEF D
  <2>1. Place(L, D, k) = Place(M, D, m)
    BY <1>12, <1>15
  <2>2. <<k, m>> \notin R
    BY <1>5, <1>8, <1>9, <1>10, <1>16, <2>1, SamePlace
  <2>3. <<m, k>> \notin R
    BY <1>5, <1>8, <1>9, <1>10, <1>16, <2>1, SamePlace
  <2> QED
    BY <2>2, <2>3
<1> QED
  BY <1>1, <1>12, <1>13, <1>14, <1>17

-----------------------------------------------------------------------------
(* The hash of numbers is a number. *)
IsHash(f, ns) == f = [n \in 0 .. Len(ns) |-> IF n = 0 THEN 1 ELSE absorb(f[n - 1], ns[n])]

(* A number taken in makes a number. *)
LEMMA Absorbed == ASSUME NEW h \in Int, NEW n \in Int PROVE absorb(h, n) \in Int
<1>1. PICK x \in Int : x = h * h + 31 * h + 17 * n + 5
  OBVIOUS
<1> QED
  BY <1>1, BitsAssumption DEF absorb

(* The function Sha256 is read off exists. *)
LEMMA HashExists ==
  ASSUME NEW ns, Len(ns) \in Nat
  PROVE  \E f : IsHash(f, ns)
<1> DEFINE UpTo(m) == \E f : f = [n \in 0 .. m |-> IF n = 0 THEN 1 ELSE absorb(f[n - 1], ns[n])]
           S == {m \in Nat : UpTo(m)}
<1>1. 0 \in S
  <2> DEFINE f == [n \in 0 .. 0 |-> 1]
  <2>1. f = [n \in 0 .. 0 |-> IF n = 0 THEN 1 ELSE absorb(f[n - 1], ns[n])]
    OBVIOUS
  <2> QED
    BY <2>1
<1>2. \A m \in Nat : m \in S => m + 1 \in S
  <2> SUFFICES ASSUME NEW m \in Nat, m \in S PROVE UpTo(m + 1)
    OBVIOUS
  <2>1. PICK f : f = [n \in 0 .. m |-> IF n = 0 THEN 1 ELSE absorb(f[n - 1], ns[n])]
    OBVIOUS
  <2>2. PICK g : g = [n \in 0 .. m + 1 |-> IF n = m + 1 THEN absorb(f[m], ns[m + 1]) ELSE f[n]]
    OBVIOUS
  <2>3. \A n \in 0 .. m + 1 : g[n] = IF n = 0 THEN 1 ELSE absorb(g[n - 1], ns[n])
    <3> SUFFICES ASSUME NEW n \in 0 .. m + 1
                 PROVE  g[n] = IF n = 0 THEN 1 ELSE absorb(g[n - 1], ns[n])
      OBVIOUS
    <3>1. CASE n = m + 1
      <4>1. n # 0 /\ n - 1 = m /\ m \in 0 .. m + 1 /\ m # m + 1
        BY <3>1
      <4> QED
        BY <2>2, <3>1, <4>1
    <3>2. CASE n # m + 1
      <4>1. n \in 0 .. m /\ (n # 0 => n - 1 \in 0 .. m + 1 /\ n - 1 # m + 1)
        BY <3>2
      <4>2. f[n] = IF n = 0 THEN 1 ELSE absorb(f[n - 1], ns[n])
        BY <2>1, <4>1
      <4> QED
        BY <2>2, <3>2, <4>1, <4>2
    <3> QED
      BY <3>1, <3>2
  <2>4. g = [n \in 0 .. m + 1 |-> IF n = 0 THEN 1 ELSE absorb(g[n - 1], ns[n])]
    BY <2>2, <2>3
  <2> QED
    BY <2>4
<1>3. Len(ns) \in S
  <2> HIDE DEF S
  <2> QED
    BY <1>1, <1>2, Induct
<1> QED
  BY <1>3 DEF IsHash

(* The hash is a number. *)
LEMMA HashIsNumber ==
  ASSUME NEW ns, Len(ns) \in Nat, \A k \in 1 .. Len(ns) : ns[k] \in Int
  PROVE  Sha256(ns) \in Int
<1> DEFINE c == CHOOSE f : IsHash(f, ns)
<1>1. IsHash(c, ns)
  BY HashExists, Zenon
<1>2. Sha256(ns) = c[Len(ns)]
  BY Zenon DEF Sha256, IsHash
<1>3. PICK f : IsHash(f, ns) /\ Sha256(ns) = f[Len(ns)]
  BY <1>1, <1>2, Zenon
<1> DEFINE S == {n \in Nat : n <= Len(ns) => f[n] \in Int}
<1>4. \A n \in 0 .. Len(ns) : f[n] = IF n = 0 THEN 1 ELSE absorb(f[n - 1], ns[n])
  BY <1>3 DEF IsHash
<1>5. 0 \in S
  BY <1>4
<1>6. \A n \in Nat : n \in S => n + 1 \in S
  <2> SUFFICES ASSUME NEW n \in Nat, n \in S, n + 1 <= Len(ns) PROVE f[n + 1] \in Int
    OBVIOUS
  <2>1. n + 1 \in 0 .. Len(ns) /\ n + 1 # 0 /\ n + 1 - 1 = n /\ n + 1 \in 1 .. Len(ns) /\ n <= Len(ns)
    OBVIOUS
  <2>2. f[n + 1] = absorb(f[n], ns[n + 1])
    BY <1>4, <2>1
  <2> QED
    BY <2>1, <2>2, Absorbed
<1>7. Len(ns) \in S
  <2> HIDE DEF S
  <2> QED
    BY <1>5, <1>6, Induct
<1> QED
  BY <1>3, <1>7

(* A secret that is derived of a number is a number. *)
LEMMA SecretIsNumber ==
  ASSUME NEW seed \in Int, NEW n \in Nat
  PROVE  secretOf(seed, n) \in Int
<1> DEFINE i == secretIndex(n)
<1>1. PICK p : Walks(p, seed, i, Bits) /\ derive(seed, i, Bits) = p[0]
  <2> HIDE DEF i
  <2> QED
    BY Derivation, BitsAssumption
<1> HIDE DEF i
<1> DEFINE S == {m \in Nat : m <= Bits => p[Bits - m] \in Int}
<1>2. 0 \in S
  BY <1>1, BitsAssumption DEF Walks
<1>3. \A m \in Nat : m \in S => m + 1 \in S
  <2> SUFFICES ASSUME NEW m \in Nat, m \in S, m + 1 <= Bits PROVE p[Bits - (m + 1)] \in Int
    OBVIOUS
  <2>1. PICK b \in 0 .. Bits - 1 : b = Bits - (m + 1) /\ b + 1 = Bits - m
    BY BitsAssumption
  <2>2. p[b + 1] \in Int
    BY <2>1, BitsAssumption
  <2>3. FlipAndHash(p[b + 1], b) \in Int
    <3>1. PICK s \in Int : s = p[b + 1]
      BY <2>2
    <3>2. b \in Int /\ Len(<<s, b>>) = 2 /\ \A k \in 1 .. 2 : <<s, b>>[k] \in Int
      OBVIOUS
    <3>3. PICK ns : ns = <<s, b>>
      OBVIOUS
    <3>4. Sha256(ns) \in Int
      BY <3>2, <3>3, HashIsNumber
    <3> QED
      BY <3>1, <3>3, <3>4 DEF FlipAndHash
  <2>4. p[b] = Step(i, b, p[b + 1])
    BY <1>1, <2>1 DEF Walks, Along
  <2> QED
    BY <2>1, <2>2, <2>3, <2>4 DEF Step
<1>4. Bits \in S
  <2> HIDE DEF S
  <2> QED
    BY <1>2, <1>3, Induct, BitsAssumption
<1>5. p[Bits - Bits] \in Int /\ Bits - Bits = 0
  BY <1>4, BitsAssumption
<1> QED
  BY <1>1, <1>5, Zenon DEF secretOf, i

-----------------------------------------------------------------------------
(* Some number has any given bits... *)
LEMMA BitsExist ==
  ASSUME NEW T
  PROVE  \E x \in 0 .. MAX_COMMITMENT_NUMBER : \A a \in 0 .. Bits - 1 : HasBit(x, a) <=> a \in T
<1> DEFINE From(b, q) == \A a \in b .. Bits - 1 : HasBit(Pow2[b] * q, a) <=> a \in T
           Has(m) == \E q \in 0 .. Pow2[m] - 1 : From(Bits - m, q)
           S == {m \in Nat : m <= Bits => Has(m)}
<1>1. 0 \in S
  <2>1. 0 \in 0 .. Pow2[0] - 1
    BY Powers
  <2>2. Bits - 0 = Bits
    BY BitsAssumption
  <2>3. From(Bits, 0)
    BY BitsAssumption
  <2> HIDE DEF From
  <2> QED
    BY <2>1, <2>2, <2>3
<1>2. \A m \in Nat : m \in S => m + 1 \in S
  <2> SUFFICES ASSUME NEW m \in Nat, m \in S, m + 1 <= Bits PROVE Has(m + 1)
    OBVIOUS
  <2>1. PICK b \in 0 .. Bits - 1 : b = Bits - (m + 1) /\ b + 1 = Bits - m
    BY BitsAssumption
  <2>2. PICK q \in 0 .. Pow2[m] - 1 : From(b + 1, q)
    <3> HIDE DEF From
    <3>1. m <= Bits /\ Has(m)
      BY BitsAssumption
    <3> QED
      BY <2>1, <3>1
  <2>3. PICK p \in Nat : p = Pow2[b] /\ p >= 1 /\ Pow2[b + 1] = 2 * p
    BY <2>1, Powers, BitsAssumption
  <2>4. PICK t \in Nat : t = Pow2[m] /\ t >= 1 /\ Pow2[m + 1] = 2 * t
    <3>1. m \in 0 .. Bits - 1 /\ m \in 0 .. Bits
      BY BitsAssumption
    <3> QED
      BY <3>1, Powers
  <2>5. PICK e \in 0 .. 1 : e = 1 <=> b \in T
    <3>1. CASE b \in T
      BY <3>1
    <3>2. CASE b \notin T
      BY <3>2
    <3> QED
      BY <3>1, <3>2
  <2>6. q \in Nat /\ q <= t - 1
    BY <2>2, <2>4
  <2>7. 2 * q + e \in 0 .. Pow2[m + 1] - 1 /\ 2 * q + e \in Nat
    BY <2>4, <2>6
  <2>8. p * e \in 0 .. Pow2[b + 1] - 1
    <3>1. CASE e = 0
      BY <2>3, <3>1
    <3>2. CASE e = 1
      BY <2>3, <3>2
    <3> QED
      BY <3>1, <3>2
  <2>9. Pow2[b] * (2 * q + e) = Pow2[b + 1] * q + p * e
    BY <2>3, <2>6
  <2>10. \A a \in b + 1 .. Bits - 1 : HasBit(Pow2[b] * (2 * q + e), a) <=> a \in T
    <3>1. b + 1 \in 0 .. Bits
      BY BitsAssumption
    <3>2. PICK s \in 0 .. Pow2[b + 1] - 1 : s = p * e
      BY <2>8
    <3>3. \A a \in b + 1 .. Bits - 1 :
            HasBit(Pow2[b + 1] * q + s, a) <=> HasBit(Pow2[b + 1] * q, a)
      BY <2>6, <3>1, SameBits
    <3> QED
      BY <2>2, <2>9, <3>2, <3>3
  <2>11. HasBit(Pow2[b] * (2 * q + e), b) <=> b \in T
    <3>1. PICK k \in Nat : k = 2 * q + e
      BY <2>7
    <3>2. p * k = p * k + 0 /\ 0 \in 0 .. p - 1 /\ p * k \in Nat
      BY <2>3
    <3>3. (p * k) \div p = k
      BY <2>3, <3>2, Quotient
    <3>4. k % 2 = e
      BY <2>6, <3>1
    <3> QED
      BY <2>3, <2>5, <3>1, <3>3, <3>4 DEF HasBit
  <2>12. From(b, 2 * q + e)
    <3>1. b .. Bits - 1 = {b} \cup (b + 1 .. Bits - 1)
      BY BitsAssumption
    <3> QED
      BY <2>10, <2>11, <3>1
  <2> HIDE DEF From
  <2> QED
    BY <2>1, <2>7, <2>12
<1>3. Bits \in S
  <2> HIDE DEF S
  <2> QED
    BY <1>1, <1>2, Induct, BitsAssumption
<1>4. PICK x \in 0 .. Pow2[Bits] - 1 : From(0, x)
  <2>1. Bits - Bits = 0 /\ Bits <= Bits
    BY BitsAssumption
  <2> HIDE DEF From
  <2> QED
    BY <1>3, <2>1
<1>5. Pow2[0] * x = x
  <2>1. Pow2[0] = 1 /\ Pow2[Bits] \in Nat
    BY Powers, BitsAssumption
  <2> QED
    BY <2>1
<1> QED
  BY <1>4, <1>5 DEF MAX_COMMITMENT_NUMBER

(* ... and no other has. *)
LEMMA BitsDiffer ==
  ASSUME NEW x \in 0 .. MAX_COMMITMENT_NUMBER, NEW y \in 0 .. MAX_COMMITMENT_NUMBER,
         \A a \in 0 .. Bits - 1 : HasBit(x, a) <=> HasBit(y, a)
  PROVE  x = y
<1>1. x \in Nat /\ y \in Nat /\ x < Pow2[Bits] /\ y < Pow2[Bits] /\ Pow2[Bits] \in Nat
  BY Powers, BitsAssumption DEF MAX_COMMITMENT_NUMBER
<1> DEFINE S == {m \in Nat : m <= Bits => x \div Pow2[Bits - m] = y \div Pow2[Bits - m]}
<1>2. 0 \in S
  <2>1. PICK p \in Nat : p = Pow2[Bits] /\ p >= 1
    BY <1>1, Powers, BitsAssumption
  <2>2. x = p * 0 + x /\ y = p * 0 + y /\ x \in 0 .. p - 1 /\ y \in 0 .. p - 1
    BY <1>1, <2>1
  <2>3. x \div p = 0 /\ y \div p = 0
    BY <2>1, <2>2, Quotient
  <2>4. Bits - 0 = Bits
    BY BitsAssumption
  <2> QED
    BY <2>1, <2>3, <2>4
<1>3. \A m \in Nat : m \in S => m + 1 \in S
  <2> SUFFICES ASSUME NEW m \in Nat, m \in S, m + 1 <= Bits
               PROVE  x \div Pow2[Bits - (m + 1)] = y \div Pow2[Bits - (m + 1)]
    OBVIOUS
  <2>1. PICK b \in 0 .. Bits - 1 : b = Bits - (m + 1) /\ b + 1 = Bits - m
    BY BitsAssumption
  <2>2. x \div Pow2[b + 1] = y \div Pow2[b + 1]
    BY <2>1, BitsAssumption
  <2>3. PICK u \in Nat, v \in Nat : u = x \div Pow2[b] /\ v = y \div Pow2[b]
    <3>1. PICK p \in Nat : p = Pow2[b] /\ p >= 1
      BY <2>1, Powers, BitsAssumption
    <3>2. x \div p \in Nat /\ y \div p \in Nat
      BY <1>1, <3>1
    <3> QED
      BY <3>1, <3>2
  <2>4. u \div 2 = v \div 2
    BY <1>1, <2>1, <2>2, <2>3, Halving
  <2>5. u % 2 = 1 <=> v % 2 = 1
    BY <2>3 DEF HasBit
  <2>6. u = v
    <3>1. u = 2 * (u \div 2) + (u % 2) /\ v = 2 * (v \div 2) + (v % 2)
      OBVIOUS
    <3>2. u % 2 \in 0 .. 1 /\ v % 2 \in 0 .. 1
      OBVIOUS
    <3> QED
      BY <2>4, <2>5, <3>1, <3>2
  <2> QED
    BY <2>1, <2>3, <2>6
<1>4. Bits \in S
  <2> HIDE DEF S
  <2> QED
    BY <1>2, <1>3, Induct, BitsAssumption
<1>5. x \div 1 = y \div 1
  <2>1. Bits - Bits = 0 /\ Bits <= Bits /\ Pow2[0] = 1
    BY Powers, BitsAssumption
  <2> QED
    BY <1>4, <2>1
<1> QED
  BY <1>1, <1>5

(* Exclusive or is undone by itself. *)
IsXor(x, i, j) == \A b \in 0 .. Bits - 1 : HasBit(x, b) = (HasBit(i, b) # HasBit(j, b))

(* The exclusive or has the bits that differ. *)
LEMMA XorHas ==
  ASSUME NEW i, NEW j
  PROVE  xor(i, j) \in 0 .. MAX_COMMITMENT_NUMBER /\ IsXor(xor(i, j), i, j)
<1>1. \E x \in 0 .. MAX_COMMITMENT_NUMBER : IsXor(x, i, j)
  <2> DEFINE T == {b \in 0 .. Bits - 1 : HasBit(i, b) # HasBit(j, b)}
  <2>1. \A b \in 0 .. Bits - 1 : b \in T <=> HasBit(i, b) # HasBit(j, b)
    OBVIOUS
  <2> HIDE DEF T
  <2>2. PICK x \in 0 .. MAX_COMMITMENT_NUMBER : \A b \in 0 .. Bits - 1 : HasBit(x, b) <=> b \in T
    BY BitsExist
  <2>3. IsXor(x, i, j)
    BY <2>1, <2>2 DEF IsXor, HasBit
  <2> QED
    BY <2>3
<1>2. xor(i, j) = CHOOSE x \in 0 .. MAX_COMMITMENT_NUMBER : IsXor(x, i, j)
  BY Zenon DEF xor, IsXor
<1> QED
  BY <1>1, <1>2, Zenon

(* Taken twice, it gives the number back. *)
LEMMA XorUndone ==
  ASSUME NEW i, NEW n \in 0 .. MAX_COMMITMENT_NUMBER
  PROVE  xor(i, xor(i, n)) = n
<1>1. PICK o : o = xor(i, n)
  OBVIOUS
<1>2. IsXor(o, i, n)
  BY <1>1, XorHas
<1>3. PICK x \in 0 .. MAX_COMMITMENT_NUMBER : x = xor(i, o) /\ IsXor(x, i, o)
  BY XorHas
<1>4. \A b \in 0 .. Bits - 1 : HasBit(x, b) <=> HasBit(n, b)
  BY <1>2, <1>3 DEF IsXor, HasBit
<1>5. x = n
  BY <1>4, BitsDiffer
<1> QED
  BY <1>1, <1>3, <1>5

(* The number of a commitment is read back out of its transaction. *)
LEMMA NumberRevealed ==
  ASSUME NEW n \in 0 .. MAX_COMMITMENT_NUMBER, NEW P, NEW Q
  PROVE  LET o == obscure(n, P, Q) IN reveal(getLockTime(o), getSequence(o), P, Q) = n
<1>1. PICK h : h = getHash(P, Q)
  OBVIOUS
<1>2. PICK o \in 0 .. MAX_COMMITMENT_NUMBER : o = xor(h, n)
  BY XorHas
<1>3. obscure(n, P, Q) = o
  BY <1>1, <1>2 DEF obscure
<1>4. PICK p \in Nat : p = Half /\ p >= 1
  <2>1. Bits \div 2 \in 0 .. Bits
    BY BitsAssumption
  <2> QED
    BY <2>1, Powers DEF Half
<1>5. o \in Nat
  BY Powers, BitsAssumption DEF MAX_COMMITMENT_NUMBER
<1>6. (o \div p) * p + (o % p) = o
  BY <1>4, <1>5
<1>7. /\ getSequence(o)[2] = o \div p
      /\ getLockTime(o)[2] = o % p
  BY <1>4 DEF getSequence, getLockTime
<1>8. reveal(getLockTime(o), getSequence(o), P, Q) = xor(h, o)
  BY <1>1, <1>4, <1>6, <1>7 DEF reveal
<1> QED
  BY <1>2, <1>3, <1>8, XorUndone

-----------------------------------------------------------------------------
(* The items picked from a sequence, by the places they have in it. *)
Less(K) == {z \in K \X K : z[1] < z[2]}

(* The order of the places. *)
LEMMA LessOrders ==
  ASSUME NEW n \in Nat, NEW K, K \subseteq 1 .. n
  PROVE  /\ IsFiniteSet(K) /\ Cardinality(K) \in Nat /\ Orders(Less(K), K)
         /\ \A k \in K : Below(Less(K), K, k) = {j \in K : j < k}
<1>1. IsFiniteSet(K)
  <2>1. IsFiniteSet(1 .. n)
    <3>1. 1 \in Int /\ n \in Int
      OBVIOUS
    <3> QED
      BY <3>1, FS_Interval, Zenon
  <2> QED
    BY <2>1, FS_Subset
<1>2. \A j, k \in K : <<j, k>> \in Less(K) <=> j < k
  BY DEF Less
<1>3. \A k \in K : k \in Int
  OBVIOUS
<1>4. Orders(Less(K), K)
  <2>1. \A k \in K : <<k, k>> \notin Less(K)
    BY <1>2, <1>3
  <2>2. ASSUME NEW i \in K, NEW j \in K, NEW k \in K, <<i, j>> \in Less(K), <<j, k>> \in Less(K)
        PROVE  <<i, k>> \in Less(K)
    BY <1>2, <1>3, <2>2
  <2>3. ASSUME NEW j \in K, NEW k \in K
        PROVE  j = k \/ <<j, k>> \in Less(K) \/ <<k, j>> \in Less(K)
    BY <1>2, <1>3
  <2> QED
    BY <2>1, <2>2, <2>3 DEF Orders
<1>5. \A k \in K : Below(Less(K), K, k) = {j \in K : j < k}
  BY <1>2 DEF Below
<1> QED
  BY <1>1, <1>4, <1>5, FS_CardinalityType

(* What is picked is in the place it has among the picked. *)
LEMMA PickedPlaces ==
  ASSUME NEW n \in Nat, NEW K, K \subseteq 1 .. n, NEW s
  PROVE  /\ DOMAIN Picked(s, K) = 1 .. Cardinality(K) /\ Len(Picked(s, K)) = Cardinality(K)
         /\ \A k \in K : /\ Place(Less(K), K, k) \in 1 .. Cardinality(K)
                         /\ Picked(s, K)[Place(Less(K), K, k)] = s[k]
         /\ \A p \in 1 .. Cardinality(K) : \E k \in K : Place(Less(K), K, k) = p
<1> DEFINE place(k) == 1 + Cardinality({j \in K : j < k})
           at(p) == CHOOSE k \in K : place(k) = p
<1>1. Picked(s, K) = [p \in 1 .. Cardinality(K) |-> s[at(p)]]
  BY Zenon DEF Picked
<1>2. \A k \in K : place(k) = Place(Less(K), K, k)
  BY LessOrders DEF Place
<1>3. /\ IsFiniteSet(K) /\ Cardinality(K) \in Nat /\ Orders(Less(K), K)
  BY LessOrders
<1> HIDE DEF place
<1>4. /\ \A k \in K : place(k) \in 1 .. Cardinality(K)
      /\ \A j, k \in K : place(j) = place(k) => j = k
      /\ \A p \in 1 .. Cardinality(K) : \E k \in K : place(k) = p
  <2>1. /\ \A k \in K : Place(Less(K), K, k) \in 1 .. Cardinality(K)
        /\ \A j, k \in K : Place(Less(K), K, j) = Place(Less(K), K, k) => j = k
        /\ \A p \in 1 .. Cardinality(K) : \E k \in K : Place(Less(K), K, k) = p
    <3>1. Placed(Less(K), K)
      BY <1>3, Places
    <3> QED
      BY <3>1, Zenon DEF Placed
  <2> QED
    BY <1>2, <2>1
<1>5. \A k \in K : at(place(k)) = k
  BY <1>4
<1> HIDE DEF at
<1>6. \A k \in K : Picked(s, K)[place(k)] = s[k]
  BY <1>1, <1>4, <1>5
<1>7. DOMAIN Picked(s, K) = 1 .. Cardinality(K) /\ Len(Picked(s, K)) = Cardinality(K)
  BY <1>1, <1>3
<1> QED
  BY <1>2, <1>4, <1>6, <1>7

(* Turned round, an item has the place that it had from the end. *)
LEMMA PlaceTurned ==
  ASSUME NEW n \in Nat, NEW K, K \subseteq 1 .. n, NEW T, T = {n + 1 - k : k \in K}, NEW k \in K
  PROVE  /\ T \subseteq 1 .. n /\ Cardinality(T) = Cardinality(K) /\ n + 1 - k \in T
         /\ Place(Less(T), T, n + 1 - k) = Cardinality(K) + 1 - Place(Less(K), K, k)
<1> DEFINE f == [j \in K |-> n + 1 - j]
<1>1. \A j \in K : j \in Int
  OBVIOUS
<1>2. T \subseteq 1 .. n /\ \A j \in K : n + 1 - j \in T
  <2>1. \A j \in K : n + 1 - j \in 1 .. n
    OBVIOUS
  <2> QED
    BY <2>1
<1>3. IsFiniteSet(K) /\ Cardinality(K) \in Nat
  BY LessOrders
<1>4. Cardinality(T) = Cardinality(K)
  <2>1. \A j \in K : f[j] \in T
    BY <1>2
  <2>2. \A i, j \in K : f[i] = f[j] => i = j
    BY <1>1
  <2>3. \A i \in T : \E j \in K : f[j] = i
    OBVIOUS
  <2> HIDE DEF f
  <2> QED
    BY <1>3, <2>1, <2>2, <2>3, SameCount
<1> DEFINE A == {j \in K : j < k}
           B == {j \in K : k < j}
           C == {j \in T : j < n + 1 - k}
<1>5. /\ IsFiniteSet(A) /\ IsFiniteSet(B) /\ Cardinality(A) \in Nat /\ Cardinality(B) \in Nat
  <2>1. A \in SUBSET K /\ B \in SUBSET K
    OBVIOUS
  <2> HIDE DEF A, B
  <2>2. IsFiniteSet(A) /\ IsFiniteSet(B)
    BY <1>3, <2>1, FS_Subset
  <2> QED
    BY <2>2, FS_CardinalityType
<1>6. Cardinality(B) = Cardinality(C)
  <2> DEFINE g == [j \in B |-> n + 1 - j]
  <2>1. \A j \in B : g[j] \in C
    <3> SUFFICES ASSUME NEW j \in B PROVE n + 1 - j \in C
      OBVIOUS
    <3>1. j \in K /\ k < j /\ j \in Int /\ k \in Int
      BY <1>1
    <3>2. n + 1 - j < n + 1 - k
      BY <3>1
    <3> QED
      BY <1>2, <3>1, <3>2
  <2>2. \A i, j \in B : g[i] = g[j] => i = j
    BY <1>1
  <2>3. \A i \in C : \E j \in B : g[j] = i
    <3> SUFFICES ASSUME NEW i \in C PROVE \E j \in B : n + 1 - j = i
      OBVIOUS
    <3>1. PICK j \in K : i = n + 1 - j
      OBVIOUS
    <3>2. k < j
      BY <1>1, <3>1
    <3> QED
      BY <3>1, <3>2
  <2> HIDE DEF g, B, C
  <2> QED
    BY <1>5, <2>1, <2>2, <2>3, SameCount
<1>7. Cardinality(K) = Cardinality(A) + 1 + Cardinality(B)
  <2>1. K = (A \cup {k}) \cup B /\ (A \cup {k}) \cap B = {} /\ k \notin A
    <3>1. \A j \in K : j = k \/ j < k \/ k < j
      BY <1>1
    <3>2. \A j \in K : ~(j < k /\ k < j) /\ ~(k < k)
      BY <1>1
    <3> QED
      BY <3>1, <3>2
  <2> HIDE DEF A, B
  <2>2. IsFiniteSet(A \cup {k}) /\ Cardinality(A \cup {k}) = Cardinality(A) + 1
    BY <1>5, <2>1, FS_AddElement
  <2>3. Cardinality((A \cup {k}) \cup B) = Cardinality(A \cup {k}) + Cardinality(B) - Cardinality({})
    <3>1. PICK U : U = A \cup {k}
      OBVIOUS
    <3>2. Cardinality(U \cup B) = Cardinality(U) + Cardinality(B) - Cardinality(U \cap B)
      BY <1>5, <2>2, <3>1, FS_Union
    <3> QED
      BY <2>1, <3>1, <3>2
  <2>4. Cardinality({}) = 0
    BY FS_EmptySet
  <2> QED
    BY <1>5, <2>1, <2>2, <2>3, <2>4
<1>8. Below(Less(K), K, k) = A
  BY LessOrders
<1>9. Below(Less(T), T, n + 1 - k) = C
  BY <1>2, LessOrders
<1> HIDE DEF A, B, C
<1>10. Place(Less(T), T, n + 1 - k) = Cardinality(K) + 1 - Place(Less(K), K, k)
  BY <1>5, <1>6, <1>7, <1>8, <1>9 DEF Place
<1> QED
  BY <1>2, <1>4, <1>10

-----------------------------------------------------------------------------
(* An HTLC as the counterpart sees it. *)
Turn(h) == [h EXCEPT !.direction = IF @ = "offered" THEN "accepted" ELSE "offered"]

(* It differs in the direction alone. *)
LEMMA TurnedHtlc ==
  ASSUME NEW h \in Htlcs
  PROVE  /\ h.direction \in {"offered", "accepted"} /\ h.value \in Amount
         /\ h.cltvExpiry \in Nat /\ h.paymentHash \in Nat
         /\ h = [direction |-> h.direction, value |-> h.value, cltvExpiry |-> h.cltvExpiry,
                 paymentHash |-> h.paymentHash]
         /\ Turn(h) = [direction |-> IF h.direction = "offered" THEN "accepted" ELSE "offered",
                       value |-> h.value, cltvExpiry |-> h.cltvExpiry,
                       paymentHash |-> h.paymentHash]
<1>1. h \in [direction : {"offered", "accepted"}, value : Amount, cltvExpiry : Nat,
             paymentHash : Nat]
  BY LedgerAssumption
<1>2. PICK d \in {"offered", "accepted"}, v \in Amount, e \in Nat, y \in Nat :
        h = [direction |-> d, value |-> v, cltvExpiry |-> e, paymentHash |-> y]
  BY <1>1
<1> QED
  BY <1>2 DEF Turn

(* The arguments of createCommitment for one commitment as its two ends    *)
(* see it: the HTLCs are turned, and listed the other way round.           *)
Typed(c) ==
    /\ c.htlcs \in Seq(Htlcs) /\ c.reverseHtlcs \in BOOLEAN
    /\ c.feePerKw \in Int /\ c.localDelay \in Int
    /\ sats(c.localValue) \in Int /\ sats(c.remoteValue) \in Int
    /\ c.revocationPubKey.dlog \in Int /\ c.delayedPubKey.dlog \in Int
    /\ c.remotePubKey.dlog \in Int /\ c.localHtlcPubKey.dlog \in Int
    /\ c.remoteHtlcPubKey.dlog \in Int
    /\ c.commitmentNumber \in 0 .. MAX_COMMITMENT_NUMBER

AgreedTerms(c, d) ==
    /\ d.isFunderLocal = c.isFunderLocal /\ d.commitmentNumber = c.commitmentNumber
    /\ d.openPaymentBasePoint = c.openPaymentBasePoint
    /\ d.acceptPaymentBasePoint = c.acceptPaymentBasePoint
    /\ d.fundingOutPoint = c.fundingOutPoint /\ d.dustLimit = c.dustLimit
    /\ d.feePerKw = c.feePerKw /\ d.localDelay = c.localDelay
    /\ d.localValue = c.localValue /\ d.remoteValue = c.remoteValue
    /\ d.revocationPubKey = c.revocationPubKey /\ d.delayedPubKey = c.delayedPubKey
    /\ d.remotePubKey = c.remotePubKey /\ d.localHtlcPubKey = c.localHtlcPubKey
    /\ d.remoteHtlcPubKey = c.remoteHtlcPubKey

Mirrors(c, d) ==
    /\ AgreedTerms(c, d)
    /\ d.reverseHtlcs = ~c.reverseHtlcs /\ d.htlcs = AsSeenByPeer(c.htlcs)

(* The list the other way round. *)
LEMMA SeenByPeer ==
  ASSUME NEW hs \in Seq(Htlcs)
  PROVE  /\ Len(AsSeenByPeer(hs)) = Len(hs) /\ DOMAIN AsSeenByPeer(hs) = 1 .. Len(hs)
         /\ \A k \in 1 .. Len(hs) : AsSeenByPeer(hs)[Len(hs) + 1 - k] = Turn(hs[k])
<1>1. PICK n \in Nat : n = Len(hs) /\ DOMAIN hs = 1 .. n
  OBVIOUS
<1>2. Turned(hs) = [k \in 1 .. n |-> Turn(hs[k])]
  BY <1>1 DEF Turned, Turn
<1>3. PICK t : t = Turned(hs)
  OBVIOUS
<1>4. Len(t) = n /\ \A k \in 1 .. n : t[k] = Turn(hs[k])
  BY <1>2, <1>3
<1>5. AsSeenByPeer(hs) = [i \in 1 .. n |-> t[(n - i) + 1]]
  BY <1>3, <1>4 DEF AsSeenByPeer, Reverse
<1>6. ASSUME NEW k \in 1 .. n PROVE AsSeenByPeer(hs)[n + 1 - k] = Turn(hs[k])
  <2>1. n + 1 - k \in 1 .. n /\ (n - (n + 1 - k)) + 1 = k
    OBVIOUS
  <2> QED
    BY <1>4, <1>5, <2>1
<1> QED
  BY <1>1, <1>5, <1>6

(* Whoever holds a commitment, an HTLC in it has the same weight and is    *)
(* paid to the same script.                                                *)
LEMMA TurnedOutput ==
  ASSUME NEW c, NEW d, Typed(c), Mirrors(c, d), NEW h \in Htlcs
  PROVE  /\ IsUnpruned(d, Turn(h)) <=> IsUnpruned(c, h)
         /\ HtlcOutput(d, Turn(h)) = HtlcOutput(c, h)
<1>1. /\ Turn(h).value = h.value /\ Turn(h).cltvExpiry = h.cltvExpiry
      /\ Turn(h).paymentHash = h.paymentHash
      /\ Turn(h).direction = "offered" <=> h.direction # "offered"
  BY TurnedHtlc
<1>2. OfferedByHolder(Turn(h), d.reverseHtlcs) <=> OfferedByHolder(h, c.reverseHtlcs)
  BY <1>1 DEF OfferedByHolder, Mirrors, Typed
<1>3. HtlcWeight(Turn(h), d.reverseHtlcs) = HtlcWeight(h, c.reverseHtlcs)
  BY <1>2 DEF HtlcWeight
<1>4. AgreedTerms(c, d)
  BY DEF Mirrors
<1>5. IsUnpruned(d, Turn(h)) <=> IsUnpruned(c, h)
  BY <1>1, <1>3, <1>4 DEF IsUnpruned, AgreedTerms
<1>6. HtlcOutput(d, Turn(h)) = HtlcOutput(c, h)
  BY <1>1, <1>2, <1>4 DEF HtlcOutput, AgreedTerms
<1> QED
  BY <1>5, <1>6

(* The HTLCs that are kept are the same, the other way round. *)
LEMMA KeptTurned ==
  ASSUME NEW c, NEW d, Typed(c), Mirrors(c, d)
  PROVE  \E m \in Nat :
            /\ Len(unprunedHtlcs(c)) = m /\ DOMAIN unprunedHtlcs(c) = 1 .. m
            /\ Len(unprunedHtlcs(d)) = m /\ DOMAIN unprunedHtlcs(d) = 1 .. m
            /\ \A k \in 1 .. m : /\ unprunedHtlcs(c)[k] \in Htlcs
                                 /\ unprunedHtlcs(d)[m + 1 - k] = Turn(unprunedHtlcs(c)[k])
<1>1. PICK hs \in Seq(Htlcs) : hs = c.htlcs
  BY DEF Typed
<1>2. PICK n \in Nat : n = Len(hs) /\ DOMAIN hs = 1 .. n /\ \A k \in 1 .. n : hs[k] \in Htlcs
  OBVIOUS
<1>3. PICK gs : gs = d.htlcs
  OBVIOUS
<1>4. DOMAIN gs = 1 .. n /\ \A k \in 1 .. n : gs[n + 1 - k] = Turn(hs[k])
  <2>1. gs = AsSeenByPeer(hs)
    BY <1>1, <1>3 DEF Mirrors
  <2> QED
    BY <1>2, <2>1, SeenByPeer
<1> DEFINE K == {k \in 1 .. n : IsUnpruned(c, hs[k])}
           T == {n + 1 - k : k \in K}
<1>5. unprunedHtlcs(c) = Picked(hs, K)
  BY <1>1, <1>2 DEF unprunedHtlcs
<1>6. {k \in 1 .. n : IsUnpruned(d, gs[k])} = T
  <2>1. ASSUME NEW k \in 1 .. n PROVE IsUnpruned(d, gs[n + 1 - k]) <=> IsUnpruned(c, hs[k])
    BY <1>2, <1>4, TurnedOutput
  <2>2. ASSUME NEW i \in 1 .. n PROVE IsUnpruned(d, gs[i]) <=> i \in T
    <3>1. PICK k \in 1 .. n : k = n + 1 - i /\ i = n + 1 - k
      OBVIOUS
    <3>2. i \in T <=> k \in K
      <4>1. \A j \in K : n + 1 - j = i => j = k
        BY <3>1
      <4> QED
        BY <3>1, <4>1
    <3> QED
      BY <2>1, <3>1, <3>2
  <2>3. T \subseteq 1 .. n
    OBVIOUS
  <2> HIDE DEF T
  <2> QED
    BY <2>2, <2>3
<1>7. unprunedHtlcs(d) = Picked(gs, T)
  BY <1>3, <1>4, <1>6 DEF unprunedHtlcs
<1>8. K \subseteq 1 .. n
  OBVIOUS
<1>t. ASSUME NEW k \in K
      PROVE  /\ T \subseteq 1 .. n /\ Cardinality(T) = Cardinality(K) /\ n + 1 - k \in T
             /\ Place(Less(T), T, n + 1 - k) = Cardinality(K) + 1 - Place(Less(K), K, k)
  <2>1. T = {n + 1 - j : j \in K}
    OBVIOUS
  <2> HIDE DEF K, T
  <2> QED
    BY <1>8, <2>1, PlaceTurned, ZenonT(60)
<1>9. \A k \in K : k \in 1 .. n /\ hs[k] \in Htlcs
  BY <1>2
<1>10. T \subseteq 1 .. n
  OBVIOUS
<1>11. K = {} => T = {}
  OBVIOUS
<1> HIDE DEF K, T
<1>12. PICK m \in Nat : m = Cardinality(K)
  BY <1>8, LessOrders
<1>13. Cardinality(T) = m
  BY <1>11, <1>12, <1>t
<1>14. /\ Len(unprunedHtlcs(c)) = m /\ DOMAIN unprunedHtlcs(c) = 1 .. m
       /\ Len(unprunedHtlcs(d)) = m /\ DOMAIN unprunedHtlcs(d) = 1 .. m
  BY <1>5, <1>7, <1>8, <1>10, <1>12, <1>13, PickedPlaces
<1>15. ASSUME NEW p \in 1 .. m
       PROVE  /\ unprunedHtlcs(c)[p] \in Htlcs
              /\ unprunedHtlcs(d)[m + 1 - p] = Turn(unprunedHtlcs(c)[p])
  <2>1. PICK k \in K : Place(Less(K), K, k) = p
    BY <1>8, <1>12, PickedPlaces
  <2>2. Picked(hs, K)[p] = hs[k]
    BY <1>8, <2>1, PickedPlaces, ZenonT(30)
  <2>3. n + 1 - k \in T /\ Place(Less(T), T, n + 1 - k) = m + 1 - p
    BY <1>12, <1>t, <2>1
  <2>4. Picked(gs, T)[m + 1 - p] = gs[n + 1 - k]
    <3>1. PICK i \in T : i = n + 1 - k
      BY <2>3
    <3>2. Picked(gs, T)[Place(Less(T), T, i)] = gs[i]
      BY <1>10, PickedPlaces
    <3> QED
      BY <2>3, <3>1, <3>2
  <2> QED
    BY <1>4, <1>5, <1>7, <1>9, <2>2, <2>4
<1> QED
  BY <1>14, <1>15

(* The outputs that pay a balance, and those that pay an HTLC. *)
BalanceLocks(c) == {toLocalScript(c.revocationPubKey, c.delayedPubKey, c.localDelay),
                    p2wpkhLock(c.remotePubKey)}
PaysBalance(c, x) ==
    \E v, lock : /\ sats(v) \in Int /\ lock \in BalanceLocks(c)
                 /\ x = [out |-> TxOut(v, lock), htlc |-> << >>]
PaysHtlc(c, x, h) == x = [out |-> HtlcOutput(c, h), htlc |-> <<h>>]

(* One output as the two ends see it. *)
OneOutput(c, x, y) ==
    \/ x = y /\ PaysBalance(c, x)
    \/ \E h \in Htlcs : /\ PaysHtlc(c, x, h)
                        /\ y = [out |-> HtlcOutput(c, h), htlc |-> <<Turn(h)>>]

(* What the balances leave of the outputs. *)
BalancesPaid(c, fee) ==
    <<unlessDust(c, IF c.isFunderLocal THEN AfterFee(c.localValue, fee) ELSE c.localValue,
                 toLocalScript(c.revocationPubKey, c.delayedPubKey, c.localDelay)),
      unlessDust(c, IF c.isFunderLocal THEN c.remoteValue ELSE AfterFee(c.remoteValue, fee),
                 p2wpkhLock(c.remotePubKey))>>

(* A balance takes one output, or none if it is dust. *)
LEMMA BalanceOutputs ==
  ASSUME NEW c, Typed(c), NEW fee \in Int
  PROVE  /\ \E a : PaysBalance(c, a) /\ BalancesPaid(c, fee)[1] \in {<< >>, <<a>>}
         /\ \E a : PaysBalance(c, a) /\ BalancesPaid(c, fee)[2] \in {<< >>, <<a>>}
<1>1. ASSUME NEW v, sats(v) \in Int PROVE sats(AfterFee(v, fee)) \in Int
  BY <1>1 DEF AfterFee, sats, fromSats, zero
<1>2. ASSUME NEW v, sats(v) \in Int, NEW lock \in BalanceLocks(c)
      PROVE  \E a : PaysBalance(c, a) /\ unlessDust(c, v, lock) \in {<< >>, <<a>>}
  <2>1. PICK a : a = [out |-> TxOut(v, lock), htlc |-> << >>]
    OBVIOUS
  <2>2. PaysBalance(c, a)
    BY <1>2, <2>1 DEF PaysBalance
  <2>3. unlessDust(c, v, lock) \in {<< >>, <<a>>}
    BY <2>1 DEF unlessDust
  <2> QED
    BY <2>2, <2>3
<1> DEFINE v == IF c.isFunderLocal THEN AfterFee(c.localValue, fee) ELSE c.localValue
           w == IF c.isFunderLocal THEN c.remoteValue ELSE AfterFee(c.remoteValue, fee)
<1>3. sats(v) \in Int /\ sats(w) \in Int
  <2>1. sats(c.localValue) \in Int /\ sats(c.remoteValue) \in Int
    BY DEF Typed
  <2> QED
    BY <1>1, <2>1
<1> HIDE DEF v, w
<1>4. /\ BalancesPaid(c, fee)[1]
           = unlessDust(c, v, toLocalScript(c.revocationPubKey, c.delayedPubKey, c.localDelay))
      /\ BalancesPaid(c, fee)[2] = unlessDust(c, w, p2wpkhLock(c.remotePubKey))
  BY DEF BalancesPaid, v, w
<1>5. /\ toLocalScript(c.revocationPubKey, c.delayedPubKey, c.localDelay) \in BalanceLocks(c)
      /\ p2wpkhLock(c.remotePubKey) \in BalanceLocks(c)
  BY DEF BalanceLocks
<1> QED
  BY <1>2, <1>3, <1>4, <1>5

HtlcsPaid(c, kept, m) ==
    [k \in 1 .. m |-> [out |-> HtlcOutput(c, kept[k]), htlc |-> <<kept[k]>>]]

BaseFee(m, feePerKw) == FeesFor(724 + 172 * m, feePerKw)

(* The outputs of a commitment: the HTLCs, then the balances. *)
LEMMA OutputsListed ==
  ASSUME NEW c, NEW m, m = Len(unprunedHtlcs(c)),
         NEW fee, fee = BaseFee(m, c.feePerKw)
  PROVE  commitmentOutputs(c) = HtlcsPaid(c, unprunedHtlcs(c), m)
                                \o BalancesPaid(c, fee)[1] \o BalancesPaid(c, fee)[2]
<1> DEFINE K == unprunedHtlcs(c)
           F == FeesFor(724 + 172 * Len(K), c.feePerKw)
           H == [k \in 1 .. Len(K) |-> [out |-> HtlcOutput(c, K[k]), htlc |-> <<K[k]>>]]
           X == unlessDust(c, IF c.isFunderLocal THEN AfterFee(c.localValue, F) ELSE c.localValue,
                           toLocalScript(c.revocationPubKey, c.delayedPubKey, c.localDelay))
           Y == unlessDust(c, IF c.isFunderLocal THEN c.remoteValue ELSE AfterFee(c.remoteValue, F),
                           p2wpkhLock(c.remotePubKey))
<1>1. commitmentOutputs(c) = H \o X \o Y
  BY Zenon DEF commitmentOutputs
<1>2. BalancesPaid(c, F) = <<X, Y>>
  BY Zenon DEF BalancesPaid
<1>3. fee = F
  BY Zenon DEF BaseFee
<1>4. HtlcsPaid(c, K, m) = H
  BY Zenon DEF HtlcsPaid
<1> HIDE DEF X, Y, H, F, K
<1>5. BalancesPaid(c, F)[1] = X /\ BalancesPaid(c, F)[2] = Y
  BY <1>2
<1>6. BalancesPaid(c, fee)[1] = X /\ BalancesPaid(c, fee)[2] = Y
  BY <1>3, <1>5, Zenon
<1>7. unprunedHtlcs(c) = K
  BY DEF K
<1> QED
  BY <1>1, <1>4, <1>6, <1>7, Zenon

(* The two ends list the same outputs, the HTLCs the other way round. *)
LEMMA OutputsTurned ==
  ASSUME NEW c, NEW d, Typed(c), Mirrors(c, d)
  PROVE  \E n \in Nat : \E f \in [1 .. n -> 1 .. n] :
            /\ DOMAIN commitmentOutputs(c) = 1 .. n /\ DOMAIN commitmentOutputs(d) = 1 .. n
            /\ \A j, k \in 1 .. n : f[j] = f[k] => j = k
            /\ \A i \in 1 .. n : \E j \in 1 .. n : f[j] = i
            /\ \A k \in 1 .. n : OneOutput(c, commitmentOutputs(c)[k], commitmentOutputs(d)[f[k]])
<1>1. PICK m \in Nat :
            /\ Len(unprunedHtlcs(c)) = m /\ DOMAIN unprunedHtlcs(c) = 1 .. m
            /\ Len(unprunedHtlcs(d)) = m /\ DOMAIN unprunedHtlcs(d) = 1 .. m
            /\ \A k \in 1 .. m : /\ unprunedHtlcs(c)[k] \in Htlcs
                                 /\ unprunedHtlcs(d)[m + 1 - k] = Turn(unprunedHtlcs(c)[k])
  BY KeptTurned
<1>2. PICK kc, kd : kc = unprunedHtlcs(c) /\ kd = unprunedHtlcs(d)
  OBVIOUS
<1>3. PICK fee \in Int : fee = BaseFee(m, c.feePerKw)
  <2>1. PICK x \in Int : x = c.feePerKw
    BY DEF Typed
  <2>2. (724 + 172 * m) * x \in Int
    OBVIOUS
  <2> QED
    BY <2>1, <2>2 DEF FeesFor, BaseFee
<1>4. BalancesPaid(c, fee) = BalancesPaid(d, fee) /\ d.feePerKw = c.feePerKw
  <2>1. AgreedTerms(c, d)
    BY DEF Mirrors
  <2> QED
    BY <2>1 DEF BalancesPaid, unlessDust, AgreedTerms
<1>5. PICK l, r : l = BalancesPaid(c, fee)[1] /\ r = BalancesPaid(c, fee)[2]
  OBVIOUS
<1>6. PICK a : PaysBalance(c, a) /\ l \in {<< >>, <<a>>}
  BY <1>5, BalanceOutputs
<1>7. PICK b : PaysBalance(c, b) /\ r \in {<< >>, <<b>>}
  BY <1>5, BalanceOutputs
<1>8. PICK hc : hc = [k \in 1 .. m |-> [out |-> HtlcOutput(c, kc[k]), htlc |-> <<kc[k]>>]]
  OBVIOUS
<1>9. PICK hd : hd = [k \in 1 .. m |-> [out |-> HtlcOutput(d, kd[k]), htlc |-> <<kd[k]>>]]
  OBVIOUS
<1>10. /\ commitmentOutputs(c) = hc \o l \o r
       /\ commitmentOutputs(d) = hd \o l \o r
  <2>1. commitmentOutputs(c) = hc \o l \o r
    <3>1. m = Len(kc)
      BY <1>1, <1>2
    <3> QED
      <4>1. commitmentOutputs(c) = HtlcsPaid(c, unprunedHtlcs(c), m)
                                   \o BalancesPaid(c, fee)[1] \o BalancesPaid(c, fee)[2]
        BY <1>2, <1>3, <3>1, OutputsListed, Zenon
      <4>2. HtlcsPaid(c, unprunedHtlcs(c), m) = hc
        BY <1>2, <1>8, Zenon DEF HtlcsPaid
      <4> QED
        BY <1>5, <4>1, <4>2, Zenon
  <2>2. commitmentOutputs(d) = hd \o l \o r
    <3>1. m = Len(kd) /\ fee = BaseFee(m, d.feePerKw)
      BY <1>1, <1>2, <1>3, <1>4
    <3>2. l = BalancesPaid(d, fee)[1] /\ r = BalancesPaid(d, fee)[2]
      BY <1>4, <1>5
    <3> QED
      <4>1. commitmentOutputs(d) = HtlcsPaid(d, unprunedHtlcs(d), m)
                                   \o BalancesPaid(d, fee)[1] \o BalancesPaid(d, fee)[2]
        BY <1>2, <3>1, OutputsListed, Zenon
      <4>2. HtlcsPaid(d, unprunedHtlcs(d), m) = hd
        BY <1>2, <1>9, Zenon DEF HtlcsPaid
      <4> QED
        BY <3>2, <4>1, <4>2, Zenon
  <2> QED
    BY <2>1, <2>2
<1> DEFINE U == {hc[k] : k \in 1 .. m} \cup {hd[k] : k \in 1 .. m} \cup {a, b}
<1>11. hc \in Seq(U) /\ hd \in Seq(U) /\ Len(hc) = m /\ Len(hd) = m
  <2>1. \A k \in 1 .. m : hc[k] \in U /\ hd[k] \in U
    OBVIOUS
  <2> HIDE DEF U
  <2>2. DOMAIN hc = 1 .. m /\ hc = [k \in 1 .. m |-> hc[k]]
    BY <1>8
  <2>3. DOMAIN hd = 1 .. m /\ hd = [k \in 1 .. m |-> hd[k]]
    BY <1>9
  <2>4. hc \in [1 .. m -> U] /\ hd \in [1 .. m -> U]
    BY <2>1, <2>2, <2>3
  <2> QED
    BY <2>4
<1>12. l \in Seq(U) /\ r \in Seq(U) /\ Len(l) \in Nat /\ Len(r) \in Nat
  <2>1. << >> \in Seq(U) /\ <<a>> \in Seq(U) /\ <<b>> \in Seq(U)
    OBVIOUS
  <2> HIDE DEF U
  <2> QED
    BY <1>6, <1>7, <2>1
<1> HIDE DEF U
<1>13. PICK n \in Nat : n = m + Len(l) + Len(r)
  BY <1>12
<1>14. ASSUME NEW h, h \in Seq(U), Len(h) = m
       PROVE  /\ DOMAIN (h \o l \o r) = 1 .. n
              /\ \A k \in 1 .. m : (h \o l \o r)[k] = h[k]
              /\ \A k \in m + 1 .. m + Len(l) : (h \o l \o r)[k] = l[k - m]
              /\ \A k \in m + Len(l) + 1 .. n : (h \o l \o r)[k] = r[k - (m + Len(l))]
  <2>1. PICK s : s = h \o l
    OBVIOUS
  <2>2. /\ s \in Seq(U) /\ Len(s) = m + Len(l)
        /\ \A k \in 1 .. m : s[k] = h[k]
        /\ \A k \in m + 1 .. m + Len(l) : s[k] = l[k - m]
    BY <1>12, <1>14, <2>1
  <2>3. PICK i \in Nat : i = m + Len(l)
    BY <1>12
  <2>4. /\ DOMAIN (s \o r) = 1 .. i + Len(r)
        /\ \A k \in 1 .. i : (s \o r)[k] = s[k]
        /\ \A k \in i + 1 .. i + Len(r) : (s \o r)[k] = r[k - i]
    <3>1. s \in Seq(U) /\ r \in Seq(U) /\ Len(s) = i
      BY <1>12, <2>2, <2>3
    <3> QED
      BY <3>1
  <2>5. /\ \A k \in 1 .. m : k \in 1 .. i
        /\ \A k \in m + 1 .. m + Len(l) : k \in 1 .. i
    BY <1>12, <2>3
  <2> QED
    BY <1>12, <1>13, <2>1, <2>2, <2>3, <2>4, <2>5
<1> DEFINE f == [k \in 1 .. n |-> IF k \in 1 .. m THEN m + 1 - k ELSE k]
           xs == commitmentOutputs(c)
           ys == commitmentOutputs(d)
<1>15. m <= n
  BY <1>12, <1>13
<1>16. f \in [1 .. n -> 1 .. n]
  BY <1>15
<1>17. \A j, k \in 1 .. n : f[j] = f[k] => j = k
  BY <1>15
<1>18. \A i \in 1 .. n : \E j \in 1 .. n : f[j] = i
  <2> SUFFICES ASSUME NEW i \in 1 .. n PROVE \E j \in 1 .. n : f[j] = i
    OBVIOUS
  <2>1. CASE i \in 1 .. m
    <3>1. m + 1 - i \in 1 .. m /\ m + 1 - i \in 1 .. n /\ m + 1 - (m + 1 - i) = i
      BY <1>15, <2>1
    <3>2. f[m + 1 - i] = i
      BY <3>1
    <3> QED
      BY <3>1, <3>2
  <2>2. CASE i \notin 1 .. m
    BY <2>2
  <2> QED
    BY <2>1, <2>2
<1>19. ASSUME NEW k \in 1 .. n PROVE OneOutput(c, xs[k], ys[f[k]])
  <2>1. CASE k \in 1 .. m
    <3>1. m + 1 - k \in 1 .. m /\ f[k] = m + 1 - k
      BY <2>1
    <3>2. xs[k] = hc[k] /\ ys[m + 1 - k] = hd[m + 1 - k]
      BY <1>10, <1>11, <1>14, <2>1, <3>1
    <3>3. PICK h \in Htlcs : h = kc[k] /\ kd[m + 1 - k] = Turn(h)
      BY <1>1, <1>2, <2>1
    <3>4. xs[k] = [out |-> HtlcOutput(c, h), htlc |-> <<h>>]
      BY <1>8, <2>1, <3>2, <3>3
    <3>5. ys[m + 1 - k] = [out |-> HtlcOutput(d, Turn(h)), htlc |-> <<Turn(h)>>]
      BY <1>9, <3>1, <3>2, <3>3
    <3>6. HtlcOutput(d, Turn(h)) = HtlcOutput(c, h)
      BY TurnedOutput
    <3> QED
      BY <3>1, <3>4, <3>5, <3>6 DEF OneOutput, PaysHtlc
  <2>2. CASE k \in m + 1 .. m + Len(l)
    <3>1. xs[k] = l[k - m] /\ ys[k] = l[k - m] /\ f[k] = k
      BY <1>10, <1>11, <1>14, <2>2
    <3>2. l = <<a>> /\ k - m = 1
      <4>1. l # << >>
        BY <2>2
      <4>2. l = <<a>>
        BY <1>6, <4>1
      <4> QED
        BY <2>2, <4>2
    <3> QED
      BY <1>6, <3>1, <3>2 DEF OneOutput
  <2>3. CASE k \in m + Len(l) + 1 .. n
    <3>1. xs[k] = r[k - (m + Len(l))] /\ ys[k] = r[k - (m + Len(l))] /\ f[k] = k
      BY <1>10, <1>11, <1>12, <1>14, <2>3
    <3>2. r = <<b>> /\ k - (m + Len(l)) = 1
      <4>1. r # << >>
        BY <1>12, <1>13, <2>3
      <4>2. r = <<b>>
        BY <1>7, <4>1
      <4>3. Len(r) = 1
        BY <4>2
      <4> QED
        BY <1>12, <1>13, <2>3, <4>2, <4>3
    <3> QED
      BY <1>7, <3>1, <3>2 DEF OneOutput
  <2> QED
    BY <1>12, <1>13, <2>1, <2>2, <2>3
<1>20. DOMAIN xs = 1 .. n /\ DOMAIN ys = 1 .. n
  BY <1>10, <1>11, <1>14
<1> HIDE DEF f, xs, ys
<1> QED
  BY <1>16, <1>17, <1>18, <1>19, <1>20 DEF xs, ys

-----------------------------------------------------------------------------
(* What the outputs of a commitment are sorted by. *)
Sortable(a) ==
    /\ sats(a.out.value) \in Int /\ a.out.lock.size \in Int /\ a.out.lock.hash \in Int
    /\ a.htlc # << >> => a.htlc[1].cltvExpiry \in Int
OneHash(a, b) == a.out.lock.size = b.out.lock.size /\ a.out.lock.hash = b.out.lock.hash

(* Of outputs whose scripts tell balances from HTLCs, isBefore is a        *)
(* ranking.                                                                *)
LEMMA Sorts ==
  ASSUME NEW a, NEW b, NEW d, Sortable(a), Sortable(b), Sortable(d),
         OneHash(a, b) => (a.htlc = << >> <=> b.htlc = << >>),
         OneHash(b, d) => (b.htlc = << >> <=> d.htlc = << >>)
  PROVE  /\ isBefore(a, b) => ~isBefore(b, a)
         /\ isBefore(a, d) => isBefore(a, b) \/ isBefore(b, d)
<1>1. PICK va \in Int, vb \in Int, vd \in Int, sa \in Int, sb \in Int, sd \in Int,
           ha \in Int, hb \in Int, hd \in Int :
        /\ va = sats(a.out.value) /\ vb = sats(b.out.value) /\ vd = sats(d.out.value)
        /\ sa = a.out.lock.size /\ sb = b.out.lock.size /\ sd = d.out.lock.size
        /\ ha = a.out.lock.hash /\ hb = b.out.lock.hash /\ hd = d.out.lock.hash
  BY DEF Sortable
<1>2. PICK na \in BOOLEAN, nb \in BOOLEAN, nd \in BOOLEAN :
        /\ na <=> a.htlc # << >>
        /\ nb <=> b.htlc # << >>
        /\ nd <=> d.htlc # << >>
  <2>1. /\ (a.htlc # << >>) \in BOOLEAN /\ (b.htlc # << >>) \in BOOLEAN
        /\ (d.htlc # << >>) \in BOOLEAN
    OBVIOUS
  <2> QED
    BY <2>1
<1>3. PICK ea \in Int, eb \in Int, ed \in Int :
        /\ na => ea = a.htlc[1].cltvExpiry
        /\ nb => eb = b.htlc[1].cltvExpiry
        /\ nd => ed = d.htlc[1].cltvExpiry
  <2>1. PICK ea \in Int : na => ea = a.htlc[1].cltvExpiry
    BY <1>2 DEF Sortable
  <2>2. PICK eb \in Int : nb => eb = b.htlc[1].cltvExpiry
    BY <1>2 DEF Sortable
  <2>3. PICK ed \in Int : nd => ed = d.htlc[1].cltvExpiry
    BY <1>2 DEF Sortable
  <2> QED
    BY <2>1, <2>2, <2>3
<1> DEFINE lower(v1, s1, h1, v2, s2, h2) ==
                v1 < v2 \/ (v1 = v2 /\ (s1 < s2 \/ (s1 = s2 /\ h1 < h2)))
<1>4. /\ isBefore(a, b) <=> lower(va, sa, ha, vb, sb, hb)
                            \/ (~lower(vb, sb, hb, va, sa, ha) /\ na /\ nb /\ ea < eb)
      /\ isBefore(b, a) <=> lower(vb, sb, hb, va, sa, ha)
                            \/ (~lower(va, sa, ha, vb, sb, hb) /\ nb /\ na /\ eb < ea)
      /\ isBefore(a, d) <=> lower(va, sa, ha, vd, sd, hd)
                            \/ (~lower(vd, sd, hd, va, sa, ha) /\ na /\ nd /\ ea < ed)
      /\ isBefore(b, d) <=> lower(vb, sb, hb, vd, sd, hd)
                            \/ (~lower(vd, sd, hd, vb, sb, hb) /\ nb /\ nd /\ eb < ed)
  BY <1>1, <1>2, <1>3 DEF isBefore, sortedByOutput
<1>5. /\ sa = sb /\ ha = hb => (na <=> nb)
      /\ sb = sd /\ hb = hd => (nb <=> nd)
  BY <1>1, <1>2 DEF OneHash
<1>6. isBefore(a, b) => ~isBefore(b, a)
  BY <1>4
<1>7. isBefore(a, d) => isBefore(a, b) \/ isBefore(b, d)
  BY <1>4, <1>5
<1> QED
  BY <1>6, <1>7

(* Two outputs of which neither comes first. *)
LEMMA Ties ==
  ASSUME NEW a, NEW b, Sortable(a), Sortable(b), ~isBefore(a, b), ~isBefore(b, a)
  PROVE  /\ sats(a.out.value) = sats(b.out.value) /\ OneHash(a, b)
         /\ a.htlc # << >> /\ b.htlc # << >> =>
                a.htlc[1].cltvExpiry = b.htlc[1].cltvExpiry
<1>1. ~sortedByOutput(a, b) /\ ~sortedByOutput(b, a)
  BY DEF isBefore
<1>2. sats(a.out.value) = sats(b.out.value) /\ OneHash(a, b)
  BY <1>1 DEF sortedByOutput, Sortable, OneHash
<1>3. a.htlc # << >> /\ b.htlc # << >> => a.htlc[1].cltvExpiry = b.htlc[1].cltvExpiry
  BY <1>1 DEF isBefore, Sortable
<1> QED
  BY <1>2, <1>3

(* The scripts of a commitment. *)
LEMMA BalanceLock ==
  ASSUME NEW c, Typed(c), NEW lock \in BalanceLocks(c)
  PROVE  lock.size \in Int /\ lock.hash \in Int /\ "paymentHash" \notin DOMAIN lock.script
<1>1. CASE lock = toLocalScript(c.revocationPubKey, c.delayedPubKey, c.localDelay)
  <2>1. PICK ns : ns = <<3, c.revocationPubKey.dlog, c.localDelay, c.delayedPubKey.dlog>>
    OBVIOUS
  <2>2. Len(ns) \in Nat /\ \A k \in 1 .. Len(ns) : ns[k] \in Int
    BY <2>1 DEF Typed
  <2>3. lock = [size |-> 32, hash |-> Sha256(ns),
                script |-> [revocation |-> c.revocationPubKey, delayed |-> c.delayedPubKey,
                            delay |-> c.localDelay]]
    BY <1>1, <2>1 DEF toLocalScript, p2wshLock
  <2>4. Sha256(ns) \in Int
    BY <2>2, HashIsNumber
  <2> QED
    BY <2>3, <2>4
<1>2. CASE lock = p2wpkhLock(c.remotePubKey)
  <2>1. PICK ns : ns = <<c.remotePubKey.dlog>>
    OBVIOUS
  <2>2. Len(ns) \in Nat /\ \A k \in 1 .. Len(ns) : ns[k] \in Int
    BY <2>1 DEF Typed
  <2>3. lock = [size |-> 20, hash |-> Sha256(ns), script |-> [pays |-> c.remotePubKey]]
    BY <1>2, <2>1 DEF p2wpkhLock
  <2>4. Sha256(ns) \in Int
    BY <2>2, HashIsNumber
  <2> QED
    BY <2>3, <2>4
<1> QED
  BY <1>1, <1>2 DEF BalanceLocks

(* The script of an HTLC names its hash, and its expiry when it is         *)
(* received.                                                               *)
LEMMA HtlcLock ==
  ASSUME NEW c, Typed(c), NEW h \in Htlcs, NEW out, out = HtlcOutput(c, h)
  PROVE  /\ out.value = h.value /\ out.lock.size \in Int /\ out.lock.hash \in Int
         /\ "paymentHash" \in DOMAIN out.lock.script
         /\ out.lock.script.paymentHash = h.paymentHash
         /\ "cltvExpiry" \in DOMAIN out.lock.script <=> ~OfferedByHolder(h, c.reverseHtlcs)
<1>0. /\ h.paymentHash \in Int /\ h.cltvExpiry \in Int
      /\ c.revocationPubKey.dlog \in Int /\ c.remoteHtlcPubKey.dlog \in Int
      /\ c.localHtlcPubKey.dlog \in Int
  BY TurnedHtlc DEF Typed
<1>1. CASE OfferedByHolder(h, c.reverseHtlcs)
  <2>1. PICK ns : ns = <<4, c.revocationPubKey.dlog, c.remoteHtlcPubKey.dlog,
                         c.localHtlcPubKey.dlog, h.paymentHash>>
    OBVIOUS
  <2>2. Len(ns) \in Nat /\ \A k \in 1 .. Len(ns) : ns[k] \in Int
    BY <1>0, <2>1
  <2>3. out.lock = [size |-> 32, hash |-> Sha256(ns),
                    script |-> [revocation |-> c.revocationPubKey, byTimeout |-> c.localHtlcPubKey,
                                byPreimage |-> c.remoteHtlcPubKey,
                                paymentHash |-> h.paymentHash]]
    BY <1>1, <2>1 DEF HtlcOutput, TxOut, offeredHtlcScript, p2wshLock
  <2>4. Sha256(ns) \in Int
    BY <2>2, HashIsNumber
  <2>5. out.value = h.value
    BY DEF HtlcOutput, TxOut
  <2> QED
    BY <1>1, <2>3, <2>4, <2>5
<1>2. CASE ~OfferedByHolder(h, c.reverseHtlcs)
  <2>1. PICK ns : ns = <<5, c.revocationPubKey.dlog, c.remoteHtlcPubKey.dlog, h.paymentHash,
                         c.localHtlcPubKey.dlog, h.cltvExpiry>>
    OBVIOUS
  <2>2. Len(ns) \in Nat /\ \A k \in 1 .. Len(ns) : ns[k] \in Int
    BY <1>0, <2>1
  <2>3. out.lock = [size |-> 32, hash |-> Sha256(ns),
                    script |-> [revocation |-> c.revocationPubKey,
                                byPreimage |-> c.localHtlcPubKey,
                                byTimeout |-> c.remoteHtlcPubKey,
                                paymentHash |-> h.paymentHash, cltvExpiry |-> h.cltvExpiry]]
    BY <1>2, <2>1 DEF HtlcOutput, TxOut, receivedHtlcScript, p2wshLock
  <2>4. Sha256(ns) \in Int
    BY <2>2, HashIsNumber
  <2>5. out.value = h.value
    BY DEF HtlcOutput, TxOut
  <2> QED
    BY <1>2, <2>3, <2>4, <2>5
<1> QED
  BY <1>1, <1>2

(* The outputs of a commitment, either way round. *)
PaysOne(c, x) == PaysBalance(c, x) \/ \E h \in Htlcs : PaysHtlc(c, x, h)

(* Every output can be sorted, and its script tells a balance from an      *)
(* HTLC.                                                                   *)
LEMMA OutputSortable ==
  ASSUME NEW c, Typed(c), NEW x, PaysOne(c, x)
  PROVE  /\ Sortable(x)
         /\ x.htlc = << >> <=> PaysBalance(c, x)
         /\ x.htlc = << >> <=> "paymentHash" \notin DOMAIN x.out.lock.script
<1>1. CASE PaysBalance(c, x)
  <2>1. PICK v, lock : /\ sats(v) \in Int /\ lock \in BalanceLocks(c)
                       /\ x = [out |-> TxOut(v, lock), htlc |-> << >>]
    BY <1>1 DEF PaysBalance
  <2>2. x.out.value = v /\ x.out.lock = lock /\ x.htlc = << >>
    BY <2>1 DEF TxOut
  <2>3. lock.size \in Int /\ lock.hash \in Int /\ "paymentHash" \notin DOMAIN lock.script
    BY <2>1, BalanceLock
  <2> QED
    BY <1>1, <2>1, <2>2, <2>3 DEF Sortable
<1>2. CASE \E h \in Htlcs : PaysHtlc(c, x, h)
  <2>1. PICK h \in Htlcs : x = [out |-> HtlcOutput(c, h), htlc |-> <<h>>]
    BY <1>2 DEF PaysHtlc
  <2>2. x.out = HtlcOutput(c, h) /\ x.htlc = <<h>> /\ x.htlc # << >> /\ x.htlc[1] = h
    BY <2>1
  <2>3. /\ x.out.value = h.value /\ x.out.lock.size \in Int /\ x.out.lock.hash \in Int
        /\ "paymentHash" \in DOMAIN x.out.lock.script
    BY <2>2, HtlcLock
  <2>4. sats(h.value) \in Int /\ h.cltvExpiry \in Int
    BY TurnedHtlc DEF sats, Amount
  <2>5. ~PaysBalance(c, x)
    BY <2>2 DEF PaysBalance
  <2> QED
    BY <2>2, <2>3, <2>4, <2>5 DEF Sortable
<1> QED
  BY <1>1, <1>2 DEF PaysOne

(* An output sorts alike for both ends. *)
LEMMA OneLooks ==
  ASSUME NEW c, Typed(c), NEW x, NEW y, OneOutput(c, x, y)
  PROVE  /\ PaysOne(c, x) /\ Sortable(y) /\ y.out = x.out
         /\ y.htlc = << >> <=> x.htlc = << >>
         /\ x.htlc # << >> => \E h \in Htlcs : PaysHtlc(c, x, h) /\ y.htlc = <<Turn(h)>>
         /\ x.htlc # << >> => y.htlc[1].cltvExpiry = x.htlc[1].cltvExpiry
<1>1. CASE x = y /\ PaysBalance(c, x)
  <2>1. Sortable(x) /\ x.htlc = << >>
    BY <1>1, OutputSortable DEF PaysOne
  <2> QED
    BY <1>1, <2>1 DEF PaysOne
<1>2. ASSUME NEW h \in Htlcs, PaysHtlc(c, x, h),
             y = [out |-> HtlcOutput(c, h), htlc |-> <<Turn(h)>>]
      PROVE  /\ PaysOne(c, x) /\ Sortable(y) /\ y.out = x.out
             /\ y.htlc = << >> <=> x.htlc = << >>
             /\ x.htlc # << >> => \E g \in Htlcs : PaysHtlc(c, x, g) /\ y.htlc = <<Turn(g)>>
             /\ x.htlc # << >> => y.htlc[1].cltvExpiry = x.htlc[1].cltvExpiry
  <2>1. /\ x.out = HtlcOutput(c, h) /\ x.htlc = <<h>>
        /\ y.out = HtlcOutput(c, h) /\ y.htlc = <<Turn(h)>>
    BY <1>2 DEF PaysHtlc
  <2>2. /\ x.htlc # << >> /\ y.htlc # << >>
        /\ x.htlc[1] = h /\ y.htlc[1] = Turn(h)
    BY <2>1
  <2>3. Turn(h).cltvExpiry = h.cltvExpiry /\ h.cltvExpiry \in Int
    BY TurnedHtlc
  <2>4. PaysOne(c, x)
    BY <1>2 DEF PaysOne
  <2>5. Sortable(x)
    BY <2>4, OutputSortable
  <2>6. Sortable(y)
    BY <2>1, <2>2, <2>3, <2>5 DEF Sortable
  <2> QED
    BY <1>2, <2>1, <2>2, <2>3, <2>4, <2>6
<1> QED
  BY <1>1, <1>2 DEF OneOutput

(* The order of two outputs is the same for both ends. *)
LEMMA OneOrder ==
  ASSUME NEW a, NEW b, NEW x, NEW y, x.out = a.out, y.out = b.out,
         x.htlc = << >> <=> a.htlc = << >>, y.htlc = << >> <=> b.htlc = << >>,
         a.htlc # << >> => x.htlc[1].cltvExpiry = a.htlc[1].cltvExpiry,
         b.htlc # << >> => y.htlc[1].cltvExpiry = b.htlc[1].cltvExpiry
  PROVE  isBefore(x, y) <=> isBefore(a, b)
<1>1. /\ sortedByOutput(x, y) <=> sortedByOutput(a, b)
      /\ sortedByOutput(y, x) <=> sortedByOutput(b, a)
  BY DEF sortedByOutput
<1>2. a.htlc # << >> /\ b.htlc # << >> =>
        (x.htlc[1].cltvExpiry < y.htlc[1].cltvExpiry <=>
         a.htlc[1].cltvExpiry < b.htlc[1].cltvExpiry)
  OBVIOUS
<1> QED
  BY <1>1, <1>2 DEF isBefore

(* HTLCs whose outputs are alike. *)
AlikeInSats(h, g) ==
    /\ g.direction = h.direction /\ g.cltvExpiry = h.cltvExpiry
    /\ g.paymentHash = h.paymentHash /\ sats(g.value) = sats(h.value)

(* HTLCs that pay alike to one script and expire together are alike. *)
LEMMA TiedHtlcs ==
  ASSUME NEW c, Typed(c), NEW h \in Htlcs, NEW g \in Htlcs,
         sats(HtlcOutput(c, h).value) = sats(HtlcOutput(c, g).value),
         HtlcOutput(c, h).lock = HtlcOutput(c, g).lock, h.cltvExpiry = g.cltvExpiry
  PROVE  AlikeInSats(h, g)
<1>1. PICK a, b : a = HtlcOutput(c, h) /\ b = HtlcOutput(c, g)
  OBVIOUS
<1>2. /\ a.value = h.value /\ a.lock.script.paymentHash = h.paymentHash
      /\ "cltvExpiry" \in DOMAIN a.lock.script <=> ~OfferedByHolder(h, c.reverseHtlcs)
  BY <1>1, HtlcLock
<1>3. /\ b.value = g.value /\ b.lock.script.paymentHash = g.paymentHash
      /\ "cltvExpiry" \in DOMAIN b.lock.script <=> ~OfferedByHolder(g, c.reverseHtlcs)
  BY <1>1, HtlcLock
<1>4. a.lock = b.lock /\ sats(a.value) = sats(b.value)
  BY <1>1
<1>5. OfferedByHolder(h, c.reverseHtlcs) <=> OfferedByHolder(g, c.reverseHtlcs)
  BY <1>2, <1>3, <1>4
<1>6. h.direction \in {"offered", "accepted"} /\ g.direction \in {"offered", "accepted"}
  BY TurnedHtlc
<1>7. h.direction = g.direction
  BY <1>5, <1>6 DEF OfferedByHolder, Typed
<1> QED
  BY <1>2, <1>3, <1>4, <1>7 DEF AlikeInSats

(* What the two ends put in one place. *)
InOnePlace(x, y) ==
    /\ sats(y.out.value) = sats(x.out.value) /\ y.out.lock = x.out.lock
    /\ y.htlc = << >> <=> x.htlc = << >>
    /\ x.htlc # << >> => \E h, g \in Htlcs : /\ x.htlc = <<h>> /\ y.htlc = <<Turn(g)>>
                                             /\ AlikeInSats(h, g)

(* The outputs can be ranked, unless two of their scripts have one hash. *)
LEMMA RankedOutputs ==
  ASSUME NEW c, Typed(c), HashesDiffer(c), NEW xs, xs = commitmentOutputs(c), NEW n \in Nat,
         DOMAIN xs = 1 .. n, \A k \in 1 .. n : PaysOne(c, xs[k])
  PROVE  Ranks(Before(xs), 1 .. n)
<1>4. ASSUME NEW k \in 1 .. n
      PROVE  /\ Sortable(xs[k])
             /\ xs[k].htlc = << >> <=> "paymentHash" \notin DOMAIN xs[k].out.lock.script
  BY OutputSortable
<1>5. ASSUME NEW j \in 1 .. n, NEW k \in 1 .. n, OneHash(xs[j], xs[k])
      PROVE  xs[j].htlc = << >> <=> xs[k].htlc = << >>
  <2>1. xs[j] \in Range(commitmentOutputs(c)) /\ xs[k] \in Range(commitmentOutputs(c))
    BY DEF Range
  <2>2. xs[j].out.lock = xs[k].out.lock
    BY <1>5, <2>1 DEF HashesDiffer, OneHash
  <2> QED
    BY <1>4, <2>2
<1> QED
  <2>1. ASSUME NEW j \in 1 .. n, NEW k \in 1 .. n
        PROVE  <<j, k>> \in Before(xs) <=> isBefore(xs[j], xs[k])
    BY DEF Before
  <2>2. ASSUME NEW j \in 1 .. n, NEW k \in 1 .. n, isBefore(xs[j], xs[k])
        PROVE  ~isBefore(xs[k], xs[j])
    <3>1. PICK a, b : a = xs[j] /\ b = xs[k]
      OBVIOUS
    <3>2. Sortable(a) /\ Sortable(b) /\ (OneHash(a, b) => (a.htlc = << >> <=> b.htlc = << >>))
      BY <1>4, <1>5, <3>1
    <3>3. OneHash(b, b) => (b.htlc = << >> <=> b.htlc = << >>)
      OBVIOUS
    <3>4. isBefore(a, b) => ~isBefore(b, a)
      BY <3>2, <3>3, Sorts
    <3> QED
      BY <2>2, <3>1, <3>4
  <2>3. ASSUME NEW i \in 1 .. n, NEW j \in 1 .. n, NEW k \in 1 .. n, isBefore(xs[i], xs[k])
        PROVE  isBefore(xs[i], xs[j]) \/ isBefore(xs[j], xs[k])
    <3>1. PICK a, b, e : a = xs[i] /\ b = xs[j] /\ e = xs[k]
      OBVIOUS
    <3>2. /\ Sortable(a) /\ Sortable(b) /\ Sortable(e)
          /\ OneHash(a, b) => (a.htlc = << >> <=> b.htlc = << >>)
          /\ OneHash(b, e) => (b.htlc = << >> <=> e.htlc = << >>)
      BY <1>4, <1>5, <3>1
    <3>3. isBefore(a, e) => isBefore(a, b) \/ isBefore(b, e)
      BY <3>2, Sorts
    <3> QED
      BY <2>3, <3>1, <3>3
  <2>4. \A j, k \in 1 .. n : <<j, k>> \in Before(xs) => <<k, j>> \notin Before(xs)
    BY <2>1, <2>2
  <2>5. \A i, j, k \in 1 .. n :
            <<i, k>> \in Before(xs) => <<i, j>> \in Before(xs) \/ <<j, k>> \in Before(xs)
    BY <2>1, <2>3
  <2> QED
    BY <2>4, <2>5 DEF Ranks

(* Sorted, the outputs of the two ends are alike in every place. *)
LEMMA SortedOutputs ==
  ASSUME NEW c, NEW d, Typed(c), Mirrors(c, d), HashesDiffer(c)
  PROVE  \E n \in Nat :
            /\ DOMAIN sortCommitmentOutputs(commitmentOutputs(c)) = 1 .. n
            /\ DOMAIN sortCommitmentOutputs(commitmentOutputs(d)) = 1 .. n
            /\ \A p \in 1 .. n : InOnePlace(sortCommitmentOutputs(commitmentOutputs(c))[p],
                                            sortCommitmentOutputs(commitmentOutputs(d))[p])
<1>0. PICK n \in Nat : \E f \in [1 .. n -> 1 .. n] :
            /\ DOMAIN commitmentOutputs(c) = 1 .. n /\ DOMAIN commitmentOutputs(d) = 1 .. n
            /\ \A j, k \in 1 .. n : f[j] = f[k] => j = k
            /\ \A i \in 1 .. n : \E j \in 1 .. n : f[j] = i
            /\ \A k \in 1 .. n : OneOutput(c, commitmentOutputs(c)[k], commitmentOutputs(d)[f[k]])
  BY OutputsTurned
<1>1. PICK f \in [1 .. n -> 1 .. n] :
            /\ DOMAIN commitmentOutputs(c) = 1 .. n /\ DOMAIN commitmentOutputs(d) = 1 .. n
            /\ \A j, k \in 1 .. n : f[j] = f[k] => j = k
            /\ \A i \in 1 .. n : \E j \in 1 .. n : f[j] = i
            /\ \A k \in 1 .. n : OneOutput(c, commitmentOutputs(c)[k], commitmentOutputs(d)[f[k]])
  BY <1>0
<1>2. PICK xs, ys : xs = commitmentOutputs(c) /\ ys = commitmentOutputs(d)
  OBVIOUS
<1>3. ASSUME NEW k \in 1 .. n
      PROVE  /\ PaysOne(c, xs[k]) /\ Sortable(ys[f[k]]) /\ ys[f[k]].out = xs[k].out
             /\ ys[f[k]].htlc = << >> <=> xs[k].htlc = << >>
             /\ xs[k].htlc # << >> =>
                    \E h \in Htlcs : PaysHtlc(c, xs[k], h) /\ ys[f[k]].htlc = <<Turn(h)>>
             /\ xs[k].htlc # << >> => ys[f[k]].htlc[1].cltvExpiry = xs[k].htlc[1].cltvExpiry
  <2>1. OneOutput(c, xs[k], ys[f[k]])
    BY <1>1, <1>2
  <2> QED
    BY <2>1, OneLooks
<1>4. ASSUME NEW k \in 1 .. n
      PROVE  /\ Sortable(xs[k])
             /\ xs[k].htlc = << >> <=> "paymentHash" \notin DOMAIN xs[k].out.lock.script
  BY <1>3, OutputSortable
<1>5. ASSUME NEW j \in 1 .. n, NEW k \in 1 .. n, OneHash(xs[j], xs[k])
      PROVE  /\ xs[j].out.lock = xs[k].out.lock
             /\ xs[j].htlc = << >> <=> xs[k].htlc = << >>
  <2>1. xs[j] \in Range(commitmentOutputs(c)) /\ xs[k] \in Range(commitmentOutputs(c))
    BY <1>1, <1>2 DEF Range
  <2>2. xs[j].out.lock = xs[k].out.lock
    BY <1>5, <2>1 DEF HashesDiffer, OneHash
  <2> QED
    BY <1>4, <2>2
<1>6. Ranks(Before(xs), 1 .. n)
  <2>1. xs = commitmentOutputs(c) /\ DOMAIN xs = 1 .. n
    BY <1>1, <1>2
  <2>2. \A k \in 1 .. n : PaysOne(c, xs[k])
    BY <1>3
  <2> QED
    BY <2>1, <2>2, RankedOutputs
<1>7. \A j, k \in 1 .. n : isBefore(ys[f[j]], ys[f[k]]) <=> isBefore(xs[j], xs[k])
  <2> SUFFICES ASSUME NEW j \in 1 .. n, NEW k \in 1 .. n
               PROVE  isBefore(ys[f[j]], ys[f[k]]) <=> isBefore(xs[j], xs[k])
    OBVIOUS
  <2>1. PICK a, b, x, y : a = xs[j] /\ b = xs[k] /\ x = ys[f[j]] /\ y = ys[f[k]]
    OBVIOUS
  <2>2. /\ x.out = a.out /\ y.out = b.out
        /\ x.htlc = << >> <=> a.htlc = << >>
        /\ y.htlc = << >> <=> b.htlc = << >>
        /\ a.htlc # << >> => x.htlc[1].cltvExpiry = a.htlc[1].cltvExpiry
        /\ b.htlc # << >> => y.htlc[1].cltvExpiry = b.htlc[1].cltvExpiry
    BY <1>3, <2>1
  <2>3. isBefore(x, y) <=> isBefore(a, b)
    BY <2>2, OneOrder
  <2> QED
    BY <2>1, <2>3, Zenon
<1>8. /\ DOMAIN sortCommitmentOutputs(xs) = 1 .. n
      /\ DOMAIN sortCommitmentOutputs(ys) = 1 .. n
  BY <1>1, <1>2 DEF sortCommitmentOutputs
<1>9. ASSUME NEW p \in 1 .. n
      PROVE  InOnePlace(sortCommitmentOutputs(xs)[p], sortCommitmentOutputs(ys)[p])
  <2>1. \E k, m \in 1 .. n :
            /\ sortCommitmentOutputs(xs)[p] = xs[k] /\ sortCommitmentOutputs(ys)[p] = ys[f[m]]
            /\ ~isBefore(xs[k], xs[m]) /\ ~isBefore(xs[m], xs[k])
    <3>1. DOMAIN xs = 1 .. n /\ DOMAIN ys = 1 .. n
      BY <1>1, <1>2
    <3>2. OneToOne(f, n)
      BY <1>1 DEF OneToOne
    <3>4. OrderKept(f, xs, ys, n)
      BY <1>7 DEF OrderKept
    <3>3. TiedPlaces(f, xs, ys, n)
      BY <1>6, <3>1, <3>2, <3>4, SortedAlike
    <3> QED
      BY <3>3 DEF TiedPlaces
  <2>2. PICK k \in 1 .. n, m \in 1 .. n :
            /\ sortCommitmentOutputs(xs)[p] = xs[k] /\ sortCommitmentOutputs(ys)[p] = ys[f[m]]
            /\ ~isBefore(xs[k], xs[m]) /\ ~isBefore(xs[m], xs[k])
    BY <2>1
  <2>3. PICK a, b, y : a = xs[k] /\ b = xs[m] /\ y = ys[f[m]]
    OBVIOUS
  <2>4. Sortable(a) /\ Sortable(b) /\ ~isBefore(a, b) /\ ~isBefore(b, a)
    BY <1>4, <2>2, <2>3
  <2>5. /\ sats(a.out.value) = sats(b.out.value) /\ OneHash(a, b)
        /\ a.htlc # << >> /\ b.htlc # << >> =>
               a.htlc[1].cltvExpiry = b.htlc[1].cltvExpiry
    BY <2>4, Ties
  <2>6. a.out.lock = b.out.lock /\ (a.htlc = << >> <=> b.htlc = << >>)
    BY <1>5, <2>3, <2>5
  <2>7. y.out = b.out /\ (y.htlc = << >> <=> b.htlc = << >>)
    BY <1>3, <2>3
  <2>8. ASSUME a.htlc # << >>
        PROVE  \E h, g \in Htlcs : a.htlc = <<h>> /\ y.htlc = <<Turn(g)>> /\ AlikeInSats(h, g)
    <3>1. PICK h \in Htlcs : PaysHtlc(c, a, h)
      BY <1>3, <2>3, <2>8
    <3>2. PICK g \in Htlcs : PaysHtlc(c, b, g) /\ y.htlc = <<Turn(g)>>
      BY <1>3, <2>3, <2>6, <2>8
    <3>3. /\ a.out = HtlcOutput(c, h) /\ a.htlc = <<h>>
          /\ b.out = HtlcOutput(c, g) /\ b.htlc = <<g>>
      BY <3>1, <3>2 DEF PaysHtlc
    <3>4. h.cltvExpiry = g.cltvExpiry
      BY <2>5, <3>3
    <3>5. AlikeInSats(h, g)
      BY <2>5, <2>6, <3>3, <3>4, TiedHtlcs
    <3> QED
      BY <3>2, <3>3, <3>5
  <2>9. InOnePlace(a, y)
    BY <2>5, <2>6, <2>7, <2>8 DEF InOnePlace
  <2> QED
    BY <2>2, <2>3, <2>9
<1> QED
  BY <1>2, <1>8, <1>9

-----------------------------------------------------------------------------
(* The parts of createCommitment. *)
OutputsOf(xs) == [k \in 1 .. Len(xs) |-> [value |-> sats(xs[k].out.value), lock |-> xs[k].out.lock]]
WithHtlc(xs) == Picked(xs, {k \in DOMAIN xs : xs[k].htlc # << >>})
HtlcsOf(xs) == [k \in 1 .. Len(WithHtlc(xs)) |-> WithHtlc(xs)[k].htlc[1]]

(* createCommitment is made of these parts. *)
LEMMA CommitmentParts ==
  ASSUME NEW c, NEW number,
         number = obscure(c.commitmentNumber, c.openPaymentBasePoint, c.acceptPaymentBasePoint),
         NEW xs, xs = sortCommitmentOutputs(commitmentOutputs(c))
  PROVE  createCommitment(c) =
            [tx |-> [input |-> c.fundingOutPoint, sequence |-> getSequence(number),
                     locktime |-> getLockTime(number), outputs |-> OutputsOf(xs)],
             htlcs |-> HtlcsOf(xs)]
<1> DEFINE N == obscure(c.commitmentNumber, c.openPaymentBasePoint, c.acceptPaymentBasePoint)
           X == sortCommitmentOutputs(commitmentOutputs(c))
           W == Picked(X, {k \in DOMAIN X : X[k].htlc # << >>})
           O == [k \in 1 .. Len(X) |-> [value |-> sats(X[k].out.value), lock |-> X[k].out.lock]]
           H == [k \in 1 .. Len(W) |-> W[k].htlc[1]]
<1>1. createCommitment(c) =
            [tx |-> [input |-> c.fundingOutPoint, sequence |-> getSequence(N),
                     locktime |-> getLockTime(N), outputs |-> O],
             htlcs |-> H]
  BY Zenon DEF createCommitment
<1>2. WithHtlc(X) = W
  BY Zenon DEF WithHtlc
<1>3. OutputsOf(X) = O
  BY Zenon DEF OutputsOf
<1>4. HtlcsOf(X) = H
  <2> HIDE DEF W
  <2> QED
    BY <1>2, Zenon DEF HtlcsOf
<1>5. N = number /\ X = xs
  OBVIOUS
<1> HIDE DEF N, X, W, O, H
<1> QED
  BY <1>1, <1>3, <1>4, <1>5, Zenon

(* The HTLCs behind outputs that are alike place by place. *)
LEMMA HtlcsInPlace ==
  ASSUME NEW n \in Nat, NEW xs, NEW ys, DOMAIN xs = 1 .. n, DOMAIN ys = 1 .. n,
         \A p \in 1 .. n : InOnePlace(xs[p], ys[p])
  PROVE  \E m \in Nat :
            /\ DOMAIN HtlcsOf(xs) = 1 .. m /\ DOMAIN HtlcsOf(ys) = 1 .. m
            /\ \A q \in 1 .. m : \E h, g \in Htlcs :
                    HtlcsOf(xs)[q] = h /\ HtlcsOf(ys)[q] = Turn(g) /\ AlikeInSats(h, g)
<1> DEFINE K == {k \in 1 .. n : xs[k].htlc # << >>}
<1>1. {k \in 1 .. n : ys[k].htlc # << >>} = K
  BY DEF InOnePlace
<1>2. WithHtlc(xs) = Picked(xs, K) /\ WithHtlc(ys) = Picked(ys, K)
  BY <1>1 DEF WithHtlc
<1>3. K \subseteq 1 .. n
  OBVIOUS
<1>4. ASSUME NEW k \in K
      PROVE  \E h, g \in Htlcs : xs[k].htlc[1] = h /\ ys[k].htlc[1] = Turn(g) /\ AlikeInSats(h, g)
  <2>1. InOnePlace(xs[k], ys[k]) /\ xs[k].htlc # << >>
    OBVIOUS
  <2>2. PICK h \in Htlcs, g \in Htlcs : /\ xs[k].htlc = <<h>> /\ ys[k].htlc = <<Turn(g)>>
                                        /\ AlikeInSats(h, g)
    BY <2>1 DEF InOnePlace
  <2>3. xs[k].htlc[1] = h /\ ys[k].htlc[1] = Turn(g)
    BY <2>2
  <2> QED
    BY <2>2, <2>3
<1> HIDE DEF K
<1>5. PICK m \in Nat : m = Cardinality(K)
  BY <1>3, LessOrders
<1>6. /\ Len(Picked(xs, K)) = m /\ Len(Picked(ys, K)) = m
      /\ \A k \in K : /\ Picked(xs, K)[Place(Less(K), K, k)] = xs[k]
                      /\ Picked(ys, K)[Place(Less(K), K, k)] = ys[k]
      /\ \A p \in 1 .. m : \E k \in K : Place(Less(K), K, k) = p
  BY <1>3, <1>5, PickedPlaces, ZenonT(60)
<1>7. /\ HtlcsOf(xs) = [q \in 1 .. m |-> Picked(xs, K)[q].htlc[1]]
      /\ HtlcsOf(ys) = [q \in 1 .. m |-> Picked(ys, K)[q].htlc[1]]
  BY <1>2, <1>6 DEF HtlcsOf
<1>8. ASSUME NEW q \in 1 .. m
      PROVE  \E h, g \in Htlcs :
                HtlcsOf(xs)[q] = h /\ HtlcsOf(ys)[q] = Turn(g) /\ AlikeInSats(h, g)
  <2>1. PICK k \in K : Place(Less(K), K, k) = q
    BY <1>6
  <2>2. Picked(xs, K)[q] = xs[k] /\ Picked(ys, K)[q] = ys[k]
    BY <1>6, <2>1
  <2>3. HtlcsOf(xs)[q] = xs[k].htlc[1] /\ HtlcsOf(ys)[q] = ys[k].htlc[1]
    BY <1>7, <2>2
  <2> QED
    BY <1>4, <2>3
<1> QED
  BY <1>7, <1>8

(* One transaction, with the same HTLCs to the satoshi. *)
LEMMA CreatedAlike ==
  ASSUME NEW c, NEW d, Typed(c), Mirrors(c, d), HashesDiffer(c)
  PROVE  /\ createCommitment(c).tx = createCommitment(d).tx
         /\ InSats(createCommitment(c).htlcs) = InSats(Turned(createCommitment(d).htlcs))
<1>1. PICK xs, ys : /\ xs = sortCommitmentOutputs(commitmentOutputs(c))
                    /\ ys = sortCommitmentOutputs(commitmentOutputs(d))
  OBVIOUS
<1>2. PICK n \in Nat : /\ DOMAIN xs = 1 .. n /\ DOMAIN ys = 1 .. n
                       /\ \A p \in 1 .. n : InOnePlace(xs[p], ys[p])
  BY <1>1, SortedOutputs
<1>3. Len(xs) = n /\ Len(ys) = n
  BY <1>2
<1>4. OutputsOf(xs) = OutputsOf(ys)
  <2>1. \A p \in 1 .. n : /\ sats(ys[p].out.value) = sats(xs[p].out.value)
                          /\ ys[p].out.lock = xs[p].out.lock
    BY <1>2 DEF InOnePlace
  <2>2. /\ OutputsOf(xs) = [k \in 1 .. n |-> [value |-> sats(xs[k].out.value),
                                              lock |-> xs[k].out.lock]]
        /\ OutputsOf(ys) = [k \in 1 .. n |-> [value |-> sats(ys[k].out.value),
                                              lock |-> ys[k].out.lock]]
    BY <1>3 DEF OutputsOf
  <2>3. \A k \in 1 .. n : [value |-> sats(xs[k].out.value), lock |-> xs[k].out.lock]
                          = [value |-> sats(ys[k].out.value), lock |-> ys[k].out.lock]
    BY <2>1
  <2> QED
    BY <2>2, <2>3
<1>5. PICK number : number = obscure(c.commitmentNumber, c.openPaymentBasePoint,
                                     c.acceptPaymentBasePoint)
  OBVIOUS
<1>6. /\ number = obscure(d.commitmentNumber, d.openPaymentBasePoint, d.acceptPaymentBasePoint)
      /\ d.fundingOutPoint = c.fundingOutPoint
  BY <1>5 DEF Mirrors, AgreedTerms
<1>7. createCommitment(c) =
            [tx |-> [input |-> c.fundingOutPoint, sequence |-> getSequence(number),
                     locktime |-> getLockTime(number), outputs |-> OutputsOf(xs)],
             htlcs |-> HtlcsOf(xs)]
  BY <1>1, <1>5, CommitmentParts
<1>8. createCommitment(d) =
            [tx |-> [input |-> d.fundingOutPoint, sequence |-> getSequence(number),
                     locktime |-> getLockTime(number), outputs |-> OutputsOf(ys)],
             htlcs |-> HtlcsOf(ys)]
  BY <1>1, <1>6, CommitmentParts
<1>9. createCommitment(c).tx = createCommitment(d).tx
  BY <1>4, <1>6, <1>7, <1>8
<1>10. PICK as, bs : as = HtlcsOf(xs) /\ bs = HtlcsOf(ys)
  OBVIOUS
<1>11. createCommitment(c).htlcs = as /\ createCommitment(d).htlcs = bs
  BY <1>7, <1>8, <1>10
<1>12. PICK m \in Nat :
            /\ DOMAIN as = 1 .. m /\ DOMAIN bs = 1 .. m
            /\ \A q \in 1 .. m : \E h, g \in Htlcs :
                    as[q] = h /\ bs[q] = Turn(g) /\ AlikeInSats(h, g)
  BY <1>2, <1>10, HtlcsInPlace
<1>13. PICK ts : ts = Turned(bs)
  OBVIOUS
<1>14. ts = [k \in 1 .. m |-> Turn(bs[k])]
  BY <1>12, <1>13 DEF Turned, Turn
<1>15. ASSUME NEW q \in 1 .. m
       PROVE  [as[q] EXCEPT !.value = fromSats(sats(@))]
              = [ts[q] EXCEPT !.value = fromSats(sats(@))]
  <2>1. PICK h \in Htlcs, g \in Htlcs : as[q] = h /\ bs[q] = Turn(g) /\ AlikeInSats(h, g)
    BY <1>12
  <2>2. ts[q] = Turn(Turn(g))
    BY <1>14, <2>1
  <2>3. Turn(Turn(g)) = g
    BY TurnedHtlc DEF Turn
  <2>4. /\ h = [direction |-> h.direction, value |-> h.value, cltvExpiry |-> h.cltvExpiry,
                paymentHash |-> h.paymentHash]
        /\ g = [direction |-> g.direction, value |-> g.value, cltvExpiry |-> g.cltvExpiry,
                paymentHash |-> g.paymentHash]
    BY TurnedHtlc
  <2>5. [h EXCEPT !.value = fromSats(sats(@))] = [g EXCEPT !.value = fromSats(sats(@))]
    <3>1. [h EXCEPT !.value = fromSats(sats(@))]
            = [direction |-> h.direction, value |-> fromSats(sats(h.value)),
               cltvExpiry |-> h.cltvExpiry, paymentHash |-> h.paymentHash]
      BY <2>4
    <3>2. [g EXCEPT !.value = fromSats(sats(@))]
            = [direction |-> g.direction, value |-> fromSats(sats(g.value)),
               cltvExpiry |-> g.cltvExpiry, paymentHash |-> g.paymentHash]
      BY <2>4
    <3> QED
      BY <2>1, <3>1, <3>2 DEF AlikeInSats
  <2> QED
    BY <2>1, <2>2, <2>3, <2>5
<1>16. InSats(as) = InSats(ts)
  <2>1. InSats(as) = [k \in 1 .. m |-> [as[k] EXCEPT !.value = fromSats(sats(@))]]
    BY <1>12 DEF InSats
  <2>2. InSats(ts) = [k \in 1 .. m |-> [ts[k] EXCEPT !.value = fromSats(sats(@))]]
    <3>1. DOMAIN ts = 1 .. m
      BY <1>14
    <3> QED
      BY <3>1 DEF InSats
  <2> QED
    BY <1>15, <2>1, <2>2
<1> QED
  BY <1>9, <1>11, <1>13, <1>16

(* What one commitment says, if both ends have its terms. *)
LEMMA SameCommitment ==
  ASSUME NEW c, NEW d, Typed(c), Mirrors(c, d), NEW held, held \in {c, d}
  PROVE  SameFor(c, d, held)
<1>1. PICK n \in 0 .. MAX_COMMITMENT_NUMBER : n = c.commitmentNumber
  BY DEF Typed
<1>2. PICK P, Q : P = c.openPaymentBasePoint /\ Q = c.acceptPaymentBasePoint
  OBVIOUS
<1>3. /\ held.commitmentNumber = n /\ held.openPaymentBasePoint = P
      /\ held.acceptPaymentBasePoint = Q
  BY <1>1, <1>2 DEF Mirrors, AgreedTerms
<1>4. PICK o : o = obscure(n, P, Q)
  OBVIOUS
<1>5. PICK xs : xs = sortCommitmentOutputs(commitmentOutputs(c))
  OBVIOUS
<1>6. createCommitment(c) =
            [tx |-> [input |-> c.fundingOutPoint, sequence |-> getSequence(o),
                     locktime |-> getLockTime(o), outputs |-> OutputsOf(xs)],
             htlcs |-> HtlcsOf(xs)]
  BY <1>1, <1>2, <1>4, <1>5, CommitmentParts
<1>7. /\ createCommitment(c).tx.sequence = getSequence(o)
      /\ createCommitment(c).tx.locktime = getLockTime(o)
  BY <1>6
<1>8. reveal(getLockTime(o), getSequence(o), P, Q) = n
  BY <1>4, NumberRevealed
<1>9. HashesDiffer(c) =>
            /\ createCommitment(c).tx = createCommitment(d).tx
            /\ InSats(createCommitment(c).htlcs) = InSats(Turned(createCommitment(d).htlcs))
  BY CreatedAlike
<1> QED
  BY <1>3, <1>7, <1>8, <1>9 DEF SameFor

-----------------------------------------------------------------------------
(***************************************************************************)
(* What the commitments are made of are numbers, and there is a commitment *)
(* number for each.                                                        *)
(***************************************************************************)
TypedSide(side) ==
    /\ sats(side.balance) \in Int /\ side.toSelfDelayBlocks \in Int
    /\ side.paymentBasePoint.dlog \in Int /\ side.delayedBasePoint.dlog \in Int
    /\ side.htlcBasePoint.dlog \in Int /\ side.revocationBasePoint.dlog \in Int

TypedChannel(ch) ==
    /\ TypedSide(ch.ourSide) /\ TypedSide(ch.theirSide) /\ sats(ch.feeRatePerKw) \in Int
    /\ ch.ourSide.nextCommitmentPoint.dlog \in Int /\ ch.secrets.seed \in Int

NumberInv ==
    Opened =>
        /\ TypedChannel(channel)
        /\ channel.ourSide.nextCommitmentNumber \in {0, 1}
        /\ readyPoint = None => channel.ourSide.nextCommitmentNumber = 0
        /\ Len(built) <= revoked + 1 /\ Len(built) <= MAX_COMMITMENT_NUMBER

(* What holds of a side holds of its record at the other end. *)
LEMMA TypedTwin == ASSUME NEW s, NEW t, Twin(s, t), TypedSide(t) PROVE TypedSide(s)
BY DEF Twin, TypedSide

(* A public key of a number. *)
LEMMA PointIsTyped == ASSUME NEW n \in Int PROVE toPubKey(n).dlog \in Int
BY DEF toPubKey, Point

(* What is left of an amount. *)
LEMMA SubIsTyped ==
  ASSUME NEW v, NEW w, sats(v) \in Int, sats(w) \in Int
  PROVE  sats(subn(v, w)) \in Int
BY DEF subn, sats

(* The keys of a commitment. *)
LEMMA HashedPoints ==
  ASSUME NEW P, NEW Q, P.dlog \in Int, Q.dlog \in Int
  PROVE  HashPoints(P, Q) \in Int
<1>1. PICK ns : ns = <<P.dlog, Q.dlog>>
  OBVIOUS
<1>2. Len(ns) \in Nat /\ \A k \in 1 .. Len(ns) : ns[k] \in Int
  BY <1>1
<1> QED
  BY <1>1, <1>2, HashIsNumber DEF HashPoints

(* Keys derived from points are points. *)
LEMMA DerivedKeys ==
  ASSUME NEW P, NEW Q, P.dlog \in Int, Q.dlog \in Int
  PROVE  derivePubKey(P, Q).dlog \in Int /\ deriveRevocationPubKey(P, Q).dlog \in Int
<1>0. Order \in Nat \ {0}
  BY BitsAssumption
<1>1. PICK p \in Int, q \in Int : p = P.dlog /\ q = Q.dlog
  OBVIOUS
<1>2. PICK h \in Int, g \in Int : h = HashPoints(P, Q) /\ g = HashPoints(Q, P)
  BY HashedPoints
<1>3. derivePubKey(P, Q).dlog \in Int
  <2>1. PICK s \in Int : s = q + h
    OBVIOUS
  <2>2. derivePubKey(P, Q).dlog = s % Order
    BY <1>1, <1>2, <2>1 DEF derivePubKey, publicKeyTweakAdd, Point
  <2> QED
    BY <1>0, <2>2
<1>4. deriveRevocationPubKey(P, Q).dlog \in Int
  <2>1. PICK a \in Int, b \in Int : a = q * g /\ b = p * h
    OBVIOUS
  <2>2. PICK e \in Int, f \in Int : e = a % Order /\ f = b % Order
    BY <1>0
  <2>3. PICK s \in Int : s = e + f
    OBVIOUS
  <2>4. deriveRevocationPubKey(P, Q).dlog = s % Order
    <3>1. publicKeyTweakMul(Q, g).dlog = e /\ publicKeyTweakMul(P, h).dlog = f
      BY <1>1, <2>1, <2>2 DEF publicKeyTweakMul, Point
    <3>2. deriveRevocationPubKey(P, Q)
            = publicKeyCombine(publicKeyTweakMul(Q, g), publicKeyTweakMul(P, h))
      BY <1>2 DEF deriveRevocationPubKey
    <3> QED
      BY <2>3, <3>1, <3>2 DEF publicKeyCombine, Point
  <2> QED
    BY <1>0, <2>4
<1> QED
  BY <1>3, <1>4

(* The arguments of createCommitment, for the holder of a commitment. *)
LEMMA LocalTyped ==
  ASSUME NEW ch, TypedSide(ch.ourSide), TypedSide(ch.theirSide), sats(ch.feeRatePerKw) \in Int,
         ch.ourSide.nextCommitmentPoint.dlog \in Int,
         ch.ourSide.nextCommitmentNumber \in 0 .. MAX_COMMITMENT_NUMBER,
         NEW hs \in Seq(Htlcs)
  PROVE  /\ Typed(LocalCommitment(ch, hs))
         /\ Mirrors(LocalCommitment(ch, hs), SeenByOther(LocalCommitment(ch, AsSeenByPeer(hs))))
<1>1. PICK point : point = ch.ourSide.nextCommitmentPoint
  OBVIOUS
<1>2. PICK c : c = LocalCommitment(ch, hs)
  OBVIOUS
<1>3. /\ c.reverseHtlcs = FALSE /\ c.htlcs = hs
      /\ c.commitmentNumber = ch.ourSide.nextCommitmentNumber
      /\ c.feePerKw = sats(ch.feeRatePerKw) /\ c.localDelay = ch.ourSide.toSelfDelayBlocks
      /\ c.localValue = ch.ourSide.balance /\ c.remoteValue = ch.theirSide.balance
      /\ c.revocationPubKey = deriveRevocationPubKey(point, ch.theirSide.revocationBasePoint)
      /\ c.delayedPubKey = derivePubKey(point, ch.ourSide.delayedBasePoint)
      /\ c.remotePubKey = ch.theirSide.paymentBasePoint
      /\ c.localHtlcPubKey = derivePubKey(point, ch.ourSide.htlcBasePoint)
      /\ c.remoteHtlcPubKey = derivePubKey(point, ch.theirSide.htlcBasePoint)
  BY <1>1, <1>2 DEF LocalCommitment
<1>4. /\ c.revocationPubKey.dlog \in Int /\ c.delayedPubKey.dlog \in Int
      /\ c.remotePubKey.dlog \in Int
      /\ c.localHtlcPubKey.dlog \in Int /\ c.remoteHtlcPubKey.dlog \in Int
  BY <1>1, <1>3, DerivedKeys DEF TypedSide
<1>5. Typed(c)
  BY <1>3, <1>4 DEF Typed, TypedSide
<1>6. PICK e : e = LocalCommitment(ch, AsSeenByPeer(hs))
  OBVIOUS
<1>7. PICK d : d = SeenByOther(e)
  OBVIOUS
<1>8. /\ AgreedTerms(c, e) /\ e.htlcs = AsSeenByPeer(hs)
      /\ "reverseHtlcs" \in DOMAIN e
  BY <1>2, <1>6 DEF LocalCommitment, AgreedTerms
<1>9. d = [e EXCEPT !.reverseHtlcs = TRUE]
  BY <1>7 DEF SeenByOther
<1>10. AgreedTerms(c, d) /\ d.htlcs = AsSeenByPeer(hs) /\ d.reverseHtlcs = TRUE
  BY <1>8, <1>9 DEF AgreedTerms
<1>11. Mirrors(c, d)
  BY <1>3, <1>10 DEF Mirrors
<1> QED
  BY <1>2, <1>5, <1>6, <1>7, <1>11

(* The same, for the other side. *)
LEMMA RemoteTyped ==
  ASSUME NEW ch, TypedSide(ch.ourSide), TypedSide(ch.theirSide), sats(ch.feeRatePerKw) \in Int,
         ch.theirSide.nextCommitmentPoint.dlog \in Int,
         ch.theirSide.nextCommitmentNumber \in 0 .. MAX_COMMITMENT_NUMBER,
         NEW hs \in Seq(Htlcs)
  PROVE  Typed(RemoteCommitment(ch, hs))
<1>1. PICK point : point = ch.theirSide.nextCommitmentPoint
  OBVIOUS
<1>2. PICK c : c = RemoteCommitment(ch, hs)
  OBVIOUS
<1>3. /\ c.reverseHtlcs = TRUE /\ c.htlcs = hs
      /\ c.commitmentNumber = ch.theirSide.nextCommitmentNumber
      /\ c.feePerKw = sats(ch.feeRatePerKw) /\ c.localDelay = ch.theirSide.toSelfDelayBlocks
      /\ c.localValue = ch.theirSide.balance /\ c.remoteValue = ch.ourSide.balance
      /\ c.revocationPubKey = deriveRevocationPubKey(point, ch.ourSide.revocationBasePoint)
      /\ c.delayedPubKey = derivePubKey(point, ch.theirSide.delayedBasePoint)
      /\ c.remotePubKey = ch.ourSide.paymentBasePoint
      /\ c.localHtlcPubKey = derivePubKey(point, ch.theirSide.htlcBasePoint)
      /\ c.remoteHtlcPubKey = derivePubKey(point, ch.ourSide.htlcBasePoint)
  BY <1>1, <1>2 DEF RemoteCommitment
<1>4. /\ c.revocationPubKey.dlog \in Int /\ c.delayedPubKey.dlog \in Int
      /\ c.remotePubKey.dlog \in Int
      /\ c.localHtlcPubKey.dlog \in Int /\ c.remoteHtlcPubKey.dlog \in Int
  BY <1>1, <1>3, DerivedKeys, SMTT(60) DEF TypedSide
<1> QED
  BY <1>2, <1>3, <1>4 DEF Typed, TypedSide

(* A commitment as the other end sees it is seen back by its holder. *)
LEMMA SeenBack ==
  ASSUME NEW ch, NEW hs
  PROVE  Mirrors(SeenByOther(LocalCommitment(ch, hs)), LocalCommitment(ch, AsSeenByPeer(hs)))
<1>1. PICK e : e = LocalCommitment(ch, hs)
  OBVIOUS
<1>2. PICK d : d = LocalCommitment(ch, AsSeenByPeer(hs))
  OBVIOUS
<1>3. PICK c : c = SeenByOther(e)
  OBVIOUS
<1>4. /\ AgreedTerms(e, d) /\ d.htlcs = AsSeenByPeer(hs) /\ e.htlcs = hs
      /\ "reverseHtlcs" \in DOMAIN e /\ d.reverseHtlcs = FALSE
  BY <1>1, <1>2 DEF LocalCommitment, AgreedTerms
<1>5. c = [e EXCEPT !.reverseHtlcs = TRUE]
  BY <1>3 DEF SeenByOther
<1>6. AgreedTerms(c, d) /\ c.htlcs = hs /\ c.reverseHtlcs = TRUE
  BY <1>4, <1>5 DEF AgreedTerms
<1> QED
  BY <1>1, <1>2, <1>3, <1>4, <1>6 DEF Mirrors

(* There are numbers for the first commitments. *)
LEMMA TwoNumbers == MAX_COMMITMENT_NUMBER >= 1
<1>1. Bits - 1 \in 0 .. Bits - 1 /\ Bits - 1 + 1 = Bits /\ Bits - 1 \in 0 .. Bits
  BY BitsAssumption
<1>2. PICK b : b = Bits - 1
  OBVIOUS
<1>3. Pow2[b + 1] = 2 * Pow2[b] /\ Pow2[b] \in Nat /\ Pow2[b] >= 1
  BY <1>1, <1>2, Powers
<1>4. Pow2[Bits] = 2 * Pow2[b]
  BY <1>1, <1>2, <1>3
<1> QED
  BY <1>3, <1>4 DEF MAX_COMMITMENT_NUMBER

(* Steps that keep the terms keep what they are made of. *)
LEMMA TypedKept ==
  ASSUME NEW ch, NEW moved, TypedChannel(ch), SameTerms(moved, ch),
         moved.secrets = ch.secrets, moved.ourSide.nextCommitmentPoint.dlog \in Int
  PROVE  TypedChannel(moved)
<1>1. moved.feeRatePerKw = ch.feeRatePerKw
  BY DEF SameTerms, TermFields
<1>2. TypedSide(moved.ourSide) /\ TypedSide(moved.theirSide)
  BY TypedTwin DEF SameTerms, TypedChannel
<1> QED
  BY <1>1, <1>2 DEF TypedChannel

(* Every secret is a number. *)
LEMMA SecretsAreNumbers ==
  /\ \A seed \in PeerSeeds \cup {OurSecrets.seed} : \A n \in Nat : secretOf(seed, n) \in Int
  /\ OurSecrets.seed \in Int /\ \A s \in SecretsGiven : s \in Int
<1>1. PeerSeeds \cup {OurSecrets.seed} \subseteq Int
  BY DEF PeerSeeds, PeerSecrets, OurSecrets, Secrets
<1>2. \A seed \in PeerSeeds \cup {OurSecrets.seed} : \A n \in Nat : secretOf(seed, n) \in Int
  BY <1>1, SecretIsNumber
<1>3. \A s \in SecretsGiven : s \in Int
  BY <1>2 DEF SecretsGiven
<1> QED
  BY <1>1, <1>2, <1>3

(* The points of a message are points, or bytes that are none. *)
LEMMA MessagePoints ==
  ASSUME NEW a \in Accepts, NEW msg, msg = AcceptMessage(a)
  PROVE  /\ msg.paymentBasePoint.dlog \in Int /\ msg.delayedPaymentBasePoint.dlog \in Int
         /\ msg.htlcBasePoint.dlog \in Int /\ msg.revocationBasePoint.dlog \in Int
         /\ msg.toSelfDelay \in Int
<1> DEFINE keys == [fundingPubKey |-> PeerSecrets.funding, paymentBasePoint |-> PeerSecrets.payment,
                    delayedPaymentBasePoint |-> PeerSecrets.delayed,
                    htlcBasePoint |-> PeerSecrets.htlc,
                    revocationBasePoint |-> PeerSecrets.revocation,
                    firstPerCommitmentPoint |-> secretOf(PeerSecrets.seed, 0)]
           points == [k \in DOMAIN keys |-> Point(IF a.badKey = k THEN Undefined ELSE keys[k])]
           Used == {"paymentBasePoint", "delayedPaymentBasePoint", "htlcBasePoint",
                    "revocationBasePoint"}
<1>1. msg = a ++ points
  BY Zenon DEF AcceptMessage
<1>2. DOMAIN a = {"dustLimit", "minimumDepth", "minHtlcValue", "maxHtlcValueInFlight",
                  "channelReserve", "toSelfDelay", "maxAcceptedHtlcs", "badKey"}
  BY LedgerAssumption
<1>3. a.toSelfDelay \in Nat
  BY LedgerAssumption
<1>4. \A k \in Used : k \in DOMAIN keys /\ keys[k] \in Int
  BY DEF PeerSecrets, Secrets
<1> HIDE DEF keys
<1>5. \A k \in Used : k \in DOMAIN points /\ points[k].dlog \in Int
  BY <1>4 DEF Point, Undefined
<1> HIDE DEF points
<1>6. \A k \in Used : msg[k] = points[k]
  <2>1. \A k \in Used : k \notin DOMAIN a
    BY <1>2
  <2>2. \A k \in DOMAIN points : k \notin DOMAIN a => (a ++ points)[k] = points[k]
    BY Together
  <2> QED
    BY <1>1, <1>5, <2>1, <2>2
<1> QED
  BY <1>3, <1>5, <1>6, AcceptedMessage

(* The channel that is made of a request and an answer. *)
LEMMA FundedTyped ==
  ASSUME NEW r \in Requests, NEW a \in Accepts, NEW ch, ch = createChannel(r),
         NEW msg, msg = AcceptMessage(a), NEW funded,
         funded = attachFundingTx(attachAcceptChannel(ch, msg),
                                  createFundingTx(attachAcceptChannel(ch, msg)))
  PROVE  TypedChannel(funded)
<1>1. /\ funded.feeRatePerKw = r.feeRatePerKw /\ funded.secrets = OurSecrets
  BY FundedChannel
<1>2. /\ funded.ourSide.balance = subn(r.fundingAmount, r.pushAmount)
      /\ funded.ourSide.toSelfDelayBlocks = msg.toSelfDelay
      /\ funded.ourSide.paymentBasePoint = toPubKey(OurSecrets.payment)
      /\ funded.ourSide.delayedBasePoint = toPubKey(OurSecrets.delayed)
      /\ funded.ourSide.htlcBasePoint = toPubKey(OurSecrets.htlc)
      /\ funded.ourSide.revocationBasePoint = toPubKey(OurSecrets.revocation)
      /\ funded.ourSide.nextCommitmentPoint = pointOf(OurSecrets.seed, 0)
      /\ \A f \in SenderFields : funded.theirSide[f] = SenderSide(msg)[f]
      /\ funded.theirSide.balance = r.pushAmount
      /\ funded.theirSide.toSelfDelayBlocks = r.toSelfBlockDelay
  BY OurRecord
<1>3. /\ sats(r.fundingAmount) \in Int /\ sats(r.pushAmount) \in Int
      /\ sats(r.feeRatePerKw) \in Int /\ r.toSelfBlockDelay \in Int
  <2>1. /\ r.fundingAmount \in Amount /\ r.pushAmount \in Amount /\ r.feeRatePerKw \in Amount
        /\ r.toSelfBlockDelay \in Nat
    BY LedgerAssumption
  <2> QED
    BY <2>1, SMTT(30) DEF Amount, sats
<1>4. /\ msg.paymentBasePoint.dlog \in Int /\ msg.delayedPaymentBasePoint.dlog \in Int
      /\ msg.htlcBasePoint.dlog \in Int /\ msg.revocationBasePoint.dlog \in Int
      /\ msg.toSelfDelay \in Int
  BY MessagePoints
<1>5. TypedSide(funded.ourSide)
  <2>1. /\ OurSecrets.payment \in Int /\ OurSecrets.delayed \in Int /\ OurSecrets.htlc \in Int
        /\ OurSecrets.revocation \in Int
    BY DEF OurSecrets, Secrets
  <2>2. sats(subn(r.fundingAmount, r.pushAmount)) \in Int
    BY <1>3, SubIsTyped
  <2>3. /\ toPubKey(OurSecrets.payment).dlog \in Int /\ toPubKey(OurSecrets.delayed).dlog \in Int
        /\ toPubKey(OurSecrets.htlc).dlog \in Int /\ toPubKey(OurSecrets.revocation).dlog \in Int
    BY <2>1, PointIsTyped
  <2> QED
    BY <1>2, <1>4, <2>2, <2>3 DEF TypedSide
<1>6. TypedSide(funded.theirSide)
  <2>1. /\ SenderSide(msg).paymentBasePoint = msg.paymentBasePoint
        /\ SenderSide(msg).delayedBasePoint = msg.delayedPaymentBasePoint
        /\ SenderSide(msg).htlcBasePoint = msg.htlcBasePoint
        /\ SenderSide(msg).revocationBasePoint = msg.revocationBasePoint
    BY SenderSideFields
  <2>2. /\ funded.theirSide.paymentBasePoint = msg.paymentBasePoint
        /\ funded.theirSide.delayedBasePoint = msg.delayedPaymentBasePoint
        /\ funded.theirSide.htlcBasePoint = msg.htlcBasePoint
        /\ funded.theirSide.revocationBasePoint = msg.revocationBasePoint
    BY <1>2, <2>1 DEF SenderFields
  <2> QED
    BY <1>2, <1>3, <1>4, <2>2 DEF TypedSide
<1>7. pointOf(OurSecrets.seed, 0).dlog \in Int
  <2>1. PICK s \in Int : s = secretOf(OurSecrets.seed, 0)
    BY SecretsAreNumbers
  <2> QED
    BY <2>1, PointIsTyped DEF pointOf
<1>8. OurSecrets.seed \in Int
  BY SecretsAreNumbers
<1> QED
  BY <1>1, <1>2, <1>3, <1>5, <1>6, <1>7, <1>8 DEF TypedChannel

(* The counterpart's move: there is a number for it. *)
LEMMA PeerMoves ==
  ASSUME IInv, IInv', NumberInv, Opened, NEW seed \in PeerSeeds, PeerMovesOn(seed),
         readyPoint' = readyPoint, Len(built) <= revoked',
         Len(built) + 1 <= MAX_COMMITMENT_NUMBER, revoked' \in Nat
  PROVE  NumberInv'
<1>1. PICK ch : ch = channel
  OBVIOUS
<1>2. PICK point : channel' = attachChannelReady(ch, point)
  BY <1>1 DEF PeerMovesOn
<1>3. PICK key : built' = Append(built, key)
  BY DEF PeerMovesOn
<1>4. Shaped(ch) /\ TypedChannel(ch)
  BY <1>1 DEF IInv, AgreeInv, NumberInv
<1>5. PICK moved : moved = channel'
  OBVIOUS
<1>6. SameTerms(moved, ch) /\ moved.ourSide = ch.ourSide /\ moved.secrets = ch.secrets
  <2>1. "secrets" \in DOMAIN ch \ {"theirSide"}
    BY <1>4 DEF Shaped
  <2> QED
    BY <1>2, <1>4, <1>5, <2>1, ChannelReadyAttached
<1>7. TypedChannel(moved)
  <2>1. moved.ourSide.nextCommitmentPoint.dlog \in Int
    BY <1>4, <1>6 DEF TypedChannel
  <2> QED
    BY <1>4, <1>6, <2>1, TypedKept
<1>8. Len(built') = Len(built) + 1 /\ Len(built) \in Nat
  BY <1>3 DEF IInv, KeysInv
<1> QED
  BY <1>1, <1>5, <1>6, <1>7, <1>8 DEF NumberInv

(* Every step keeps the numbers. *)
LEMMA NumberStep ==
  ASSUME IInv, IInv', StoreInv, NumberInv, [Next]_vars
  PROVE  NumberInv'
<1>1. revoked \in Nat
  BY Numbers DEF StoreInv
<1>2. ASSUME UNCHANGED <<channel, peer, readyPoint, built, revoked>> PROVE NumberInv'
  BY <1>2 DEF NumberInv, Opened
<1>3. ASSUME NEW error, Fail(error) PROVE NumberInv'
  BY <1>2, <1>3 DEF Fail
<1>4. CASE \E r \in Requests : OpenChannel(r)
  <2>1. CASE \E r \in Requests : Fail(requestError(r))
    BY <1>3, <2>1
  <2>2. CASE phase = "idle" /\ peer' = peer
    <3>1. ~Opened'
      BY <2>2 DEF IInv, PhaseInv, Opened
    <3> QED
      BY <3>1 DEF NumberInv
  <2> QED
    BY <1>4, <2>1, <2>2 DEF OpenChannel
<1>5. CASE \E a \in Accepts : AcceptChannel(a)
  <2>1. PICK a \in Accepts : AcceptChannel(a)
    BY <1>5
  <2>2. PICK msg : msg = AcceptMessage(a)
    OBVIOUS
  <2>3. PICK error : error = acceptError(channel, msg, [k \in MessageKeys |-> isValid(msg[k])])
    OBVIOUS
  <2>4. PICK ch : ch = channel
    OBVIOUS
  <2>5. PICK funded : funded = attachFundingTx(attachAcceptChannel(ch, msg),
                                               createFundingTx(attachAcceptChannel(ch, msg)))
    OBVIOUS
  <2>6. CASE Fail(error)
    BY <1>3, <2>6
  <2>7. CASE channel' = funded /\ UNCHANGED <<readyPoint, built, revoked>>
    <3>1. ~Opened /\ phase = "open_channel" /\ readyPoint = None /\ built = << >>
      BY <2>1 DEF AcceptChannel, IInv, PhaseInv
    <3>2. PICK r \in Requests : ch = createChannel(r)
      BY <2>4, <3>1 DEF IInv, PhaseInv
    <3>3. TypedChannel(funded)
      BY <2>2, <2>5, <3>2, FundedTyped
    <3>4. funded.ourSide.nextCommitmentNumber = 0
      BY <2>5, <3>2, OurRecord
    <3>5. Len(built') = 0 /\ 0 <= revoked + 1 /\ 0 <= MAX_COMMITMENT_NUMBER
      BY <1>1, <2>7, <3>1, Numbers
    <3> QED
      BY <2>7, <3>3, <3>4, <3>5 DEF NumberInv
  <2> QED
    BY <2>1, <2>2, <2>3, <2>4, <2>5, <2>6, <2>7 DEF AcceptChannel
<1>6. CASE FundingSigned
  <2>1. Opened
    BY <1>6 DEF FundingSigned, IInv, PhaseInv
  <2>2. CASE Fail("InvalidCommitmentSig")
    BY <1>3, <2>2
  <2>3. ASSUME NEW sig, channel' = attachFundingSigned(channel, sig),
               UNCHANGED <<peer, readyPoint, built, revoked>>
        PROVE  NumberInv'
    <3>1. PICK ch, moved : ch = channel /\ moved = channel'
      OBVIOUS
    <3>2. Shaped(ch) /\ TypedChannel(ch) /\ moved = attachFundingSigned(ch, sig)
      BY <2>1, <2>3, <3>1 DEF IInv, AgreeInv, NumberInv
    <3>3. /\ SameTerms(moved, ch)
          /\ \A f \in SideFields \ {"nextCommitmentSig"} : moved.ourSide[f] = ch.ourSide[f]
          /\ \A f \in DOMAIN ch \ {"ourSide"} : moved[f] = ch[f]
      BY <3>2, FundingSignedAttached
    <3>4. /\ moved.ourSide.nextCommitmentNumber = ch.ourSide.nextCommitmentNumber
          /\ moved.ourSide.nextCommitmentPoint = ch.ourSide.nextCommitmentPoint
          /\ moved.secrets = ch.secrets
      BY <3>2, <3>3 DEF SideFields, Shaped
    <3>5. TypedChannel(moved)
      <4>1. moved.ourSide.nextCommitmentPoint.dlog \in Int
        BY <3>2, <3>4 DEF TypedChannel
      <4> QED
        BY <3>2, <3>3, <3>4, <4>1, TypedKept
    <3> QED
      BY <2>1, <2>3, <3>1, <3>4, <3>5 DEF NumberInv
  <2> QED
    BY <1>6, <2>2, <2>3 DEF FundingSigned
<1>7. CASE \E revokes \in RevokesFirst : DepthReached(revokes)
  <2>1. PICK revokes \in RevokesFirst : DepthReached(revokes)
    BY <1>7
  <2>2. PICK ch : ch = channel
    OBVIOUS
  <2>3. PICK current : current = IF revokes THEN revokeLocalCommitment(ch) ELSE ch
    OBVIOUS
  <2>4. PICK point : point = current.ourSide.nextCommitmentPoint
    OBVIOUS
  <2>5. /\ phase = "funding_signed" /\ readyPoint = None
        /\ channel' = current /\ readyPoint' = point /\ UNCHANGED <<built, revoked>>
    BY <2>1, <2>2, <2>3, <2>4 DEF DepthReached
  <2>6. Opened
    BY <2>5 DEF IInv, PhaseInv
  <2>7. Shaped(ch) /\ TypedChannel(ch) /\ ch.ourSide.nextCommitmentNumber = 0
    BY <2>2, <2>5, <2>6 DEF IInv, AgreeInv, NumberInv
  <2>8. /\ TypedChannel(current) /\ current.ourSide.nextCommitmentNumber \in {0, 1}
        /\ point # None
    <3>1. CASE revokes
      <4>1. PICK pt : pt = pointOf(ch.secrets.seed, 1)
        OBVIOUS
      <4>2. next(ch.ourSide.nextCommitmentNumber) = 1
        BY <2>7 DEF next
      <4>3. /\ SameTerms(current, ch) /\ current.ourSide = Rotated(ch.ourSide, pt)
            /\ \A f \in DOMAIN ch \ {"ourSide"} : current[f] = ch[f]
        BY <2>3, <2>7, <3>1, <4>1, <4>2, LocalRevoked
      <4>4. /\ current.ourSide.nextCommitmentPoint = pt
            /\ current.ourSide.nextCommitmentNumber = 1
        <5>1. SideFields \subseteq DOMAIN ch.ourSide
          BY <2>7 DEF Shaped
        <5> QED
          BY <4>2, <4>3, <5>1, RotatedFields
      <4>5. current.secrets = ch.secrets
        BY <2>7, <4>3 DEF Shaped
      <4>6. pt.dlog \in Int /\ pt # None
        <5>1. PICK s \in Int : s = secretOf(ch.secrets.seed, 1)
          <6>1. ch.secrets.seed \in Int
            BY <2>7 DEF TypedChannel
          <6> QED
            BY <6>1, SecretIsNumber
        <5>2. pt = toPubKey(s)
          BY <4>1, <5>1 DEF pointOf
        <5> QED
          BY <5>2, PointIsTyped, PointIsSome DEF toPubKey
      <4> QED
        BY <2>4, <2>7, <4>3, <4>4, <4>5, <4>6, TypedKept
    <3>2. CASE ~revokes
      <4>1. ch.ourSide.nextCommitmentPoint # None
        BY <2>2, <2>6 DEF IInv, AgreeInv
      <4> QED
        BY <2>3, <2>4, <2>7, <3>2, <4>1
    <3> QED
      BY <3>1, <3>2
  <2> QED
    BY <2>5, <2>6, <2>8 DEF NumberInv
<1>8. CASE \E seed \in PeerSeeds : ChannelReady(seed)
  <2>1. PICK seed \in PeerSeeds : ChannelReady(seed)
    BY <1>8
  <2>2. /\ phase = "funding_signed" /\ PeerMovesOn(seed) /\ ~hasChannelReady(channel)
        /\ readyPoint' = readyPoint /\ revoked' = revoked
    BY <2>1 DEF ChannelReady
  <2>3. Opened
    BY <2>2 DEF IInv, PhaseInv
  <2>4. Len(built) = 0
    <3>1. Len(built) \in Nat /\ channel.theirSide.nextCommitmentNumber = Len(built)
      BY <2>3 DEF IInv, KeysInv
    <3> QED
      BY <2>2, <3>1 DEF hasChannelReady
  <2>5. Len(built) <= revoked' /\ Len(built) + 1 <= MAX_COMMITMENT_NUMBER /\ revoked' \in Nat
    BY <1>1, <2>2, <2>4, TwoNumbers, Numbers
  <2> QED
    BY <2>2, <2>3, <2>5, PeerMoves
<1>9. CASE \E seed \in PeerSeeds : Revoke(seed)
  <2>1. PICK seed \in PeerSeeds : Revoke(seed)
    BY <1>9
  <2>2. Opened /\ revoked + 2 <= MAX_COMMITMENT_NUMBER
    BY <2>1 DEF Revoke, IInv, PhaseInv
  <2>3. CASE Fail("secret refused")
    BY <1>3, <2>3
  <2>4. CASE revoked' = revoked + 1 /\ PeerMovesOn(seed) /\ readyPoint' = readyPoint
    <3>1. Len(built) \in Nat /\ Len(built) <= revoked + 1
      BY <2>2 DEF IInv, KeysInv, NumberInv
    <3>2. Len(built) <= revoked' /\ Len(built) + 1 <= MAX_COMMITMENT_NUMBER /\ revoked' \in Nat
      BY <1>1, <2>2, <2>4, <3>1, Numbers
    <3> QED
      BY <2>2, <2>4, <3>2, PeerMoves
  <2> QED
    BY <2>1, <2>3, <2>4 DEF Revoke
<1>10. CASE \E h \in Htlcs : AddHtlc(h)
  <2>1. PICK h \in Htlcs : AddHtlc(h)
    BY <1>10
  <2>2. /\ phase = "funding_signed" /\ UNCHANGED <<readyPoint, built, revoked>>
    BY <2>1 DEF AddHtlc
  <2>3. Opened
    BY <2>2 DEF IInv, PhaseInv
  <2>4. PICK ch : ch = channel
    OBVIOUS
  <2>5. Shaped(ch) /\ TypedChannel(ch)
    BY <2>3, <2>4 DEF IInv, AgreeInv, NumberInv
  <2>6. sats(h.value) \in Int
    BY TurnedHtlc DEF sats, Amount
  <2>7. ASSUME NEW side, TypedSide(side), SideFields \subseteq DOMAIN side
        PROVE  TypedSide(Paid(side, h.value))
    <3>1. /\ Paid(side, h.value).balance = subn(side.balance, h.value)
          /\ \A f \in DOMAIN side \ {"balance"} : Paid(side, h.value)[f] = side[f]
      BY <2>7, PaidFields
    <3>2. /\ Paid(side, h.value).toSelfDelayBlocks = side.toSelfDelayBlocks
          /\ Paid(side, h.value).paymentBasePoint = side.paymentBasePoint
          /\ Paid(side, h.value).delayedBasePoint = side.delayedBasePoint
          /\ Paid(side, h.value).htlcBasePoint = side.htlcBasePoint
          /\ Paid(side, h.value).revocationBasePoint = side.revocationBasePoint
      BY <2>7, <3>1 DEF SideFields
    <3>3. sats(subn(side.balance, h.value)) \in Int
      BY <2>6, <2>7, SubIsTyped DEF TypedSide
    <3> QED
      BY <2>7, <3>1, <3>2, <3>3 DEF TypedSide
  <2>8. /\ TypedSide(ch.ourSide) /\ SideFields \subseteq DOMAIN ch.ourSide
        /\ TypedSide(ch.theirSide) /\ SideFields \subseteq DOMAIN ch.theirSide
    BY <2>5 DEF Shaped, TypedChannel
  <2>9. PICK moved : moved = channel'
    OBVIOUS
  <2>10. /\ TypedChannel(moved)
         /\ moved.ourSide.nextCommitmentNumber = ch.ourSide.nextCommitmentNumber
    <3>1. CASE moved = [ch EXCEPT !.ourSide = Paid(@, h.value)]
      <4>1. /\ moved.ourSide = Paid(ch.ourSide, h.value)
            /\ \A f \in DOMAIN ch \ {"ourSide"} : moved[f] = ch[f]
        BY <2>5, <3>1, OurSidePays
      <4>2. /\ moved.theirSide = ch.theirSide /\ moved.feeRatePerKw = ch.feeRatePerKw
            /\ moved.secrets = ch.secrets
        BY <2>5, <4>1 DEF Shaped, TermFields
      <4>3. \A f \in DOMAIN ch.ourSide \ {"balance"} : moved.ourSide[f] = ch.ourSide[f]
        BY <2>8, <4>1, PaidFields
      <4>4. /\ moved.ourSide.nextCommitmentNumber = ch.ourSide.nextCommitmentNumber
            /\ moved.ourSide.nextCommitmentPoint = ch.ourSide.nextCommitmentPoint
        BY <2>8, <4>3 DEF SideFields
      <4>5. TypedSide(moved.ourSide)
        BY <2>7, <2>8, <4>1
      <4> QED
        BY <2>5, <4>2, <4>4, <4>5 DEF TypedChannel
    <3>2. CASE moved = [ch EXCEPT !.theirSide = Paid(@, h.value)]
      <4>1. /\ moved.theirSide = Paid(ch.theirSide, h.value)
            /\ \A f \in DOMAIN ch \ {"theirSide"} : moved[f] = ch[f]
        BY <2>5, <3>2, TheirSidePays
      <4>2. /\ moved.ourSide = ch.ourSide /\ moved.feeRatePerKw = ch.feeRatePerKw
            /\ moved.secrets = ch.secrets
        BY <2>5, <4>1 DEF Shaped, TermFields
      <4>3. TypedSide(moved.theirSide)
        BY <2>7, <2>8, <4>1
      <4> QED
        BY <2>5, <4>2, <4>3 DEF TypedChannel
    <3>3. moved \in {[ch EXCEPT !.ourSide = Paid(@, h.value)],
                     [ch EXCEPT !.theirSide = Paid(@, h.value)]}
      BY <2>1, <2>4, <2>9 DEF AddHtlc, Paid
    <3> QED
      BY <3>1, <3>2, <3>3
  <2> QED
    BY <2>2, <2>3, <2>4, <2>9, <2>10 DEF NumberInv
<1>11. CASE UNCHANGED vars
  BY <1>2, <1>11 DEF vars
<1> QED
  BY <1>4, <1>5, <1>6, <1>7, <1>8, <1>9, <1>10, <1>11 DEF Next

(* There is a number for every commitment (CommitmentNumber).              *)
THEOREM NumberInvariance == Spec => []NumberInv
<1>1. Init => NumberInv
  BY DEF Init, NumberInv, Opened
<1> QED
  BY <1>1, NumberStep, Invariance, StoreInvariance, PTL DEF Spec

(***************************************************************************)
(* The two ends of a channel build one transaction for a commitment they   *)
(* both number, ours and the counterpart's, with the HTLCs of its outputs  *)
(* the same to the satoshi, and the number is read back out of it, for any *)
(* amounts, keys, payments and any width of the number                     *)
(* (createLocalCommitmentTx, createRemoteCommitmentTx, createCommitment).  *)
(***************************************************************************)
THEOREM CommitmentsAreMirrored == Spec => []MirroredCommitments
<1>1. IInv /\ NumberInv => MirroredCommitments
  <2> SUFFICES ASSUME IInv, NumberInv, Opened,
                      NEW mine, mine = LocalCommitment(channel, htlcs),
                      NEW mineSeen, mineSeen = RemoteCommitment(peer, AsSeenByPeer(htlcs)),
                      NEW theirs, theirs = LocalCommitment(peer, AsSeenByPeer(htlcs)),
                      NEW theirsSeen, theirsSeen = RemoteCommitment(channel, htlcs)
               PROVE  /\ mine.commitmentNumber = mineSeen.commitmentNumber =>
                            SameFor(mine, mineSeen, mine)
                      /\ theirs.commitmentNumber = theirsSeen.commitmentNumber =>
                            SameFor(theirsSeen, theirs, theirs)
    BY DEF MirroredCommitments
  <2>1. PICK ch, p, hs : ch = channel /\ p = peer /\ hs = htlcs
    OBVIOUS
  <2>2. hs \in Seq(Htlcs)
    BY <2>1 DEF IInv, PhaseInv
  <2>3. /\ ch.funder = TRUE /\ p.funder = FALSE
        /\ ch.fundingOutPoint = p.fundingOutPoint /\ ch.feeRatePerKw = p.feeRatePerKw
        /\ Twin(ch.ourSide, p.theirSide) /\ Twin(p.ourSide, ch.theirSide)
        /\ SameNumber(p.ourSide, ch.theirSide) /\ SamePoint(p.ourSide, ch.theirSide)
        /\ SameNumber(ch.ourSide, p.theirSide) => SamePoint(ch.ourSide, p.theirSide)
    BY <2>1 DEF IInv, AgreeInv, OneChannel
  <2>4. /\ TypedSide(ch.ourSide) /\ TypedSide(ch.theirSide) /\ sats(ch.feeRatePerKw) \in Int
        /\ ch.ourSide.nextCommitmentPoint.dlog \in Int
    BY <2>1 DEF NumberInv, TypedChannel
  <2>5. ch.ourSide.nextCommitmentNumber \in 0 .. MAX_COMMITMENT_NUMBER
    <3>1. ch.ourSide.nextCommitmentNumber \in {0, 1}
      BY <2>1 DEF NumberInv
    <3> QED
      BY <3>1, TwoNumbers, Numbers
  <2>6. /\ ch.theirSide.nextCommitmentNumber \in 0 .. MAX_COMMITMENT_NUMBER
        /\ ch.theirSide.nextCommitmentPoint.dlog \in Int
    <3>1. /\ Len(built) \in Nat /\ Len(given) = Len(built) + 1 /\ given \in Seq(SecretsGiven)
          /\ ch.theirSide.nextCommitmentNumber = Len(built)
          /\ ch.theirSide.nextCommitmentPoint = toPubKey(given[Len(given)])
      BY <2>1 DEF IInv, KeysInv
    <3>2. Len(built) <= MAX_COMMITMENT_NUMBER
      BY DEF NumberInv
    <3>3. PICK s \in SecretsGiven : s = given[Len(given)]
      BY <3>1
    <3>4. s \in Int
      BY SecretsAreNumbers
    <3>5. toPubKey(s).dlog \in Int
      BY <3>4, PointIsTyped
    <3> QED
      BY <3>1, <3>2, <3>3, <3>5, Numbers
  <2>7. ASSUME mine.commitmentNumber = mineSeen.commitmentNumber
        PROVE  SameFor(mine, mineSeen, mine)
    <3>1. SameNumber(ch.ourSide, p.theirSide)
      BY <2>1, <2>7 DEF LocalCommitment, RemoteCommitment, SameNumber
    <3>2. RemoteCommitment(p, AsSeenByPeer(hs))
            = SeenByOther(LocalCommitment(ch, AsSeenByPeer(hs)))
      <4>1. (p.funder = TRUE /\ ch.funder = FALSE) \/ (p.funder = FALSE /\ ch.funder = TRUE)
        BY <2>3
      <4>2. p.fundingOutPoint = ch.fundingOutPoint /\ p.feeRatePerKw = ch.feeRatePerKw
        BY <2>3
      <4> QED
        BY <2>3, <3>1, <4>1, <4>2, SameArguments
    <3>3. Typed(mine) /\ Mirrors(mine, mineSeen)
      BY <2>1, <2>2, <2>4, <2>5, <3>2, LocalTyped
    <3> QED
      BY <3>3, SameCommitment
  <2>8. SameFor(theirsSeen, theirs, theirs)
    <3>1. RemoteCommitment(ch, hs) = SeenByOther(LocalCommitment(p, hs))
      <4>1. (ch.funder = TRUE /\ p.funder = FALSE) \/ (ch.funder = FALSE /\ p.funder = TRUE)
        BY <2>3
      <4> QED
        BY <2>3, <4>1, SameArguments
    <3>2. Mirrors(theirsSeen, theirs)
      BY <2>1, <3>1, SeenBack
    <3>3. Typed(theirsSeen)
      BY <2>1, <2>2, <2>4, <2>6, RemoteTyped
    <3> QED
      BY <3>2, <3>3, SameCommitment
  <2> QED
    BY <2>7, <2>8
<1> QED
  BY <1>1, Invariance, NumberInvariance, PTL

-----------------------------------------------------------------------------
(* The function that Total reads its sum off. *)
IsTotal(t, f, n) == t = [k \in 0 .. n |-> IF k = 0 THEN 0 ELSE t[k - 1] + f[k]]

(* The function Total is read off exists. *)
LEMMA TotalExists ==
  ASSUME NEW f, NEW n \in Nat
  PROVE  \E t : IsTotal(t, f, n)
<1> DEFINE UpTo(m) == \E t : t = [k \in 0 .. m |-> IF k = 0 THEN 0 ELSE t[k - 1] + f[k]]
           S == {m \in Nat : UpTo(m)}
<1>1. 0 \in S
  <2> DEFINE t == [k \in 0 .. 0 |-> 0]
  <2>1. t = [k \in 0 .. 0 |-> IF k = 0 THEN 0 ELSE t[k - 1] + f[k]]
    OBVIOUS
  <2> QED
    BY <2>1
<1>2. \A m \in Nat : m \in S => m + 1 \in S
  <2> SUFFICES ASSUME NEW m \in Nat, m \in S PROVE UpTo(m + 1)
    OBVIOUS
  <2>1. PICK t : t = [k \in 0 .. m |-> IF k = 0 THEN 0 ELSE t[k - 1] + f[k]]
    OBVIOUS
  <2>2. PICK u : u = [k \in 0 .. m + 1 |-> IF k = m + 1 THEN t[m] + f[m + 1] ELSE t[k]]
    OBVIOUS
  <2>3. \A k \in 0 .. m + 1 : u[k] = IF k = 0 THEN 0 ELSE u[k - 1] + f[k]
    <3> SUFFICES ASSUME NEW k \in 0 .. m + 1
                 PROVE  u[k] = IF k = 0 THEN 0 ELSE u[k - 1] + f[k]
      OBVIOUS
    <3>1. CASE k = m + 1
      <4>1. k # 0 /\ k - 1 = m /\ m \in 0 .. m + 1 /\ m # m + 1
        BY <3>1
      <4> QED
        BY <2>2, <3>1, <4>1
    <3>2. CASE k # m + 1
      <4>1. k \in 0 .. m /\ (k # 0 => k - 1 \in 0 .. m + 1 /\ k - 1 # m + 1)
        BY <3>2
      <4>2. t[k] = IF k = 0 THEN 0 ELSE t[k - 1] + f[k]
        BY <2>1, <4>1
      <4> QED
        BY <2>2, <3>2, <4>1, <4>2
    <3> QED
      BY <3>1, <3>2
  <2>4. u = [k \in 0 .. m + 1 |-> IF k = 0 THEN 0 ELSE u[k - 1] + f[k]]
    BY <2>2, <2>3
  <2> QED
    BY <2>4
<1>3. n \in S
  <2> HIDE DEF S
  <2> QED
    BY <1>1, <1>2, Induct
<1> QED
  BY <1>3 DEF IsTotal

(* It is read off some function of this kind, and any other gives the same *)
(* numbers. *)
LEMMA TotalRead ==
  ASSUME NEW f, NEW n \in Nat
  PROVE  \E t : IsTotal(t, f, n) /\ Total(f, n) = t[n]
<1> DEFINE c == CHOOSE t : IsTotal(t, f, n)
<1>1. IsTotal(c, f, n)
  BY TotalExists, Zenon
<1>2. Total(f, n) = c[n]
  BY Zenon DEF Total, IsTotal
<1> QED
  BY <1>1, <1>2, Zenon

(* The numbers of two lists agree so far. *)
AlikeUpTo(f, g, m) == \A k \in 1 .. m : f[k] = g[k]

(* So do their sums. *)
LEMMA TotalsAgree ==
  ASSUME NEW f, NEW g, NEW m \in Nat, NEW n \in Nat, m <= n, AlikeUpTo(f, g, m),
         NEW t, IsTotal(t, f, m), NEW u, IsTotal(u, g, n)
  PROVE  t[m] = u[m]
<1> DEFINE S == {k \in Nat : k <= m => t[k] = u[k]}
<1>1. /\ \A k \in 0 .. m : t[k] = IF k = 0 THEN 0 ELSE t[k - 1] + f[k]
      /\ \A k \in 0 .. n : u[k] = IF k = 0 THEN 0 ELSE u[k - 1] + g[k]
  BY DEF IsTotal
<1>2. 0 \in S
  BY <1>1
<1>3. \A k \in Nat : k \in S => k + 1 \in S
  <2> SUFFICES ASSUME NEW k \in Nat, k \in S, k + 1 <= m PROVE t[k + 1] = u[k + 1]
    OBVIOUS
  <2>1. /\ k + 1 \in 0 .. m /\ k + 1 \in 0 .. n /\ k + 1 # 0 /\ k + 1 - 1 = k
        /\ k + 1 \in 1 .. m /\ k <= m
    OBVIOUS
  <2>2. t[k + 1] = t[k] + f[k + 1] /\ u[k + 1] = u[k] + g[k + 1]
    BY <1>1, <2>1
  <2> QED
    BY <2>1, <2>2 DEF AlikeUpTo
<1>4. m \in S
  <2> HIDE DEF S
  <2> QED
    BY <1>2, <1>3, Induct
<1> QED
  BY <1>4

(* Sums of the same numbers, of none and of one more. *)
LEMMA TotalOfSame ==
  ASSUME NEW n \in Nat, NEW f, NEW g, \A k \in 1 .. n : f[k] = g[k]
  PROVE  Total(f, n) = Total(g, n)
<1>1. AlikeUpTo(f, g, n)
  BY DEF AlikeUpTo
<1> QED
  BY <1>1, TotalRead, TotalsAgree

(* The sum of no numbers. *)
LEMMA TotalOfNone == ASSUME NEW f PROVE Total(f, 0) = 0
<1>1. PICK t : IsTotal(t, f, 0) /\ Total(f, 0) = t[0]
  BY TotalRead
<1> QED
  BY <1>1 DEF IsTotal

(* The sum of one more. *)
LEMMA TotalGrows ==
  ASSUME NEW f, NEW n \in Nat
  PROVE  Total(f, n + 1) = Total(f, n) + f[n + 1]
<1>1. PICK t : IsTotal(t, f, n) /\ Total(f, n) = t[n]
  BY TotalRead
<1>2. PICK u : IsTotal(u, f, n + 1) /\ Total(f, n + 1) = u[n + 1]
  BY TotalRead
<1>3. t[n] = u[n]
  <2>1. PICK m \in Nat : m = n + 1
    OBVIOUS
  <2>2. AlikeUpTo(f, f, n) /\ n <= m
    BY <2>1 DEF AlikeUpTo
  <2>3. IsTotal(t, f, n) /\ IsTotal(u, f, m)
    BY <1>1, <1>2, <2>1
  <2> QED
    BY <2>2, <2>3, TotalsAgree
<1>4. u[n + 1] = u[n] + f[n + 1]
  <2>1. n + 1 \in 0 .. n + 1 /\ n + 1 # 0 /\ n + 1 - 1 = n
    OBVIOUS
  <2> QED
    BY <1>2, <2>1 DEF IsTotal
<1> QED
  BY <1>1, <1>2, <1>3, <1>4

(* A sum of natural numbers. *)
LEMMA TotalIsNat ==
  ASSUME NEW n \in Nat, NEW f, \A k \in 1 .. n : f[k] \in Nat
  PROVE  Total(f, n) \in Nat
<1> DEFINE S == {m \in Nat : m <= n => Total(f, m) \in Nat}
<1>1. 0 \in S
  BY TotalOfNone
<1>2. \A m \in Nat : m \in S => m + 1 \in S
  <2> SUFFICES ASSUME NEW m \in Nat, m \in S, m + 1 <= n PROVE Total(f, m + 1) \in Nat
    OBVIOUS
  <2>1. Total(f, m + 1) = Total(f, m) + f[m + 1]
    BY TotalGrows
  <2>2. m <= n /\ m + 1 \in 1 .. n
    OBVIOUS
  <2> QED
    BY <2>1, <2>2
<1>3. n \in S
  <2> HIDE DEF S
  <2> QED
    BY <1>1, <1>2, Induct
<1> QED
  BY <1>3

(* Taking one number out. *)
LEMMA TotalWithout ==
  ASSUME NEW n \in Nat, NEW f \in [1 .. n -> Nat], NEW i \in 1 .. n
  PROVE  Total([f EXCEPT ![i] = 0], n) + f[i] = Total(f, n)
<1> DEFINE g == [f EXCEPT ![i] = 0]
           Holds(m) == Total(g, m) + (IF i <= m THEN f[i] ELSE 0) = Total(f, m)
           S == {m \in Nat : m <= n => Holds(m)}
<1>1. \A k \in 1 .. n : g[k] = IF k = i THEN 0 ELSE f[k]
  OBVIOUS
<1>2. \A m \in Nat : m <= n => Total(f, m) \in Nat /\ Total(g, m) \in Nat
  <2> SUFFICES ASSUME NEW m \in Nat, m <= n PROVE Total(f, m) \in Nat /\ Total(g, m) \in Nat
    OBVIOUS
  <2>1. \A k \in 1 .. m : f[k] \in Nat /\ g[k] \in Nat
    BY <1>1
  <2> HIDE DEF g
  <2> QED
    BY <2>1, TotalIsNat
<1> HIDE DEF g
<1>3. 0 \in S
  BY TotalOfNone
<1>4. \A m \in Nat : m \in S => m + 1 \in S
  <2> SUFFICES ASSUME NEW m \in Nat, m \in S, m + 1 <= n PROVE Holds(m + 1)
    OBVIOUS
  <2>1. Total(f, m + 1) = Total(f, m) + f[m + 1] /\ Total(g, m + 1) = Total(g, m) + g[m + 1]
    BY TotalGrows
  <2>2. m <= n /\ m + 1 \in 1 .. n
    OBVIOUS
  <2>3. f[m + 1] \in Nat /\ f[i] \in Nat
    BY <2>2
  <2>4. g[m + 1] = IF m + 1 = i THEN 0 ELSE f[m + 1]
    BY <1>1, <2>2
  <2>5. PICK a \in Nat, b \in Nat : a = Total(f, m) /\ b = Total(g, m)
    BY <1>2, <2>2
  <2>6. b + (IF i <= m THEN f[i] ELSE 0) = a
    BY <2>2, <2>5
  <2>7. CASE m + 1 = i
    <3>1. ~(i <= m) /\ i <= m + 1
      BY <2>7
    <3>2. b = a /\ g[m + 1] = 0 /\ f[m + 1] = f[i]
      BY <2>4, <2>5, <2>6, <2>7, <3>1
    <3> QED
      BY <2>1, <2>3, <2>5, <3>1, <3>2
  <2>8. CASE m + 1 # i
    <3>1. i <= m <=> i <= m + 1
      BY <2>8
    <3> QED
      BY <2>1, <2>3, <2>4, <2>5, <2>6, <2>8, <3>1
  <2> QED
    BY <2>7, <2>8
<1>5. n \in S
  <2> HIDE DEF S
  <2> QED
    BY <1>3, <1>4, Induct
<1> QED
  BY <1>5 DEF g

(* Some of the numbers, in any order and none twice, sum up to no more     *)
(* than all of them. *)
Injects(g, m, n) ==
    /\ \A j \in 1 .. m : g[j] \in 1 .. n
    /\ \A j, k \in 1 .. m : g[j] = g[k] => j = k
TakesUpTo(h, f, g, m) == \A j \in 1 .. m : h[j] \in Nat /\ h[j] <= f[g[j]]
SumsWithin(m, n) ==
    \A f \in [1 .. n -> Nat] : \A g, h :
        Injects(g, m, n) /\ TakesUpTo(h, f, g, m) => Total(h, m) <= Total(f, n)

(* A list that takes no more than the numbers at distinct places. *)
LEMMA TotalOfSome ==
  ASSUME NEW n \in Nat
  PROVE  \A m \in Nat : SumsWithin(m, n)
<1> DEFINE S == {m \in Nat : SumsWithin(m, n)}
<1>0. \A f \in [1 .. n -> Nat] : Total(f, n) \in Nat
  <2> SUFFICES ASSUME NEW f \in [1 .. n -> Nat] PROVE Total(f, n) \in Nat
    OBVIOUS
  <2>1. \A k \in 1 .. n : f[k] \in Nat
    OBVIOUS
  <2> QED
    BY <2>1, TotalIsNat
<1>1. 0 \in S
  <2>1. SumsWithin(0, n)
    <3> SUFFICES ASSUME NEW f \in [1 .. n -> Nat], NEW h PROVE Total(h, 0) <= Total(f, n)
      BY DEF SumsWithin
    <3>1. Total(h, 0) = 0
      BY TotalOfNone
    <3> QED
      BY <1>0, <3>1
  <2> QED
    BY <2>1
<1>2. \A m \in Nat : m \in S => m + 1 \in S
  <2> SUFFICES ASSUME NEW m \in Nat, SumsWithin(m, n) PROVE SumsWithin(m + 1, n)
    OBVIOUS
  <2> SUFFICES ASSUME NEW f \in [1 .. n -> Nat], NEW g, NEW h,
                      Injects(g, m + 1, n), TakesUpTo(h, f, g, m + 1)
               PROVE  Total(h, m + 1) <= Total(f, n)
    BY DEF SumsWithin
  <2>0. m + 1 \in 1 .. m + 1 /\ \A j \in 1 .. m : j \in 1 .. m + 1 /\ j # m + 1
    OBVIOUS
  <2>1. PICK i \in 1 .. n : i = g[m + 1]
    BY <2>0 DEF Injects
  <2>2. PICK rest \in [1 .. n -> Nat] : rest = [f EXCEPT ![i] = 0]
    <3>1. [f EXCEPT ![i] = 0] \in [1 .. n -> Nat]
      OBVIOUS
    <3> QED
      BY <3>1
  <2>3. Injects(g, m, n)
    BY <2>0 DEF Injects
  <2>4. TakesUpTo(h, rest, g, m)
    <3> SUFFICES ASSUME NEW j \in 1 .. m PROVE h[j] \in Nat /\ h[j] <= rest[g[j]]
      BY DEF TakesUpTo
    <3>1. h[j] \in Nat /\ h[j] <= f[g[j]]
      BY <2>0 DEF TakesUpTo
    <3>2. g[j] # i /\ g[j] \in 1 .. n
      BY <2>0, <2>1 DEF Injects
    <3>3. rest[g[j]] = f[g[j]]
      BY <2>2, <3>2
    <3> QED
      BY <3>1, <3>3
  <2>5. Total(h, m) <= Total(rest, n)
    BY <2>3, <2>4 DEF SumsWithin
  <2>6. Total(rest, n) + f[i] = Total(f, n)
    BY <2>2, TotalWithout
  <2>7. Total(h, m + 1) = Total(h, m) + h[m + 1]
    BY TotalGrows
  <2>8. h[m + 1] \in Nat /\ h[m + 1] <= f[i]
    BY <2>0, <2>1 DEF TakesUpTo
  <2>9. Total(h, m) \in Nat
    <3>1. \A j \in 1 .. m : h[j] \in Nat
      BY <2>4 DEF TakesUpTo
    <3> QED
      BY <3>1, TotalIsNat
  <2>10. Total(rest, n) \in Nat /\ Total(f, n) \in Nat /\ f[i] \in Nat
    BY <1>0
  <2> QED
    BY <2>5, <2>6, <2>7, <2>8, <2>9, <2>10
<1>3. \A m \in Nat : m \in S
  <2> HIDE DEF S
  <2> QED
    BY <1>1, <1>2, Induct
<1> QED
  BY <1>3

(* Sums of satoshis and of what they are in thousandths. *)
LEMMA TotalInSats ==
  ASSUME NEW n \in Nat, NEW f, NEW g,
         \A k \in 1 .. n : f[k] \in Nat /\ g[k] \in Nat /\ 1000 * f[k] <= g[k]
  PROVE  1000 * Total(f, n) <= Total(g, n) /\ Total(f, n) \in Nat /\ Total(g, n) \in Nat
<1> DEFINE S == {m \in Nat : m <= n => 1000 * Total(f, m) <= Total(g, m)}
<1>1. \A m \in Nat : m <= n => Total(f, m) \in Nat /\ Total(g, m) \in Nat
  <2> SUFFICES ASSUME NEW m \in Nat, m <= n PROVE Total(f, m) \in Nat /\ Total(g, m) \in Nat
    OBVIOUS
  <2>1. \A k \in 1 .. m : f[k] \in Nat /\ g[k] \in Nat
    OBVIOUS
  <2> QED
    BY <2>1, TotalIsNat
<1>2. 0 \in S
  BY TotalOfNone
<1>3. \A m \in Nat : m \in S => m + 1 \in S
  <2> SUFFICES ASSUME NEW m \in Nat, m \in S, m + 1 <= n
               PROVE  1000 * Total(f, m + 1) <= Total(g, m + 1)
    OBVIOUS
  <2>1. Total(f, m + 1) = Total(f, m) + f[m + 1] /\ Total(g, m + 1) = Total(g, m) + g[m + 1]
    BY TotalGrows
  <2>2. m <= n /\ m + 1 \in 1 .. n
    OBVIOUS
  <2>3. PICK x \in Nat, y \in Nat : x = f[m + 1] /\ y = g[m + 1] /\ 1000 * x <= y
    BY <2>2
  <2>4. PICK a \in Nat, b \in Nat : a = Total(f, m) /\ b = Total(g, m) /\ 1000 * a <= b
    BY <1>1, <2>2
  <2>5. 1000 * (a + x) <= b + y
    BY <2>3, <2>4
  <2> QED
    BY <2>1, <2>3, <2>4, <2>5
<1>4. n \in S
  <2> HIDE DEF S
  <2> QED
    BY <1>2, <1>3, Induct
<1> QED
  BY <1>1, <1>4

-----------------------------------------------------------------------------
(* The arguments of createCommitment are amounts. *)
Valued(c) ==
    /\ c.feePerKw \in Nat /\ sats(c.dustLimit) \in Nat
    /\ sats(c.localValue) \in Nat /\ sats(c.remoteValue) \in Nat

(* What an output is paid by: an HTLC of the list, or one of the balances  *)
(* that follow it, of which a fee may have been taken. *)
ToLocal(c) == toLocalScript(c.revocationPubKey, c.delayedPubKey, c.localDelay)
ToRemote(c) == p2wpkhLock(c.remotePubKey)

PaysFrom(c, x, value, lock) ==
    \E v : /\ sats(v) \in Nat /\ sats(v) >= sats(c.dustLimit) /\ sats(v) <= sats(value)
           /\ x = [out |-> TxOut(v, lock), htlc |-> << >>]
PaysKept(c, x, h) == h \in Htlcs /\ IsUnpruned(c, h) /\ PaysHtlc(c, x, h)

PaidBy(c, x, i) ==
    \/ i \in 1 .. Len(c.htlcs) /\ PaysKept(c, x, c.htlcs[i])
    \/ i = Len(c.htlcs) + 1 /\ PaysFrom(c, x, c.localValue, ToLocal(c))
    \/ i = Len(c.htlcs) + 2 /\ PaysFrom(c, x, c.remoteValue, ToRemote(c))

(* Each of n outputs has a source, none the same as another. *)
Sourced(c, xs, n, src, top) ==
    Injects(src, n, top) /\ \A k \in 1 .. n : PaidBy(c, xs[k], src[k])

(* The HTLCs that are kept are HTLCs of the list. *)
LEMMA KeptSources ==
  ASSUME NEW c, Typed(c), NEW n \in Nat, n = Len(c.htlcs)
  PROVE  \E m \in Nat : \E src :
            /\ Len(unprunedHtlcs(c)) = m /\ Injects(src, m, n)
            /\ \A k \in 1 .. m : /\ unprunedHtlcs(c)[k] = c.htlcs[src[k]]
                                 /\ c.htlcs[src[k]] \in Htlcs /\ IsUnpruned(c, c.htlcs[src[k]])
<1>1. PICK hs \in Seq(Htlcs) : hs = c.htlcs
  BY DEF Typed
<1>2. n = Len(hs) /\ DOMAIN hs = 1 .. n /\ \A k \in 1 .. n : hs[k] \in Htlcs
  BY <1>1
<1> DEFINE K == {k \in 1 .. n : IsUnpruned(c, hs[k])}
           at(p) == CHOOSE k \in K : Place(Less(K), K, k) = p
<1>3. unprunedHtlcs(c) = Picked(hs, K)
  BY <1>1, <1>2 DEF unprunedHtlcs
<1>4. K \subseteq 1 .. n /\ \A k \in K : IsUnpruned(c, hs[k])
  OBVIOUS
<1> HIDE DEF K
<1>5. PICK m \in Nat : m = Cardinality(K)
  BY <1>4, LessOrders
<1>6. /\ Len(Picked(hs, K)) = m
      /\ \A k \in K : Picked(hs, K)[Place(Less(K), K, k)] = hs[k]
      /\ \A p \in 1 .. m : \E k \in K : Place(Less(K), K, k) = p
  BY <1>4, <1>5, PickedPlaces, ZenonT(60)
<1>7. \A p \in 1 .. m : at(p) \in K /\ Place(Less(K), K, at(p)) = p
  BY <1>6
<1> HIDE DEF at
<1>8. PICK src : src = [p \in 1 .. m |-> at(p)]
  OBVIOUS
<1>9. \A p \in 1 .. m : src[p] = at(p) /\ src[p] \in K /\ Place(Less(K), K, src[p]) = p
  BY <1>7, <1>8
<1>10. Injects(src, m, n)
  BY <1>4, <1>9 DEF Injects
<1>11. \A p \in 1 .. m : /\ Picked(hs, K)[p] = hs[src[p]]
                         /\ hs[src[p]] \in Htlcs /\ IsUnpruned(c, hs[src[p]])
  BY <1>2, <1>4, <1>6, <1>9
<1>12. Len(unprunedHtlcs(c)) = m
  BY <1>3, <1>6
<1>13. \A p \in 1 .. m : /\ unprunedHtlcs(c)[p] = c.htlcs[src[p]]
                         /\ c.htlcs[src[p]] \in Htlcs /\ IsUnpruned(c, c.htlcs[src[p]])
  BY <1>1, <1>3, <1>11
<1> QED
  BY <1>10, <1>12, <1>13

(* What a fee leaves, and that the fee is a natural number. *)
LEMMA FeeIsNat ==
  ASSUME NEW w \in Nat, NEW rate \in Nat
  PROVE  FeesFor(w, rate) \in Nat
<1>1. PICK x \in Nat : x = w * rate
  OBVIOUS
<1> QED
  BY <1>1 DEF FeesFor

(* A fee leaves whole satoshis, and no more than there were. *)
LEMMA FeeLeaves ==
  ASSUME NEW v, sats(v) \in Nat, NEW fee \in Nat
  PROVE  sats(AfterFee(v, fee)) \in Nat /\ sats(AfterFee(v, fee)) <= sats(v)
BY DEF AfterFee, sats, fromSats, zero

(* The outputs of the balances. *)
LEMMA BalancesFrom ==
  ASSUME NEW c, Valued(c), NEW fee \in Nat
  PROVE  /\ \E a : /\ PaysFrom(c, a, c.localValue, ToLocal(c)) \/ BalancesPaid(c, fee)[1] = << >>
                   /\ BalancesPaid(c, fee)[1] \in {<< >>, <<a>>}
         /\ \E a : /\ PaysFrom(c, a, c.remoteValue, ToRemote(c)) \/ BalancesPaid(c, fee)[2] = << >>
                   /\ BalancesPaid(c, fee)[2] \in {<< >>, <<a>>}
<1>1. ASSUME NEW value, NEW v, NEW lock, sats(v) \in Nat, sats(v) <= sats(value)
      PROVE  \E a : /\ PaysFrom(c, a, value, lock) \/ unlessDust(c, v, lock) = << >>
                    /\ unlessDust(c, v, lock) \in {<< >>, <<a>>}
  <2>1. PICK a : a = [out |-> TxOut(v, lock), htlc |-> << >>]
    OBVIOUS
  <2>2. CASE sats(v) >= sats(c.dustLimit)
    <3>1. PaysFrom(c, a, value, lock)
      BY <1>1, <2>1, <2>2 DEF PaysFrom
    <3>2. unlessDust(c, v, lock) = <<a>>
      BY <2>1, <2>2 DEF unlessDust
    <3> QED
      BY <3>1, <3>2
  <2>3. CASE ~(sats(v) >= sats(c.dustLimit))
    <3>1. unlessDust(c, v, lock) = << >>
      BY <2>3 DEF unlessDust
    <3> QED
      BY <3>1
  <2> QED
    BY <2>2, <2>3
<1> DEFINE v == IF c.isFunderLocal THEN AfterFee(c.localValue, fee) ELSE c.localValue
           w == IF c.isFunderLocal THEN c.remoteValue ELSE AfterFee(c.remoteValue, fee)
<1>2. /\ sats(v) \in Nat /\ sats(v) <= sats(c.localValue)
      /\ sats(w) \in Nat /\ sats(w) <= sats(c.remoteValue)
  <2>1. sats(c.localValue) \in Nat /\ sats(c.remoteValue) \in Nat
    BY DEF Valued
  <2>2. /\ sats(AfterFee(c.localValue, fee)) \in Nat
        /\ sats(AfterFee(c.localValue, fee)) <= sats(c.localValue)
        /\ sats(AfterFee(c.remoteValue, fee)) \in Nat
        /\ sats(AfterFee(c.remoteValue, fee)) <= sats(c.remoteValue)
    BY <2>1, FeeLeaves
  <2> QED
    BY <2>1, <2>2
<1> HIDE DEF v, w
<1>3. /\ BalancesPaid(c, fee)[1] = unlessDust(c, v, ToLocal(c))
      /\ BalancesPaid(c, fee)[2] = unlessDust(c, w, ToRemote(c))
  BY DEF BalancesPaid, v, w, ToLocal, ToRemote
<1> QED
  BY <1>1, <1>2, <1>3

(* One more output, of one more source. *)
SourcedUpTo(c, U, xs, top) ==
    xs \in Seq(U) /\ \E n \in Nat : \E src : n = Len(xs) /\ Sourced(c, xs, n, src, top)
Adds(c, U, a, s, i) == s \in {<< >>, <<a>>} /\ (s # << >> => a \in U /\ PaidBy(c, a, i))

(* An output with a source of its own joins the others. *)
LEMMA OneMoreSource ==
  ASSUME NEW c, NEW U, NEW xs, NEW top \in Nat, SourcedUpTo(c, U, xs, top),
         NEW i, i = top + 1, NEW a, NEW s, Adds(c, U, a, s, i)
  PROVE  SourcedUpTo(c, U, xs \o s, i)
<1>0n. PICK n \in Nat : \E src : n = Len(xs) /\ xs \in Seq(U) /\ Sourced(c, xs, n, src, top)
  BY DEF SourcedUpTo
<1>0. PICK src : n = Len(xs) /\ xs \in Seq(U) /\ Sourced(c, xs, n, src, top)
  BY <1>0n
<1> SUFFICES \E m \in Nat : \E g : /\ xs \o s \in Seq(U) /\ m = Len(xs \o s)
                                   /\ Sourced(c, xs \o s, m, g, top + 1)
  BY DEF SourcedUpTo
<1>1. CASE s = << >>
  <2>1. xs \o s = xs
    BY <1>0, <1>1
  <2>2. Injects(src, n, top + 1)
    BY <1>0 DEF Sourced, Injects
  <2>3. Sourced(c, xs, n, src, top + 1)
    BY <1>0, <2>2 DEF Sourced
  <2> QED
    BY <1>0, <2>1, <2>3
<1>2. CASE s # << >>
  <2>1. s = <<a>> /\ a \in U /\ PaidBy(c, a, top + 1)
    BY <1>2 DEF Adds
  <2>2. PICK ys : ys = xs \o s
    OBVIOUS
  <2>3. /\ ys \in Seq(U) /\ Len(ys) = n + 1 /\ ys[n + 1] = a
        /\ \A k \in 1 .. n : ys[k] = xs[k]
    BY <1>0, <2>1, <2>2
  <2>4. PICK m \in Nat : m = n + 1
    OBVIOUS
  <2>5. PICK g : g = [k \in 1 .. m |-> IF k = m THEN top + 1 ELSE src[k]]
    OBVIOUS
  <2>6. /\ g[m] = top + 1 /\ \A k \in 1 .. n : g[k] = src[k] /\ k \in 1 .. m
        /\ \A k \in 1 .. m : k = m \/ k \in 1 .. n
    BY <2>4, <2>5
  <2>7. \A k \in 1 .. n : src[k] \in 1 .. top /\ PaidBy(c, xs[k], src[k])
    BY <1>0 DEF Sourced, Injects
  <2>8. Injects(g, m, top + 1)
    <3>1. \A k \in 1 .. m : g[k] \in 1 .. top + 1
      BY <2>6, <2>7
    <3>2. \A j, k \in 1 .. m : g[j] = g[k] => j = k
      <4>1. \A j, k \in 1 .. n : g[j] = g[k] => j = k
        BY <1>0, <2>6 DEF Sourced, Injects
      <4>2. \A k \in 1 .. n : g[k] # g[m]
        BY <2>6, <2>7
      <4> QED
        BY <2>6, <4>1, <4>2
    <3> QED
      BY <3>1, <3>2 DEF Injects
  <2>9. \A k \in 1 .. m : PaidBy(c, ys[k], g[k])
    BY <2>1, <2>3, <2>4, <2>6, <2>7
  <2> QED
    BY <2>2, <2>3, <2>4, <2>8, <2>9 DEF Sourced
<1> QED
  BY <1>1, <1>2

(* Every output of a commitment has a source, and no two have the same. *)
LEMMA OutputsSourced ==
  ASSUME NEW c, Typed(c), Valued(c)
  PROVE  \E n \in Nat : \E src : /\ DOMAIN commitmentOutputs(c) = 1 .. n
                                 /\ Sourced(c, commitmentOutputs(c), n, src, Len(c.htlcs) + 2)
<1>1. PICK top \in Nat : top = Len(c.htlcs)
  BY DEF Typed
<1>2n. PICK m \in Nat : \E src :
            /\ Len(unprunedHtlcs(c)) = m /\ Injects(src, m, top)
            /\ \A k \in 1 .. m : /\ unprunedHtlcs(c)[k] = c.htlcs[src[k]]
                                 /\ c.htlcs[src[k]] \in Htlcs /\ IsUnpruned(c, c.htlcs[src[k]])
  BY <1>1, KeptSources
<1>2. PICK src :
            /\ Len(unprunedHtlcs(c)) = m /\ Injects(src, m, top)
            /\ \A k \in 1 .. m : /\ unprunedHtlcs(c)[k] = c.htlcs[src[k]]
                                 /\ c.htlcs[src[k]] \in Htlcs /\ IsUnpruned(c, c.htlcs[src[k]])
  BY <1>2n
<1>3. PICK fee \in Nat : fee = BaseFee(m, c.feePerKw)
  <2>1. 724 + 172 * m \in Nat /\ c.feePerKw \in Nat
    BY DEF Valued
  <2> QED
    BY <2>1, FeeIsNat DEF BaseFee
<1>4. PICK h, l, r : /\ h = HtlcsPaid(c, unprunedHtlcs(c), m)
                     /\ l = BalancesPaid(c, fee)[1] /\ r = BalancesPaid(c, fee)[2]
  OBVIOUS
<1>5. commitmentOutputs(c) = h \o l \o r
  BY <1>2, <1>3, <1>4, OutputsListed, ZenonT(30)
<1>6. PICK a : /\ PaysFrom(c, a, c.localValue, ToLocal(c)) \/ l = << >>
               /\ l \in {<< >>, <<a>>}
  BY <1>4, BalancesFrom
<1>7. PICK b : /\ PaysFrom(c, b, c.remoteValue, ToRemote(c)) \/ r = << >>
               /\ r \in {<< >>, <<b>>}
  BY <1>4, BalancesFrom
<1> DEFINE U == {h[k] : k \in 1 .. m} \cup {a, b}
<1>8. h \in Seq(U) /\ Len(h) = m
  <2>1. \A k \in 1 .. m : h[k] \in U
    OBVIOUS
  <2>2. DOMAIN h = 1 .. m /\ h = [k \in 1 .. m |-> h[k]]
    BY <1>4 DEF HtlcsPaid
  <2> HIDE DEF U
  <2>3. h \in [1 .. m -> U]
    BY <2>1, <2>2
  <2> QED
    BY <2>3
<1>9. a \in U /\ b \in U
  OBVIOUS
<1> HIDE DEF U
<1>10. Sourced(c, h, m, src, top)
  <2>1. ASSUME NEW k \in 1 .. m PROVE PaidBy(c, h[k], src[k])
    <3>1. h[k] = [out |-> HtlcOutput(c, c.htlcs[src[k]]), htlc |-> <<c.htlcs[src[k]]>>]
      BY <1>2, <1>4 DEF HtlcsPaid
    <3>2. PaysKept(c, h[k], c.htlcs[src[k]])
      BY <1>2, <3>1 DEF PaysKept, PaysHtlc
    <3>3. src[k] \in 1 .. top
      BY <1>2 DEF Injects
    <3> QED
      BY <1>1, <3>2, <3>3 DEF PaidBy
  <2> QED
    BY <1>2, <2>1 DEF Sourced
<1>11. PICK i \in Nat, j \in Nat : i = top + 1 /\ j = i + 1 /\ j = Len(c.htlcs) + 2
  BY <1>1
<1>12. SourcedUpTo(c, U, h, top)
  BY <1>8, <1>10 DEF SourcedUpTo
<1>13. Adds(c, U, a, l, i) /\ Adds(c, U, b, r, j)
  BY <1>1, <1>6, <1>7, <1>9, <1>11 DEF Adds, PaidBy
<1>14. PICK hl : hl = h \o l
  OBVIOUS
<1>15. SourcedUpTo(c, U, hl, i)
  BY <1>11, <1>12, <1>13, <1>14, OneMoreSource
<1>16. SourcedUpTo(c, U, hl \o r, j)
  BY <1>11, <1>13, <1>15, OneMoreSource
<1>17n. PICK n \in Nat : \E g : n = Len(hl \o r) /\ hl \o r \in Seq(U) /\ Sourced(c, hl \o r, n, g, j)
  BY <1>16 DEF SourcedUpTo
<1>17. PICK g : n = Len(hl \o r) /\ hl \o r \in Seq(U) /\ Sourced(c, hl \o r, n, g, j)
  BY <1>17n
<1>18. DOMAIN (hl \o r) = 1 .. n
  BY <1>17
<1> QED
  BY <1>5, <1>11, <1>14, <1>17, <1>18

(* What has a source pays a balance or an HTLC of the commitment. *)
LEMMA SourceIsOne == ASSUME NEW c, Valued(c), NEW x, NEW i, PaidBy(c, x, i) PROVE PaysOne(c, x)
<1>1. ASSUME NEW value, NEW lock \in BalanceLocks(c), PaysFrom(c, x, value, lock)
      PROVE  PaysOne(c, x)
  BY <1>1 DEF PaysFrom, PaysBalance, PaysOne
<1>2. ToLocal(c) \in BalanceLocks(c) /\ ToRemote(c) \in BalanceLocks(c)
  BY DEF ToLocal, ToRemote, BalanceLocks
<1>3. ASSUME NEW h, PaysKept(c, x, h) PROVE PaysOne(c, x)
  BY <1>3 DEF PaysKept, PaysOne
<1> QED
  BY <1>1, <1>2, <1>3 DEF PaidBy

(* The sort keeps the sources. *)
LEMMA SortedSourced ==
  ASSUME NEW c, Typed(c), Valued(c), HashesDiffer(c),
         NEW ys, ys = sortCommitmentOutputs(commitmentOutputs(c))
  PROVE  \E n \in Nat : \E g : DOMAIN ys = 1 .. n /\ Sourced(c, ys, n, g, Len(c.htlcs) + 2)
<1>1. PICK xs : xs = commitmentOutputs(c)
  OBVIOUS
<1>2. PICK top : top = Len(c.htlcs) + 2
  OBVIOUS
<1>3n. PICK n \in Nat : \E src : DOMAIN xs = 1 .. n /\ Sourced(c, xs, n, src, top)
  BY <1>1, <1>2, OutputsSourced
<1>3. PICK src : DOMAIN xs = 1 .. n /\ Sourced(c, xs, n, src, top)
  BY <1>3n
<1>4. \A k \in 1 .. n : PaidBy(c, xs[k], src[k])
  BY <1>3 DEF Sourced
<1>5. Ranks(Before(xs), 1 .. n)
  <2>1. \A k \in 1 .. n : PaysOne(c, xs[k])
    BY <1>4, SourceIsOne
  <2> QED
    BY <1>1, <1>3, <2>1, RankedOutputs
<1>6. /\ DOMAIN ys = 1 .. n
      /\ \A p \in 1 .. n : \E k \in 1 .. n : Place(First(xs), 1 .. n, k) = p /\ ys[p] = xs[k]
  <2>1. ys = sortCommitmentOutputs(xs)
    BY <1>1
  <2>2. DOMAIN xs = 1 .. n
    BY <1>3
  <2>3. DOMAIN sortCommitmentOutputs(xs) = 1 .. n
    BY <1>5, <2>2, SortPlaces
  <2>4. \A p \in 1 .. n : \E k \in 1 .. n :
            Place(First(xs), 1 .. n, k) = p /\ sortCommitmentOutputs(xs)[p] = xs[k]
    BY <1>5, <2>2, SortPlaces, SMTT(30)
  <2> QED
    BY <2>1, <2>3, <2>4
<1> DEFINE at(p) == CHOOSE k \in 1 .. n : Place(First(xs), 1 .. n, k) = p /\ ys[p] = xs[k]
<1>7. \A p \in 1 .. n : /\ at(p) \in 1 .. n /\ Place(First(xs), 1 .. n, at(p)) = p
                        /\ ys[p] = xs[at(p)]
  BY <1>6
<1> HIDE DEF at
<1>8. PICK g : g = [p \in 1 .. n |-> src[at(p)]]
  OBVIOUS
<1>9. \A p \in 1 .. n : g[p] = src[at(p)]
  BY <1>8
<1>10. Injects(g, n, top)
  <2>1. \A j \in 1 .. n : g[j] \in 1 .. top
    BY <1>3, <1>7, <1>9 DEF Sourced, Injects
  <2>2. ASSUME NEW j \in 1 .. n, NEW k \in 1 .. n, g[j] = g[k] PROVE at(j) = at(k)
    <3>1. \A a, b \in 1 .. n : src[a] = src[b] => a = b
      BY <1>3 DEF Sourced, Injects
    <3>2. src[at(j)] = src[at(k)] /\ at(j) \in 1 .. n /\ at(k) \in 1 .. n
      BY <1>7, <1>9, <2>2
    <3> QED
      BY <3>1, <3>2
  <2>3. \A j, k \in 1 .. n : at(j) = at(k) => j = k
    BY <1>7
  <2> QED
    BY <2>1, <2>2, <2>3 DEF Injects
<1>11. \A p \in 1 .. n : PaidBy(c, ys[p], g[p])
  BY <1>4, <1>7, <1>9
<1> QED
  BY <1>2, <1>6, <1>10, <1>11 DEF Sourced

-----------------------------------------------------------------------------
(* An amount in thousandths of a satoshi. *)
MilliSats(v) == 1000 * v[1] + v[2]

(* The keys of a commitment are those of its two sides.                    *)
KeysFit(c, holder, other, secret) ==
    LET point == toPubKey(secret)
    IN /\ c.remotePubKey = toPubKey(other.payment)
       /\ c.delayedPubKey = derivePubKey(point, toPubKey(holder.delayed))
       /\ c.revocationPubKey = deriveRevocationPubKey(point, toPubKey(other.revocation))
       /\ c.localHtlcPubKey = derivePubKey(point, toPubKey(holder.htlc))
       /\ c.remoteHtlcPubKey = derivePubKey(point, toPubKey(other.htlc))

(* The private key of a derived key. *)
LEMMA DerivedKeysMatch ==
  ASSUME NEW P, NEW b
  PROVE  toPubKey(derivePrivKey(P, b)) = derivePubKey(P, toPubKey(b))
BY DEF toPubKey, Point, derivePrivKey, derivePubKey, privateKeyTweakAdd, publicKeyTweakAdd

(* The keys of the scripts. *)
KeysOfScript(c, script) ==
    /\ "pays" \in DOMAIN script => script.pays = c.remotePubKey
    /\ "delayed" \in DOMAIN script => script.delayed = c.delayedPubKey
    /\ "revocation" \in DOMAIN script => script.revocation = c.revocationPubKey
    /\ "paymentHash" \in DOMAIN script =>
          {script.byTimeout, script.byPreimage} = {c.localHtlcPubKey, c.remoteHtlcPubKey}

(* The outputs of the balances are locked to keys of the commitment. *)
LEMMA BalanceKeys ==
  ASSUME NEW c
  PROVE  KeysOfScript(c, ToLocal(c).script) /\ KeysOfScript(c, ToRemote(c).script)
BY DEF ToLocal, ToRemote, toLocalScript, p2wpkhLock, p2wshLock, KeysOfScript

(* So is the output of an HTLC, by its direction. *)
LEMMA HtlcKeys ==
  ASSUME NEW c, NEW h, NEW out, out = HtlcOutput(c, h)
  PROVE  /\ KeysOfScript(c, out.lock.script) /\ out.value = h.value
         /\ out.lock.script.paymentHash = h.paymentHash
         /\ OfferedByHolder(h, c.reverseHtlcs) => out.lock.script.byTimeout = c.localHtlcPubKey
         /\ ~OfferedByHolder(h, c.reverseHtlcs) => out.lock.script.byPreimage = c.localHtlcPubKey
<1>1. CASE OfferedByHolder(h, c.reverseHtlcs)
  BY <1>1 DEF HtlcOutput, TxOut, p2wshLock, offeredHtlcScript, KeysOfScript
<1>2. CASE ~OfferedByHolder(h, c.reverseHtlcs)
  BY <1>2 DEF HtlcOutput, TxOut, p2wshLock, receivedHtlcScript, KeysOfScript
<1> QED
  BY <1>1, <1>2

(* Whoever an output is for has the secrets of its keys. *)
LEMMA OutputOwned ==
  ASSUME NEW c, NEW holder, NEW other, NEW secret, KeysFit(c, holder, other, secret),
         NEW x, NEW i, PaidBy(c, x, i), NEW out, out.lock = x.out.lock
  PROVE  Owned(out, holder, other, secret)
<1>1. PICK point, ofHolder, ofOther, ofDelayed, ofRevoked :
            /\ point = toPubKey(secret)
            /\ ofHolder = toPubKey(derivePrivKey(point, holder.htlc))
            /\ ofOther = toPubKey(derivePrivKey(point, other.htlc))
            /\ ofDelayed = toPubKey(derivePrivKey(point, holder.delayed))
            /\ ofRevoked = toPubKey(deriveRevocationPrivKey(secret, other.revocation))
  OBVIOUS
<1>2. /\ c.remotePubKey = toPubKey(other.payment) /\ c.delayedPubKey = ofDelayed
      /\ c.revocationPubKey = ofRevoked /\ c.localHtlcPubKey = ofHolder
      /\ c.remoteHtlcPubKey = ofOther
  BY <1>1, DerivedKeysMatch, RevocationKeysMatch DEF KeysFit
<1>3. PICK script : script = out.lock.script
  OBVIOUS
<1>4. KeysOfScript(c, script)
  <2>1. CASE script = ToLocal(c).script \/ script = ToRemote(c).script
    BY <2>1, BalanceKeys
  <2>2. CASE \E h : script = HtlcOutput(c, h).lock.script
    BY <2>2, HtlcKeys
  <2>3. \/ script = ToLocal(c).script \/ script = ToRemote(c).script
        \/ \E h : script = HtlcOutput(c, h).lock.script
    BY <1>3 DEF PaidBy, PaysKept, PaysFrom, PaysHtlc, TxOut
  <2> QED
    BY <2>1, <2>2, <2>3
<1> QED
  BY <1>1, <1>2, <1>3, <1>4 DEF Owned, HasField, KeysOfScript

(* What an output is worth, next to what pays it. *)
Worth(c, i) == IF i = Len(c.htlcs) + 1 THEN c.localValue
               ELSE IF i = Len(c.htlcs) + 2 THEN c.remoteValue ELSE c.htlcs[i].value

(* An output has no more than its source is worth. *)
LEMMA OutputWorth ==
  ASSUME NEW c, Typed(c), Valued(c), NEW x, NEW i, PaidBy(c, x, i)
  PROVE  /\ sats(x.out.value) \in Nat /\ sats(x.out.value) >= sats(c.dustLimit)
         /\ sats(x.out.value) <= sats(Worth(c, i))
<1>0. PICK n \in Nat : n = Len(c.htlcs)
  BY DEF Typed
<1>1. ASSUME NEW value, NEW lock, PaysFrom(c, x, value, lock)
      PROVE  /\ sats(x.out.value) \in Nat /\ sats(x.out.value) >= sats(c.dustLimit)
             /\ sats(x.out.value) <= sats(value)
  <2>1. PICK v : /\ sats(v) \in Nat /\ sats(v) >= sats(c.dustLimit) /\ sats(v) <= sats(value)
                 /\ x = [out |-> TxOut(v, lock), htlc |-> << >>]
    BY <1>1 DEF PaysFrom
  <2>2. x.out.value = v
    BY <2>1 DEF TxOut
  <2> QED
    BY <2>1, <2>2
<1>2. CASE i = n + 1 /\ PaysFrom(c, x, c.localValue, ToLocal(c))
  BY <1>0, <1>1, <1>2 DEF Worth
<1>3. CASE i = n + 2 /\ PaysFrom(c, x, c.remoteValue, ToRemote(c))
  BY <1>0, <1>1, <1>3 DEF Worth
<1>4. CASE i \in 1 .. n /\ PaysKept(c, x, c.htlcs[i])
  <2>1. PICK h : h = c.htlcs[i] /\ Worth(c, i) = h.value
    BY <1>0, <1>4 DEF Worth
  <2>2. h \in Htlcs /\ IsUnpruned(c, h) /\ x.out.value = h.value
    <3>1. x.out = HtlcOutput(c, h) /\ h \in Htlcs /\ IsUnpruned(c, h)
      BY <1>4, <2>1 DEF PaysKept, PaysHtlc
    <3> QED
      BY <3>1, HtlcKeys
  <2>3. PICK v \in Nat : v = sats(h.value)
    BY <2>2, TurnedHtlc DEF Amount, sats
  <2>4. PICK fee \in Nat : fee = FeesFor(HtlcWeight(h, c.reverseHtlcs), c.feePerKw)
    <3>1. HtlcWeight(h, c.reverseHtlcs) \in Nat /\ c.feePerKw \in Nat
      BY DEF HtlcWeight, Valued
    <3> QED
      BY <3>1, FeeIsNat
  <2>5. v - fee >= sats(c.dustLimit) /\ sats(c.dustLimit) \in Nat
    BY <2>2, <2>3, <2>4 DEF IsUnpruned, Valued
  <2> QED
    BY <2>1, <2>2, <2>3, <2>5
<1> QED
  BY <1>0, <1>2, <1>3, <1>4 DEF PaidBy

(* The transaction that claims an HTLC of a commitment. *)
LEMMA HtlcClaimed ==
  ASSUME NEW c, Typed(c), Valued(c), NEW h, NEW x, PaysKept(c, x, h),
         NEW tx, NEW k,
         tx.outputs[k].value = sats(x.out.value), tx.outputs[k].lock = x.out.lock
  PROVE  ClaimsHtlc(tx, k, c, h)
<1>1. PICK out, at, weight, fee :
            /\ out = tx.outputs[k] /\ at = [tx |-> tx, index |-> k]
            /\ weight = HtlcWeight(h, c.reverseHtlcs) /\ fee = FeesFor(weight, c.feePerKw)
  OBVIOUS
<1>2. PICK o : o = HtlcOutput(c, h) /\ out.value = sats(o.value) /\ out.lock = o.lock
  BY <1>1 DEF PaysKept, PaysHtlc
<1>3. sats(h.value) \in Nat /\ fee \in Nat
  <2>1. sats(h.value) \in Nat
    BY TurnedHtlc DEF PaysKept, Amount, sats
  <2>2. weight \in Nat /\ c.feePerKw \in Nat
    BY <1>1 DEF HtlcWeight, Valued
  <2> QED
    BY <1>1, <2>1, <2>2, FeeIsNat
<1>4. sats(h.value) - fee >= sats(c.dustLimit) /\ sats(c.dustLimit) \in Nat
  BY <1>1 DEF PaysKept, IsUnpruned, Valued
<1>5. ~(fee > sats(h.value))
  BY <1>3, <1>4
<1>6. out.value = sats(h.value) /\ out.lock.script.paymentHash = h.paymentHash
  BY <1>2, HtlcKeys
<1>7. CASE OfferedByHolder(h, c.reverseHtlcs)
  <2>1. weight = 663
    BY <1>1, <1>7 DEF HtlcWeight
  <2>2. PICK claim : claim = SpendHtlc(663, h.cltvExpiry, at, c, h) /\ claim = Claim(at, c, h)
    BY <1>7 DEF Claim, createHtlcTimeout
  <2>3. claim.locktime = h.cltvExpiry /\ sats(claim.output.value) = sats(h.value) - fee
    BY <1>1, <1>5, <2>1, <2>2 DEF SpendHtlc, TxOut, fromSats, sats
  <2>4. out.lock.script.byTimeout = c.localHtlcPubKey
    BY <1>2, <1>7, HtlcKeys
  <2> QED
    BY <1>1, <1>2, <1>4, <1>6, <2>2, <2>3, <2>4 DEF ClaimsHtlc
<1>8. CASE ~OfferedByHolder(h, c.reverseHtlcs)
  <2>1. weight = 703
    BY <1>1, <1>8 DEF HtlcWeight
  <2>2. PICK claim : claim = SpendHtlc(703, 0, at, c, h) /\ claim = Claim(at, c, h)
    BY <1>8 DEF Claim, createHtlcSuccess
  <2>3. claim.locktime = 0 /\ sats(claim.output.value) = sats(h.value) - fee
    BY <1>1, <1>5, <2>1, <2>2 DEF SpendHtlc, TxOut, fromSats, sats
  <2>4. out.lock.script.byPreimage = c.localHtlcPubKey
    BY <1>2, <1>8, HtlcKeys
  <2> QED
    BY <1>1, <1>2, <1>4, <1>6, <2>2, <2>3, <2>4 DEF ClaimsHtlc
<1> QED
  BY <1>7, <1>8

(* The outputs of a commitment, as createCommitment lists them. *)
LEMMA OutputsMade ==
  ASSUME NEW n \in Nat, NEW c, NEW ys, ys = sortCommitmentOutputs(commitmentOutputs(c)),
         DOMAIN ys = 1 .. n
  PROVE  LET outputs == createCommitment(c).tx.outputs
         IN /\ DOMAIN outputs = 1 .. n /\ Len(outputs) = n
            /\ \A k \in 1 .. n : outputs[k].value = sats(ys[k].out.value)
                                 /\ outputs[k].lock = ys[k].out.lock
            /\ createCommitment(c).htlcs = HtlcsOf(ys)
<1>1. PICK number :
        number = obscure(c.commitmentNumber, c.openPaymentBasePoint, c.acceptPaymentBasePoint)
  OBVIOUS
<1>2. createCommitment(c).tx.outputs = OutputsOf(ys) /\ createCommitment(c).htlcs = HtlcsOf(ys)
  <2>1. createCommitment(c) =
            [tx |-> [input |-> c.fundingOutPoint, sequence |-> getSequence(number),
                     locktime |-> getLockTime(number), outputs |-> OutputsOf(ys)],
             htlcs |-> HtlcsOf(ys)]
    BY <1>1, CommitmentParts
  <2> QED
    BY <2>1
<1>3. Len(ys) = n
  OBVIOUS
<1>4. OutputsOf(ys) = [k \in 1 .. n |-> [value |-> sats(ys[k].out.value), lock |-> ys[k].out.lock]]
  BY <1>3 DEF OutputsOf
<1> QED
  BY <1>2, <1>4

(* An output behind which there is an HTLC pays that one. *)
LEMMA KeptHtlc ==
  ASSUME NEW c, Typed(c), Valued(c), NEW x, NEW i, PaidBy(c, x, i)
  PROVE  /\ x.htlc # << >> <=> "paymentHash" \in DOMAIN x.out.lock.script
         /\ x.htlc # << >> => PaysKept(c, x, x.htlc[1])
<1>1. x.htlc # << >> <=> "paymentHash" \in DOMAIN x.out.lock.script
  BY SourceIsOne, OutputSortable
<1>2. x.htlc # << >> => PaysKept(c, x, x.htlc[1])
  <2>1. ASSUME NEW h, PaysKept(c, x, h) PROVE PaysKept(c, x, x.htlc[1])
    <3>1. x.htlc[1] = h
      BY <2>1 DEF PaysKept, PaysHtlc
    <3> QED
      BY <2>1, <3>1
  <2>2. ASSUME NEW value, NEW lock, PaysFrom(c, x, value, lock) PROVE x.htlc = << >>
    BY <2>2 DEF PaysFrom
  <2> QED
    BY <2>1, <2>2 DEF PaidBy
<1> QED
  BY <1>1, <1>2

(* The items that are picked, by their places. *)
Within(K, n) == K \subseteq 1 .. n
PicksAll(s, K, m) ==
    /\ Len(Picked(s, K)) = m
    /\ \A k \in K : \A p : p = Place(Less(K), K, k) => Picked(s, K)[p] = s[k]
    /\ \A p \in 1 .. m : \E k \in K : Place(Less(K), K, k) = p

LEMMA PickedItems ==
  ASSUME NEW n \in Nat, NEW K, Within(K, n), NEW s, NEW m, m = Cardinality(K)
  PROVE  PicksAll(s, K, m)
<1>1. K \subseteq 1 .. n
  BY DEF Within
<1>2. Len(Picked(s, K)) = m
  BY <1>1, PickedPlaces
<1>3. ASSUME NEW k \in K, NEW p, p = Place(Less(K), K, k) PROVE Picked(s, K)[p] = s[k]
  <2>1. Picked(s, K)[Place(Less(K), K, k)] = s[k]
    BY <1>1, PickedPlaces
  <2> QED
    BY <1>3, <2>1
<1>4. \A p \in 1 .. m : \E k \in K : Place(Less(K), K, k) = p
  BY <1>1, PickedPlaces
<1> QED
  BY <1>2, <1>3, <1>4 DEF PicksAll

(* The list of HTLCs says which output is whose. *)
LEMMA HtlcsClaimed ==
  ASSUME NEW c, Typed(c), Valued(c), NEW n \in Nat, NEW ys, DOMAIN ys = 1 .. n, NEW src,
         \A k \in 1 .. n : PaidBy(c, ys[k], src[k]),
         NEW tx, NEW of, DOMAIN tx.outputs = 1 .. n,
         \A k \in 1 .. n : /\ tx.outputs[k].value = sats(ys[k].out.value)
                           /\ tx.outputs[k].lock = ys[k].out.lock,
         of = Picked([k \in 1 .. n |-> k],
                     {k \in 1 .. n : HasField(tx.outputs[k], "paymentHash")})
  PROVE  /\ Len(of) = Len(HtlcsOf(ys))
         /\ \A q \in 1 .. Len(of) : ClaimsHtlc(tx, of[q], c, HtlcsOf(ys)[q])
<1>k. PICK K : K = {k \in 1 .. n : ys[k].htlc # << >>}
  OBVIOUS
<1>0. PICK ids : ids = [k \in 1 .. n |-> k]
  OBVIOUS
<1>1. {k \in 1 .. n : HasField(tx.outputs[k], "paymentHash")} = K
  <2>1. \A k \in 1 .. n : HasField(tx.outputs[k], "paymentHash") <=> ys[k].htlc # << >>
    BY KeptHtlc DEF HasField
  <2> QED
    BY <1>k, <2>1
<1>2. of = Picked(ids, K) /\ WithHtlc(ys) = Picked(ys, K)
  BY <1>0, <1>1, <1>k DEF WithHtlc
<1>3. K \subseteq 1 .. n /\ \A k \in 1 .. n : ids[k] = k
  BY <1>0, <1>k
<1>4. \A k \in K : /\ PaysKept(c, ys[k], ys[k].htlc[1]) /\ k \in 1 .. n
  BY <1>k, KeptHtlc
<1>5. PICK m \in Nat : m = Cardinality(K)
  BY <1>3, LessOrders
<1>6. PicksAll(ids, K, m) /\ PicksAll(ys, K, m)
  <2>1. Within(K, n)
    BY <1>3 DEF Within
  <2> QED
    BY <1>5, <2>1, PickedItems
<1>7. HtlcsOf(ys) = [q \in 1 .. m |-> Picked(ys, K)[q].htlc[1]]
  BY <1>2, <1>6 DEF HtlcsOf, PicksAll
<1>8. Len(of) = m /\ Len(HtlcsOf(ys)) = m
  BY <1>2, <1>6, <1>7 DEF PicksAll
<1>9. ASSUME NEW q \in 1 .. m PROVE ClaimsHtlc(tx, of[q], c, HtlcsOf(ys)[q])
  <2>1. PICK k \in K : Place(Less(K), K, k) = q
    BY <1>6 DEF PicksAll
  <2>2. Picked(ys, K)[q] = ys[k] /\ of[q] = k
    BY <1>2, <1>3, <1>4, <1>6, <2>1 DEF PicksAll
  <2>3. HtlcsOf(ys)[q] = ys[k].htlc[1]
    BY <1>7, <2>2
  <2>4. PaysKept(c, ys[k], ys[k].htlc[1]) /\ k \in 1 .. n
    BY <1>4
  <2>5. ClaimsHtlc(tx, k, c, ys[k].htlc[1])
    BY <2>4, HtlcClaimed
  <2> QED
    BY <2>2, <2>3, <2>5
<1> QED
  BY <1>8, <1>9

(* What the funding pays: the balances and the HTLCs. *)
HtlcMilliSats(hs) == Total([k \in 1 .. Len(hs) |-> MilliSats(hs[k].value)], Len(hs))
(* The balances and the HTLCs of a commitment sum up to its funding. *)
PaidFrom(c, funding) ==
    /\ c.localValue \in Amount /\ c.remoteValue \in Amount /\ funding \in Amount
    /\ MilliSats(c.localValue) + MilliSats(c.remoteValue) + HtlcMilliSats(c.htlcs)
         = MilliSats(funding)

(* The satoshis of an amount and what is left of it. *)
LEMMA AmountParts ==
  ASSUME NEW v \in Amount
  PROVE  /\ sats(v) \in Nat /\ MilliSats(v) \in Nat
         /\ 1000 * sats(v) <= MilliSats(v) /\ MilliSats(v) < 1000 * sats(v) + 1000
<1>1. PICK s \in Nat, p \in 0 .. 999 : v = <<s, p>>
  BY DEF Amount
<1>2. sats(v) = s /\ MilliSats(v) = 1000 * s + p
  BY <1>1 DEF sats, MilliSats
<1> QED
  BY <1>2

(* All that may be paid, summed up. *)
LEMMA WorthInAll ==
  ASSUME NEW c, Typed(c), NEW funding, PaidFrom(c, funding), NEW top \in Nat,
         top = Len(c.htlcs) + 2
  PROVE  /\ \A i \in 1 .. top : sats(Worth(c, i)) \in Nat
         /\ Total([i \in 1 .. top |-> sats(Worth(c, i))], top) <= sats(funding)
<1>1. PICK n \in Nat : n = Len(c.htlcs)
  BY DEF Typed
<1>2. PICK i \in Nat : i = n + 1 /\ i + 1 = top /\ n + 2 = top
  BY <1>1
<1>3. \A k \in 1 .. n : c.htlcs[k].value \in Amount
  <2>1. \A k \in 1 .. n : c.htlcs[k] \in Htlcs
    BY <1>1 DEF Typed
  <2> QED
    BY <2>1, TurnedHtlc
<1>4. /\ \A k \in 1 .. n : Worth(c, k) = c.htlcs[k].value
      /\ Worth(c, i) = c.localValue /\ Worth(c, top) = c.remoteValue
  BY <1>1, <1>2 DEF Worth
<1>5. \A k \in 1 .. top : Worth(c, k) \in Amount
  <2>1. \A k \in 1 .. top : k \in 1 .. n \/ k = i \/ k = top
    BY <1>2
  <2> QED
    BY <1>3, <1>4, <2>1 DEF PaidFrom
<1>6. PICK f, g : /\ f = [k \in 1 .. top |-> sats(Worth(c, k))]
                  /\ g = [k \in 1 .. top |-> MilliSats(Worth(c, k))]
  OBVIOUS
<1>7. \A k \in 1 .. top : f[k] \in Nat /\ g[k] \in Nat /\ 1000 * f[k] <= g[k]
  BY <1>5, <1>6, AmountParts
<1>8. 1000 * Total(f, top) <= Total(g, top) /\ Total(f, top) \in Nat /\ Total(g, top) \in Nat
  <2>1. 1000 * Total(f, top) <= Total(g, top)
    BY <1>7, TotalInSats
  <2>2. Total(f, top) \in Nat
    BY <1>7, TotalIsNat
  <2>3. Total(g, top) \in Nat
    BY <1>7, TotalIsNat
  <2> QED
    BY <2>1, <2>2, <2>3
<1>9. Total(g, top) = MilliSats(funding)
  <2>1. Total(g, n) = HtlcMilliSats(c.htlcs)
    <3>1. PICK h : h = [k \in 1 .. n |-> MilliSats(c.htlcs[k].value)]
      OBVIOUS
    <3>2. \A k \in 1 .. n : k \in 1 .. top
      BY <1>2
    <3>3. \A k \in 1 .. n : g[k] = h[k]
      BY <1>4, <1>6, <3>1, <3>2
    <3>4. Total(g, n) = Total(h, n)
      BY <3>3, TotalOfSame
    <3> QED
      BY <1>1, <3>1, <3>4 DEF HtlcMilliSats
  <2>2. Total(g, i) = Total(g, n) + g[i] /\ Total(g, top) = Total(g, i) + g[top]
    BY <1>2, TotalGrows
  <2>3. g[i] = MilliSats(c.localValue) /\ g[top] = MilliSats(c.remoteValue)
    BY <1>2, <1>4, <1>6
  <2>4. \A k \in 1 .. n : g[k] \in Nat
    BY <1>2, <1>7
  <2>5. Total(g, n) \in Nat /\ MilliSats(c.localValue) \in Nat /\ MilliSats(c.remoteValue) \in Nat
    BY <2>4, TotalIsNat, AmountParts, SMTT(30) DEF PaidFrom
  <2> QED
    BY <2>1, <2>2, <2>3, <2>5 DEF PaidFrom
<1>10. sats(funding) \in Nat /\ MilliSats(funding) < 1000 * sats(funding) + 1000
  BY AmountParts DEF PaidFrom
<1>11. Total(f, top) <= sats(funding)
  <2>1. PICK a \in Nat, b \in Nat : a = Total(f, top) /\ b = sats(funding)
    BY <1>8, <1>10
  <2>2. 1000 * a < 1000 * b + 1000
    <3>1. PICK d \in Nat : d = MilliSats(funding)
      BY <1>8, <1>9
    <3>2. 1000 * a <= d /\ d < 1000 * b + 1000
      BY <1>8, <1>9, <1>10, <2>1, <3>1
    <3> QED
      BY <3>2
  <2> QED
    BY <2>1, <2>2
<1>12. \A k \in 1 .. top : sats(Worth(c, k)) \in Nat
  BY <1>5, AmountParts
<1> QED
  BY <1>6, <1>11, <1>12

(* A commitment is claimable. *)
LEMMA CommitmentClaimable ==
  ASSUME NEW c, Typed(c), Valued(c), PaidFrom(c, channel.fundingAmount),
         NEW holder, NEW other, NEW secret, KeysFit(c, holder, other, secret)
  PROVE  Claimable(c, holder, other, secret)
<1> SUFFICES ASSUME HashesDiffer(c)
             PROVE  LET made == createCommitment(c)
                        outputs == made.tx.outputs
                        ofHtlcs == Picked([k \in 1 .. Len(outputs) |-> k],
                                          {k \in 1 .. Len(outputs) :
                                              HasField(outputs[k], "paymentHash")})
                    IN /\ \A k \in 1 .. Len(outputs) :
                            outputs[k].value >= sats(c.dustLimit)
                            /\ Owned(outputs[k], holder, other, secret)
                       /\ Total([k \in 1 .. Len(outputs) |-> outputs[k].value], Len(outputs))
                            <= sats(channel.fundingAmount)
                       /\ Len(ofHtlcs) = Len(made.htlcs)
                       /\ \A k \in 1 .. Len(ofHtlcs) :
                            ClaimsHtlc(made.tx, ofHtlcs[k], c, made.htlcs[k])
  BY Zenon DEF Claimable
<1>1. PICK ys : ys = sortCommitmentOutputs(commitmentOutputs(c))
  OBVIOUS
<1>2. PICK top \in Nat : top = Len(c.htlcs) + 2
  BY DEF Typed
<1>3n. PICK n \in Nat : \E src : DOMAIN ys = 1 .. n /\ Sourced(c, ys, n, src, top)
  BY <1>1, <1>2, SortedSourced
<1>3. PICK src : DOMAIN ys = 1 .. n /\ Sourced(c, ys, n, src, top)
  BY <1>3n
<1>4. PICK made, tx, outputs : made = createCommitment(c) /\ tx = made.tx /\ outputs = tx.outputs
  OBVIOUS
<1>5. /\ DOMAIN outputs = 1 .. n /\ Len(outputs) = n
      /\ \A k \in 1 .. n : outputs[k].value = sats(ys[k].out.value)
                           /\ outputs[k].lock = ys[k].out.lock
      /\ made.htlcs = HtlcsOf(ys)
  BY <1>1, <1>3, <1>4, OutputsMade
<1>6. \A k \in 1 .. n : PaidBy(c, ys[k], src[k])
  BY <1>3 DEF Sourced
<1>7. \A k \in 1 .. n : outputs[k].value >= sats(c.dustLimit)
                        /\ Owned(outputs[k], holder, other, secret)
  BY <1>5, <1>6, OutputWorth, OutputOwned
<1>8. Total([k \in 1 .. n |-> outputs[k].value], n) <= sats(channel.fundingAmount)
  <2>1. PICK f, h : /\ f = [i \in 1 .. top |-> sats(Worth(c, i))]
                    /\ h = [k \in 1 .. n |-> outputs[k].value]
    OBVIOUS
  <2>2. f \in [1 .. top -> Nat] /\ Total(f, top) <= sats(channel.fundingAmount)
    BY <1>2, <2>1, WorthInAll
  <2>3. Injects(src, n, top)
    BY <1>3 DEF Sourced
  <2>4. TakesUpTo(h, f, src, n)
    <3>1. ASSUME NEW k \in 1 .. n PROVE h[k] \in Nat /\ h[k] <= f[src[k]]
      <4>1. h[k] = sats(ys[k].out.value) /\ src[k] \in 1 .. top
        BY <1>5, <2>1, <2>3 DEF Injects
      <4>2. f[src[k]] = sats(Worth(c, src[k]))
        BY <2>1, <4>1
      <4>3. PaidBy(c, ys[k], src[k])
        BY <1>6
      <4> QED
        BY <4>1, <4>2, <4>3, OutputWorth
    <3> QED
      BY <3>1 DEF TakesUpTo
  <2>5. Total(h, n) <= Total(f, top)
    <3>1. SumsWithin(n, top)
      BY TotalOfSome
    <3> QED
      BY <2>2, <2>3, <2>4, <3>1 DEF SumsWithin
  <2>6. Total(h, n) \in Nat /\ Total(f, top) \in Nat /\ sats(channel.fundingAmount) \in Nat
    <3>1. \A k \in 1 .. n : h[k] \in Nat
      BY <2>4 DEF TakesUpTo
    <3>2. \A k \in 1 .. top : f[k] \in Nat
      BY <2>2
    <3> QED
      BY <3>1, <3>2, TotalIsNat, AmountParts DEF PaidFrom
  <2> QED
    BY <2>1, <2>2, <2>5, <2>6
<1>9. PICK of : of = Picked([k \in 1 .. n |-> k],
                            {k \in 1 .. n : HasField(outputs[k], "paymentHash")})
  OBVIOUS
<1>10. /\ Len(of) = Len(made.htlcs)
       /\ \A q \in 1 .. Len(of) : ClaimsHtlc(tx, of[q], c, made.htlcs[q])
  <2>1. /\ DOMAIN tx.outputs = 1 .. n
        /\ \A k \in 1 .. n : /\ tx.outputs[k].value = sats(ys[k].out.value)
                             /\ tx.outputs[k].lock = ys[k].out.lock
        /\ of = Picked([k \in 1 .. n |-> k],
                       {k \in 1 .. n : HasField(tx.outputs[k], "paymentHash")})
    BY <1>4, <1>5, <1>9
  <2>2. Len(of) = Len(HtlcsOf(ys))
    BY <1>3, <1>6, <2>1, HtlcsClaimed
  <2>3. \A q \in 1 .. Len(of) : ClaimsHtlc(tx, of[q], c, HtlcsOf(ys)[q])
    BY <1>3, <1>6, <2>1, HtlcsClaimed
  <2> QED
    BY <1>5, <2>2, <2>3
<1> QED
  BY <1>4, <1>5, <1>7, <1>8, <1>9, <1>10

-----------------------------------------------------------------------------
(* What the outputs of the commitments are paid with and locked to, for    *)
(* OutputsAreClaimable: the keys of a side are those of its secrets, and   *)
(* the balances and the HTLCs sum up to the funding.                       *)
KeyedSide(side, secrets) ==
    /\ side.paymentBasePoint = toPubKey(secrets.payment)
    /\ side.delayedBasePoint = toPubKey(secrets.delayed)
    /\ side.htlcBasePoint = toPubKey(secrets.htlc)
    /\ side.revocationBasePoint = toPubKey(secrets.revocation)

PaidSide(side) == side.dustLimit \in Amount /\ side.balance \in Amount

PaidChannel(ch, hs) ==
    /\ PaidSide(ch.ourSide) /\ PaidSide(ch.theirSide)
    /\ ch.feeRatePerKw \in Amount /\ ch.fundingAmount \in Amount
    /\ MilliSats(ch.ourSide.balance) + MilliSats(ch.theirSide.balance) + HtlcMilliSats(hs)
         = MilliSats(ch.fundingAmount)

OurPoint(ch) ==
    /\ ch.secrets = OurSecrets
    /\ ch.ourSide.nextCommitmentPoint = pointOf(OurSecrets.seed, ch.ourSide.nextCommitmentNumber)

Claims(ch, hs) ==
    /\ KeyedSide(ch.ourSide, OurSecrets) /\ KeyedSide(ch.theirSide, PeerSecrets)
    /\ PaidChannel(ch, hs) /\ OurPoint(ch)

ClaimInv == Opened => Claims(channel, htlcs)

(* What is left of an amount, and what one more HTLC adds.                 *)
LEMMA SubLeaves ==
  ASSUME NEW v \in Amount, NEW w \in Amount, gte(v, w)
  PROVE  /\ subn(v, w) \in Amount
         /\ MilliSats(subn(v, w)) + MilliSats(w) = MilliSats(v)
<1>1. PICK a \in Nat, p \in 0 .. 999 : v = <<a, p>>
  BY DEF Amount
<1>2. PICK b \in Nat, q \in 0 .. 999 : w = <<b, q>>
  BY DEF Amount
<1>3. a > b \/ (a = b /\ p >= q)
  BY <1>1, <1>2 DEF gte, gt
<1>4. a \in Int /\ b \in Int /\ p \in Int /\ q \in Int
      /\ 0 <= p /\ p <= 999 /\ 0 <= q /\ q <= 999
  OBVIOUS
<1>5. ASSUME NEW d \in Int, NEW e \in Int, subn(v, w) = <<d, e>>,
             0 <= d, 0 <= e, e <= 999, 1000 * d + e + (1000 * b + q) = 1000 * a + p
      PROVE  /\ subn(v, w) \in Amount
             /\ MilliSats(subn(v, w)) + MilliSats(w) = MilliSats(v)
  <2>1. d \in Nat /\ e \in 0 .. 999
    BY <1>5
  <2>2. <<d, e>> \in Amount
    BY <2>1, SMTT(30) DEF Amount
  <2>3. /\ MilliSats(<<d, e>>) = 1000 * d + e /\ MilliSats(v) = 1000 * a + p
        /\ MilliSats(w) = 1000 * b + q
    BY <1>1, <1>2 DEF MilliSats
  <2> QED
    BY <1>5, <2>2, <2>3
<1>6. CASE p >= q
  <2>1. PICK d \in Int, e \in Int : d = a - b /\ e = p - q
    BY <1>4
  <2>2. subn(v, w) = <<d, e>>
    BY <1>1, <1>2, <1>6, <2>1 DEF subn
  <2>3. 0 <= d /\ 0 <= e /\ e <= 999 /\ 1000 * d + e + (1000 * b + q) = 1000 * a + p
    BY <1>3, <1>4, <1>6, <2>1
  <2> QED
    BY <1>5, <2>2, <2>3
<1>7. CASE ~(p >= q)
  <2>1. PICK d \in Int, e \in Int : d = a - b - 1 /\ e = p + 1000 - q
    BY <1>4
  <2>2. subn(v, w) = <<d, e>>
    BY <1>1, <1>2, <1>7, <2>1 DEF subn
  <2>3. a > b
    BY <1>3, <1>7
  <2>4. 0 <= d
    BY <1>4, <2>1, <2>3
  <2>5. 0 <= e /\ e <= 999
    BY <1>4, <1>7, <2>1
  <2>6. 1000 * d + e + (1000 * b + q) = 1000 * a + p
    BY <1>4, <2>1
  <2> QED
    BY <1>5, <2>2, <2>4, <2>5, <2>6
<1> QED
  BY <1>6, <1>7

(* No HTLCs take nothing of the funding. *)
LEMMA NoHtlcs == HtlcMilliSats(<< >>) = 0
BY TotalOfNone DEF HtlcMilliSats

(* One more HTLC takes its value. *)
LEMMA OneMoreHtlc ==
  ASSUME NEW hs \in Seq(Htlcs), NEW h \in Htlcs
  PROVE  /\ HtlcMilliSats(Append(hs, h)) = HtlcMilliSats(hs) + MilliSats(h.value)
         /\ HtlcMilliSats(hs) \in Nat
<1>1. PICK n \in Nat, m \in Nat : n = Len(hs) /\ m = n + 1
  OBVIOUS
<1>2. PICK more : more = Append(hs, h)
  OBVIOUS
<1>3. Len(more) = m /\ more[m] = h /\ \A k \in 1 .. n : more[k] = hs[k]
  BY <1>1, <1>2
<1>4. PICK f, g : /\ f = [k \in 1 .. n |-> MilliSats(hs[k].value)]
                  /\ g = [k \in 1 .. m |-> MilliSats(more[k].value)]
  OBVIOUS
<1>5. Total(g, m) = Total(g, n) + g[m]
  BY <1>1, TotalGrows
<1>6. Total(g, n) = Total(f, n)
  <2>1. \A k \in 1 .. n : k \in 1 .. m
    BY <1>1
  <2>2. \A k \in 1 .. n : g[k] = f[k]
    BY <1>3, <1>4, <2>1
  <2> QED
    BY <2>2, TotalOfSame
<1>7. g[m] = MilliSats(h.value)
  <2>1. m \in 1 .. m
    BY <1>1
  <2> QED
    BY <1>3, <1>4, <2>1
<1>8. \A k \in 1 .. n : f[k] \in Nat
  <2>1. \A k \in 1 .. n : hs[k] \in Htlcs
    BY <1>1
  <2>2. \A k \in 1 .. n : hs[k].value \in Amount
    BY <2>1, TurnedHtlc
  <2> QED
    BY <1>4, <2>2, AmountParts
<1>9. Total(f, n) \in Nat
  BY <1>8, TotalIsNat
<1>10. HtlcMilliSats(hs) = Total(f, n) /\ HtlcMilliSats(more) = Total(g, m)
  BY <1>1, <1>3, <1>4 DEF HtlcMilliSats
<1> QED
  BY <1>2, <1>5, <1>6, <1>7, <1>9, <1>10

(* What the keys of an answer are, if the checks pass it. *)
LEMMA AnswerKeys ==
  ASSUME NEW ch, NEW msg, NEW valid, acceptError(ch, msg, valid) = NoError
  PROVE  /\ valid.paymentBasePoint /\ valid.delayedPaymentBasePoint
         /\ valid.revocationBasePoint /\ valid.htlcBasePoint
<1> DEFINE rules == acceptRules(ch, msg, valid)
<1>1. acceptError(ch, msg, valid) = FirstBroken(rules)
  BY Zenon DEF acceptError
<1>2. DOMAIN rules = 1 .. 16
  BY DEF acceptRules
<1>3. \A k \in 1 .. 16 : rules[k][2] \notin Progress
  BY DEF Progress, acceptRules
<1>4. /\ rules[5][1] = valid.paymentBasePoint /\ rules[6][1] = valid.delayedPaymentBasePoint
      /\ rules[7][1] = valid.revocationBasePoint /\ rules[8][1] = valid.htlcBasePoint
  BY DEF acceptRules
<1> HIDE DEF rules
<1>5. \A k \in 1 .. 16 : rules[k][1]
  BY <1>1, <1>2, <1>3, RulesError
<1> QED
  BY <1>4, <1>5

(* The first point of the answering side, if the checks pass it. *)
LEMMA AnswerPoints ==
  ASSUME NEW a \in Accepts, NEW msg, msg = AcceptMessage(a), NEW ch,
         acceptError(ch, msg, [k \in MessageKeys |-> isValid(msg[k])]) = NoError
  PROVE  /\ msg.paymentBasePoint = toPubKey(PeerSecrets.payment)
         /\ msg.delayedPaymentBasePoint = toPubKey(PeerSecrets.delayed)
         /\ msg.htlcBasePoint = toPubKey(PeerSecrets.htlc)
         /\ msg.revocationBasePoint = toPubKey(PeerSecrets.revocation)
<1> DEFINE keys == [fundingPubKey |-> PeerSecrets.funding, paymentBasePoint |-> PeerSecrets.payment,
                    delayedPaymentBasePoint |-> PeerSecrets.delayed,
                    htlcBasePoint |-> PeerSecrets.htlc,
                    revocationBasePoint |-> PeerSecrets.revocation,
                    firstPerCommitmentPoint |-> secretOf(PeerSecrets.seed, 0)]
           points == [k \in DOMAIN keys |-> Point(IF a.badKey = k THEN Undefined ELSE keys[k])]
           Used == {"paymentBasePoint", "delayedPaymentBasePoint", "htlcBasePoint",
                    "revocationBasePoint"}
<1>1. msg = a ++ points
  BY Zenon DEF AcceptMessage
<1>2. \A k \in Used : k \notin DOMAIN a
  BY LedgerAssumption
<1>3. PICK valid : valid = [k \in MessageKeys |-> isValid(msg[k])]
  OBVIOUS
<1>4. \A k \in Used : k \in MessageKeys /\ k \in DOMAIN keys
  BY DEF MessageKeys
<1>5. \A k \in Used : valid[k]
  BY <1>3, AnswerKeys
<1>6. /\ keys.paymentBasePoint = PeerSecrets.payment
      /\ keys.delayedPaymentBasePoint = PeerSecrets.delayed
      /\ keys.htlcBasePoint = PeerSecrets.htlc
      /\ keys.revocationBasePoint = PeerSecrets.revocation
  OBVIOUS
<1> HIDE DEF keys
<1>7. \A k \in Used : k \in DOMAIN points
                      /\ points[k] = Point(IF a.badKey = k THEN Undefined ELSE keys[k])
  BY <1>4
<1> HIDE DEF points
<1>8. \A k \in Used : msg[k] = points[k]
  <2>1. \A k \in DOMAIN points : k \notin DOMAIN a => (a ++ points)[k] = points[k]
    BY Together
  <2> QED
    BY <1>1, <1>2, <1>7, <2>1
<1>9. ASSUME NEW k \in Used PROVE msg[k] = Point(keys[k])
  <2>1. isValid(msg[k])
    BY <1>3, <1>4, <1>5
  <2>2. msg[k] = Point(IF a.badKey = k THEN Undefined ELSE keys[k])
    BY <1>7, <1>8
  <2>3. Point(Undefined).dlog = Undefined
    BY DEF Point
  <2>4. a.badKey # k
    BY <2>1, <2>2, <2>3 DEF isValid
  <2> QED
    BY <2>2, <2>4
<1> QED
  BY <1>6, <1>9 DEF toPubKey

(* Steps that keep the terms keep what is paid and by which keys.          *)
LEMMA ClaimsKept ==
  ASSUME NEW ch, NEW hs, Claims(ch, hs), NEW moved, SameTerms(moved, ch), OurPoint(moved)
  PROVE  Claims(moved, hs)
<1>1. /\ moved.feeRatePerKw = ch.feeRatePerKw /\ moved.fundingAmount = ch.fundingAmount
      /\ Twin(moved.ourSide, ch.ourSide) /\ Twin(moved.theirSide, ch.theirSide)
  BY DEF SameTerms, TermFields
<1>2. KeyedSide(moved.ourSide, OurSecrets) /\ KeyedSide(moved.theirSide, PeerSecrets)
  BY <1>1 DEF Claims, KeyedSide, Twin
<1>3. /\ moved.ourSide.balance = ch.ourSide.balance
      /\ moved.theirSide.balance = ch.theirSide.balance
      /\ moved.ourSide.dustLimit = ch.ourSide.dustLimit
      /\ moved.theirSide.dustLimit = ch.theirSide.dustLimit
  BY <1>1 DEF Twin
<1>4. PaidChannel(moved, hs)
  BY <1>1, <1>3 DEF Claims, PaidChannel, PaidSide
<1> QED
  BY <1>2, <1>4 DEF Claims

(* The channel that is made of a request and an answer.                    *)
LEMMA FundedClaims ==
  ASSUME NEW r \in Requests, requestError(r) = NoError, NEW a \in Accepts,
         NEW ch, ch = createChannel(r), NEW msg, msg = AcceptMessage(a),
         acceptError(ch, msg, [k \in MessageKeys |-> isValid(msg[k])]) = NoError,
         NEW funded,
         funded = attachFundingTx(attachAcceptChannel(ch, msg),
                                  createFundingTx(attachAcceptChannel(ch, msg)))
  PROVE  Claims(funded, << >>)
<1>1. /\ funded.feeRatePerKw = r.feeRatePerKw /\ funded.secrets = OurSecrets
      /\ funded.fundingAmount = r.fundingAmount
  BY FundedChannel
<1>2. /\ funded.ourSide.dustLimit = r.dustLimit
      /\ funded.ourSide.balance = subn(r.fundingAmount, r.pushAmount)
      /\ funded.ourSide.paymentBasePoint = toPubKey(OurSecrets.payment)
      /\ funded.ourSide.delayedBasePoint = toPubKey(OurSecrets.delayed)
      /\ funded.ourSide.htlcBasePoint = toPubKey(OurSecrets.htlc)
      /\ funded.ourSide.revocationBasePoint = toPubKey(OurSecrets.revocation)
      /\ funded.ourSide.nextCommitmentNumber = 0
      /\ funded.ourSide.nextCommitmentPoint = pointOf(OurSecrets.seed, 0)
      /\ \A f \in SenderFields : funded.theirSide[f] = SenderSide(msg)[f]
      /\ funded.theirSide.balance = r.pushAmount
  BY OurRecord
<1>3. /\ funded.theirSide.dustLimit = msg.dustLimit
      /\ funded.theirSide.paymentBasePoint = msg.paymentBasePoint
      /\ funded.theirSide.delayedBasePoint = msg.delayedPaymentBasePoint
      /\ funded.theirSide.htlcBasePoint = msg.htlcBasePoint
      /\ funded.theirSide.revocationBasePoint = msg.revocationBasePoint
  BY <1>2, SenderSideFields DEF SenderFields
<1>4. /\ r.fundingAmount \in Amount /\ r.pushAmount \in Amount /\ r.feeRatePerKw \in Amount
      /\ r.dustLimit \in Amount
  BY LedgerAssumption
<1>5. msg.dustLimit \in Amount
  <2>1. a.dustLimit \in Amount
    BY LedgerAssumption
  <2> QED
    BY <2>1, AcceptedMessage
<1>6. gte(r.fundingAmount, r.pushAmount)
  BY RequestChecked DEF validatePushAmount, lte
<1>7. /\ subn(r.fundingAmount, r.pushAmount) \in Amount
      /\ MilliSats(subn(r.fundingAmount, r.pushAmount)) + MilliSats(r.pushAmount)
           = MilliSats(r.fundingAmount)
  BY <1>4, <1>6, SubLeaves
<1>8. KeyedSide(funded.ourSide, OurSecrets)
  BY <1>2 DEF KeyedSide
<1>9. KeyedSide(funded.theirSide, PeerSecrets)
  BY <1>3, AnswerPoints DEF KeyedSide
<1>10. PaidChannel(funded, << >>)
  <2>1. PaidSide(funded.ourSide) /\ PaidSide(funded.theirSide)
    BY <1>2, <1>3, <1>4, <1>5, <1>7 DEF PaidSide
  <2>2. /\ MilliSats(subn(r.fundingAmount, r.pushAmount)) \in Nat
        /\ MilliSats(r.pushAmount) \in Nat
    BY <1>4, <1>7, AmountParts
  <2>3. MilliSats(funded.ourSide.balance) + MilliSats(funded.theirSide.balance)
            + HtlcMilliSats(<< >>) = MilliSats(funded.fundingAmount)
    BY <1>1, <1>2, <1>7, <2>2, NoHtlcs
  <2> QED
    BY <1>1, <1>4, <2>1, <2>3 DEF PaidChannel
<1>11. OurPoint(funded)
  BY <1>1, <1>2 DEF OurPoint
<1> QED
  BY <1>8, <1>9, <1>10, <1>11 DEF Claims

(* A side that pays for an HTLC.                                           *)
LEMMA SidePays ==
  ASSUME NEW side, SideFields \subseteq DOMAIN side, PaidSide(side),
         NEW value \in Amount, gte(side.balance, value), NEW paid, paid = Paid(side, value)
  PROVE  /\ PaidSide(paid)
         /\ MilliSats(paid.balance) + MilliSats(value) = MilliSats(side.balance)
         /\ \A secrets : KeyedSide(side, secrets) => KeyedSide(paid, secrets)
         /\ paid.nextCommitmentNumber = side.nextCommitmentNumber
         /\ paid.nextCommitmentPoint = side.nextCommitmentPoint
<1>1. /\ paid.balance = subn(side.balance, value)
      /\ \A f \in DOMAIN side \ {"balance"} : paid[f] = side[f]
  BY PaidFields
<1>2. /\ paid.dustLimit = side.dustLimit
      /\ paid.paymentBasePoint = side.paymentBasePoint
      /\ paid.delayedBasePoint = side.delayedBasePoint
      /\ paid.htlcBasePoint = side.htlcBasePoint
      /\ paid.revocationBasePoint = side.revocationBasePoint
      /\ paid.nextCommitmentNumber = side.nextCommitmentNumber
      /\ paid.nextCommitmentPoint = side.nextCommitmentPoint
  BY <1>1 DEF SideFields
<1>3. /\ subn(side.balance, value) \in Amount
      /\ MilliSats(subn(side.balance, value)) + MilliSats(value) = MilliSats(side.balance)
  BY SubLeaves DEF PaidSide
<1> QED
  BY <1>1, <1>2, <1>3 DEF PaidSide, KeyedSide

(* A payment moves its value from a balance to the HTLCs. *)
LEMMA PaymentClaims ==
  ASSUME NEW ch, Shaped(ch), NEW hs \in Seq(Htlcs), Claims(ch, hs), NEW h \in Htlcs,
         NEW moved,
         \/ /\ moved = [ch EXCEPT !.ourSide = Paid(@, h.value)] /\ gte(ch.ourSide.balance, h.value)
         \/ /\ moved = [ch EXCEPT !.theirSide = Paid(@, h.value)]
            /\ gte(ch.theirSide.balance, h.value)
  PROVE  Claims(moved, Append(hs, h))
<1>1. h.value \in Amount
  BY TurnedHtlc
<1>2. PICK x, y, z, v, w :
            /\ x = MilliSats(ch.ourSide.balance) /\ y = MilliSats(ch.theirSide.balance)
            /\ z = HtlcMilliSats(hs) /\ v = MilliSats(h.value)
            /\ w = HtlcMilliSats(Append(hs, h))
  OBVIOUS
<1>3. /\ x \in Nat /\ y \in Nat /\ z \in Nat /\ v \in Nat /\ w = z + v
      /\ x + y + z = MilliSats(ch.fundingAmount)
  <2>1. ch.ourSide.balance \in Amount /\ ch.theirSide.balance \in Amount
    BY DEF Claims, PaidChannel, PaidSide
  <2>2. x \in Nat /\ y \in Nat /\ v \in Nat
    BY <1>1, <1>2, <2>1, AmountParts
  <2>3. z \in Nat /\ w = z + v
    BY <1>2, OneMoreHtlc
  <2>4. x + y + z = MilliSats(ch.fundingAmount)
    BY <1>2 DEF Claims, PaidChannel
  <2> QED
    BY <2>2, <2>3, <2>4
<1>4. /\ SideFields \subseteq DOMAIN ch.ourSide /\ SideFields \subseteq DOMAIN ch.theirSide
      /\ {"theirSide", "feeRatePerKw", "fundingAmount", "secrets"} \subseteq DOMAIN ch \ {"ourSide"}
      /\ {"ourSide", "feeRatePerKw", "fundingAmount", "secrets"} \subseteq DOMAIN ch \ {"theirSide"}
  BY DEF Shaped, TermFields
<1>5. /\ PaidSide(ch.ourSide) /\ PaidSide(ch.theirSide)
      /\ ch.feeRatePerKw \in Amount /\ ch.fundingAmount \in Amount
      /\ KeyedSide(ch.ourSide, OurSecrets) /\ KeyedSide(ch.theirSide, PeerSecrets)
      /\ OurPoint(ch)
  BY DEF Claims, PaidChannel
<1>6. CASE /\ moved = [ch EXCEPT !.ourSide = Paid(@, h.value)]
           /\ gte(ch.ourSide.balance, h.value)
  <2>1. /\ moved.ourSide = Paid(ch.ourSide, h.value)
        /\ \A f \in DOMAIN ch \ {"ourSide"} : moved[f] = ch[f]
    BY <1>6, OurSidePays
  <2>2. /\ moved.theirSide = ch.theirSide /\ moved.feeRatePerKw = ch.feeRatePerKw
        /\ moved.fundingAmount = ch.fundingAmount /\ moved.secrets = ch.secrets
    BY <1>4, <2>1
  <2>3. /\ PaidSide(moved.ourSide)
        /\ MilliSats(moved.ourSide.balance) + v = x
        /\ KeyedSide(moved.ourSide, OurSecrets)
        /\ moved.ourSide.nextCommitmentNumber = ch.ourSide.nextCommitmentNumber
        /\ moved.ourSide.nextCommitmentPoint = ch.ourSide.nextCommitmentPoint
    BY <1>1, <1>2, <1>4, <1>5, <1>6, <2>1, SidePays
  <2>4. MilliSats(moved.ourSide.balance) \in Nat
    BY <2>3, AmountParts DEF PaidSide
  <2>5. PaidChannel(moved, Append(hs, h))
    BY <1>2, <1>3, <1>5, <2>2, <2>3, <2>4 DEF PaidChannel
  <2>6. OurPoint(moved)
    BY <1>5, <2>2, <2>3 DEF OurPoint
  <2> QED
    BY <1>5, <2>2, <2>3, <2>5, <2>6 DEF Claims
<1>7. CASE /\ moved = [ch EXCEPT !.theirSide = Paid(@, h.value)]
           /\ gte(ch.theirSide.balance, h.value)
  <2>1. /\ moved.theirSide = Paid(ch.theirSide, h.value)
        /\ \A f \in DOMAIN ch \ {"theirSide"} : moved[f] = ch[f]
    BY <1>7, TheirSidePays
  <2>2. /\ moved.ourSide = ch.ourSide /\ moved.feeRatePerKw = ch.feeRatePerKw
        /\ moved.fundingAmount = ch.fundingAmount /\ moved.secrets = ch.secrets
    BY <1>4, <2>1
  <2>3. /\ PaidSide(moved.theirSide)
        /\ MilliSats(moved.theirSide.balance) + v = y
        /\ KeyedSide(moved.theirSide, PeerSecrets)
    BY <1>1, <1>2, <1>4, <1>5, <1>7, <2>1, SidePays
  <2>4. MilliSats(moved.theirSide.balance) \in Nat
    BY <2>3, AmountParts DEF PaidSide
  <2>5. PaidChannel(moved, Append(hs, h))
    BY <1>2, <1>3, <1>5, <2>2, <2>3, <2>4 DEF PaidChannel
  <2>6. OurPoint(moved)
    BY <1>5, <2>2 DEF OurPoint
  <2> QED
    BY <1>5, <2>2, <2>3, <2>5, <2>6 DEF Claims
<1> QED
  BY <1>6, <1>7

(* The counterpart's move leaves our side alone.                           *)
LEMMA PeerMovesClaims ==
  ASSUME IInv, ClaimInv, Opened, NEW seed \in PeerSeeds, PeerMovesOn(seed), htlcs' = htlcs
  PROVE  Claims(channel', htlcs')
<1>1. PICK ch, moved, hs : ch = channel /\ moved = channel' /\ hs = htlcs
  OBVIOUS
<1>2. PICK point : moved = attachChannelReady(ch, point)
  BY <1>1 DEF PeerMovesOn
<1>3. Shaped(ch) /\ Claims(ch, hs)
  BY <1>1 DEF IInv, AgreeInv, ClaimInv
<1>4. SameTerms(moved, ch) /\ moved.ourSide = ch.ourSide /\ moved.secrets = ch.secrets
  <2>1. "secrets" \in DOMAIN ch \ {"theirSide"}
    BY <1>3 DEF Shaped
  <2> QED
    BY <1>2, <1>3, <2>1, ChannelReadyAttached
<1>5. OurPoint(moved)
  BY <1>3, <1>4 DEF Claims, OurPoint
<1>6. Claims(moved, hs)
  BY <1>3, <1>4, <1>5, ClaimsKept
<1> QED
  BY <1>1, <1>6

(* Every step keeps what is paid. *)
LEMMA ClaimStep ==
  ASSUME IInv, ClaimInv, [Next]_vars
  PROVE  ClaimInv'
<1>1. ASSUME UNCHANGED <<channel, peer, htlcs>> PROVE ClaimInv'
  BY <1>1 DEF ClaimInv, Opened
<1>2. ASSUME NEW error, Fail(error) PROVE ClaimInv'
  BY <1>1, <1>2 DEF Fail
<1>3. CASE \E r \in Requests : OpenChannel(r)
  <2>1. CASE \E r \in Requests : Fail(requestError(r))
    BY <1>2, <2>1
  <2>2. CASE phase = "idle" /\ peer' = peer
    <3>1. ~Opened'
      BY <2>2 DEF IInv, PhaseInv, Opened
    <3> QED
      BY <3>1 DEF ClaimInv
  <2> QED
    BY <1>3, <2>1, <2>2 DEF OpenChannel
<1>4. CASE \E a \in Accepts : AcceptChannel(a)
  <2>1. PICK a \in Accepts : AcceptChannel(a)
    BY <1>4
  <2>2. PICK ch, msg : ch = channel /\ msg = AcceptMessage(a)
    OBVIOUS
  <2>3. PICK error : error = acceptError(ch, msg, [k \in MessageKeys |-> isValid(msg[k])])
    OBVIOUS
  <2>4. PICK funded : funded = attachFundingTx(attachAcceptChannel(ch, msg),
                                               createFundingTx(attachAcceptChannel(ch, msg)))
    OBVIOUS
  <2>5. CASE Fail(error)
    BY <1>2, <2>5
  <2>6. CASE error = NoError /\ channel' = funded /\ htlcs' = htlcs
    <3>1. ~Opened /\ phase = "open_channel" /\ htlcs = << >>
      BY <2>1 DEF AcceptChannel, IInv, PhaseInv
    <3>2. PICK r \in Requests : requestError(r) = NoError /\ ch = createChannel(r)
      BY <2>2, <3>1 DEF IInv, PhaseInv
    <3>3. Claims(funded, << >>)
      BY <2>2, <2>3, <2>4, <2>6, <3>2, FundedClaims
    <3> QED
      BY <2>6, <3>1, <3>3 DEF ClaimInv
  <2> QED
    BY <2>1, <2>2, <2>3, <2>4, <2>5, <2>6 DEF AcceptChannel
<1>5. CASE FundingSigned
  <2>1. Opened
    BY <1>5 DEF FundingSigned, IInv, PhaseInv
  <2>2. CASE Fail("InvalidCommitmentSig")
    BY <1>2, <2>2
  <2>3. ASSUME NEW sig, channel' = attachFundingSigned(channel, sig), htlcs' = htlcs
        PROVE  ClaimInv'
    <3>1. PICK ch, moved, hs : ch = channel /\ moved = channel' /\ hs = htlcs
      OBVIOUS
    <3>2. Shaped(ch) /\ Claims(ch, hs) /\ moved = attachFundingSigned(ch, sig)
      BY <2>1, <2>3, <3>1 DEF IInv, AgreeInv, ClaimInv
    <3>3. /\ SameTerms(moved, ch)
          /\ \A f \in SideFields \ {"nextCommitmentSig"} : moved.ourSide[f] = ch.ourSide[f]
          /\ \A f \in DOMAIN ch \ {"ourSide"} : moved[f] = ch[f]
      BY <3>2, FundingSignedAttached
    <3>4. /\ moved.ourSide.nextCommitmentNumber = ch.ourSide.nextCommitmentNumber
          /\ moved.ourSide.nextCommitmentPoint = ch.ourSide.nextCommitmentPoint
          /\ moved.secrets = ch.secrets
      BY <3>2, <3>3 DEF SideFields, Shaped
    <3>5. OurPoint(moved)
      BY <3>2, <3>4 DEF Claims, OurPoint
    <3>6. Claims(moved, hs)
      BY <3>2, <3>3, <3>5, ClaimsKept
    <3> QED
      BY <2>3, <3>1, <3>6 DEF ClaimInv
  <2> QED
    BY <1>5, <2>2, <2>3 DEF FundingSigned
<1>6. CASE \E revokes \in RevokesFirst : DepthReached(revokes)
  <2>1. PICK revokes \in RevokesFirst : DepthReached(revokes)
    BY <1>6
  <2>2. PICK ch, hs : ch = channel /\ hs = htlcs
    OBVIOUS
  <2>3. PICK current : current = IF revokes THEN revokeLocalCommitment(ch) ELSE ch
    OBVIOUS
  <2>4. phase = "funding_signed" /\ channel' = current /\ htlcs' = htlcs
    BY <2>1, <2>2, <2>3 DEF DepthReached
  <2>5. Opened
    BY <2>4 DEF IInv, PhaseInv
  <2>6. Shaped(ch) /\ Claims(ch, hs)
    BY <2>2, <2>5 DEF IInv, AgreeInv, ClaimInv
  <2>7. Claims(current, hs)
    <3>1. CASE revokes
      <4>1. PICK pt : pt = pointOf(ch.secrets.seed, next(ch.ourSide.nextCommitmentNumber))
        OBVIOUS
      <4>2. /\ SameTerms(current, ch) /\ current.ourSide = Rotated(ch.ourSide, pt)
            /\ \A f \in DOMAIN ch \ {"ourSide"} : current[f] = ch[f]
        BY <2>3, <2>6, <3>1, <4>1, LocalRevoked
      <4>3. /\ current.ourSide.nextCommitmentPoint = pt
            /\ current.ourSide.nextCommitmentNumber = next(ch.ourSide.nextCommitmentNumber)
        <5>1. SideFields \subseteq DOMAIN ch.ourSide
          BY <2>6 DEF Shaped
        <5> QED
          BY <4>2, <5>1, RotatedFields
      <4>4. current.secrets = ch.secrets /\ ch.secrets = OurSecrets
        BY <2>6, <4>2 DEF Shaped, Claims, OurPoint
      <4>5. OurPoint(current)
        BY <4>1, <4>3, <4>4 DEF OurPoint
      <4> QED
        BY <2>6, <4>2, <4>5, ClaimsKept
    <3>2. CASE ~revokes
      BY <2>3, <2>6, <3>2
    <3> QED
      BY <3>1, <3>2
  <2> QED
    BY <2>2, <2>4, <2>7 DEF ClaimInv
<1>7. CASE \E seed \in PeerSeeds : ChannelReady(seed)
  <2>1. PICK seed \in PeerSeeds : ChannelReady(seed)
    BY <1>7
  <2>2. phase = "funding_signed" /\ PeerMovesOn(seed) /\ htlcs' = htlcs
    BY <2>1 DEF ChannelReady
  <2>3. Opened
    BY <2>2 DEF IInv, PhaseInv
  <2> QED
    BY <2>2, <2>3, PeerMovesClaims DEF ClaimInv
<1>8. CASE \E seed \in PeerSeeds : Revoke(seed)
  <2>1. PICK seed \in PeerSeeds : Revoke(seed)
    BY <1>8
  <2>2. Opened
    BY <2>1 DEF Revoke, IInv, PhaseInv
  <2>3. CASE Fail("secret refused")
    BY <1>2, <2>3
  <2>4. CASE PeerMovesOn(seed) /\ htlcs' = htlcs
    BY <2>2, <2>4, PeerMovesClaims DEF ClaimInv
  <2> QED
    BY <2>1, <2>3, <2>4 DEF Revoke
<1>9. CASE \E h \in Htlcs : AddHtlc(h)
  <2>1. PICK h \in Htlcs : AddHtlc(h)
    BY <1>9
  <2>2. phase = "funding_signed" /\ htlcs' = Append(htlcs, h)
    BY <2>1 DEF AddHtlc
  <2>3. Opened
    BY <2>2 DEF IInv, PhaseInv
  <2>4. PICK ch, hs, moved : ch = channel /\ hs = htlcs /\ moved = channel'
    OBVIOUS
  <2>5. Shaped(ch) /\ Claims(ch, hs) /\ hs \in Seq(Htlcs)
    BY <2>3, <2>4 DEF IInv, AgreeInv, PhaseInv, ClaimInv
  <2>6. \/ /\ moved = [ch EXCEPT !.ourSide = Paid(@, h.value)]
           /\ gte(ch.ourSide.balance, h.value)
        \/ /\ moved = [ch EXCEPT !.theirSide = Paid(@, h.value)]
           /\ gte(ch.theirSide.balance, h.value)
    BY <2>1, <2>4 DEF AddHtlc, Paid
  <2>7. Claims(moved, Append(hs, h))
    BY <2>5, <2>6, PaymentClaims
  <2> QED
    BY <2>2, <2>4, <2>7 DEF ClaimInv
<1>10. CASE UNCHANGED vars
  BY <1>1, <1>10 DEF vars
<1> QED
  BY <1>3, <1>4, <1>5, <1>6, <1>7, <1>8, <1>9, <1>10 DEF Next

(* The balances and the payments sum up to the funding, and the keys are   *)
(* those of the two nodes' secrets (createChannel, attachAcceptChannel).   *)
THEOREM ClaimInvariance == Spec => []ClaimInv
<1>1. Init => ClaimInv
  BY DEF Init, ClaimInv, Opened
<1> QED
  BY <1>1, ClaimStep, Invariance, PTL DEF Spec

(***************************************************************************)
(* Every output of either node's commitment is above the dust limit, and   *)
(* locked to keys that the right side has the secrets of; the outputs are  *)
(* paid by the funding, and every HTLC that is listed is claimed from its  *)
(* output, for any amounts, keys and payments (createCommitment,           *)
(* createHtlcTimeout, createHtlcSuccess, ChannelKeys).                     *)
(***************************************************************************)
THEOREM CommitmentsAreClaimable == Spec => []OutputsAreClaimable
<1>1. IInv /\ NumberInv /\ ClaimInv => OutputsAreClaimable
  <2> SUFFICES ASSUME IInv, NumberInv, ClaimInv, Opened,
                      NEW mine, mine = LocalCommitment(channel, htlcs),
                      NEW theirs, theirs = RemoteCommitment(channel, htlcs)
               PROVE  /\ Claimable(mine, OurSecrets, PeerSecrets,
                                   secretOf(OurSecrets.seed, channel.ourSide.nextCommitmentNumber))
                      /\ Claimable(theirs, PeerSecrets, OurSecrets,
                                   given[channel.theirSide.nextCommitmentNumber + 1])
    BY DEF OutputsAreClaimable
  <2>1. PICK ch, hs : ch = channel /\ hs = htlcs
    OBVIOUS
  <2>2. hs \in Seq(Htlcs) /\ Claims(ch, hs)
    BY <2>1 DEF IInv, PhaseInv, ClaimInv
  <2>3. /\ TypedSide(ch.ourSide) /\ TypedSide(ch.theirSide) /\ sats(ch.feeRatePerKw) \in Int
        /\ ch.ourSide.nextCommitmentPoint.dlog \in Int
    BY <2>1 DEF NumberInv, TypedChannel
  <2>4. ch.ourSide.nextCommitmentNumber \in 0 .. MAX_COMMITMENT_NUMBER
    <3>1. ch.ourSide.nextCommitmentNumber \in {0, 1}
      BY <2>1 DEF NumberInv
    <3> QED
      BY <3>1, TwoNumbers, Numbers
  <2>5. PICK s \in SecretsGiven : /\ s = given[ch.theirSide.nextCommitmentNumber + 1]
                                  /\ ch.theirSide.nextCommitmentPoint = toPubKey(s)
                                  /\ ch.theirSide.nextCommitmentNumber
                                       \in 0 .. MAX_COMMITMENT_NUMBER
    <3>1. /\ Len(built) \in Nat /\ Len(given) = Len(built) + 1 /\ given \in Seq(SecretsGiven)
          /\ ch.theirSide.nextCommitmentNumber = Len(built)
          /\ ch.theirSide.nextCommitmentPoint = toPubKey(given[Len(given)])
      BY <2>1 DEF IInv, KeysInv
    <3>2. Len(built) <= MAX_COMMITMENT_NUMBER
      BY DEF NumberInv
    <3>3. given[Len(given)] \in SecretsGiven
      BY <3>1
    <3> QED
      BY <3>1, <3>2, <3>3, Numbers
  <2>6. toPubKey(s).dlog \in Int
    BY SecretsAreNumbers, PointIsTyped
  <2>7. Typed(mine) /\ Typed(theirs)
    BY <2>1, <2>2, <2>3, <2>4, <2>5, <2>6, LocalTyped, RemoteTyped
  <2>8. PICK x \in Amount, y \in Amount, d \in Amount, e \in Amount, fee \in Amount,
             funding \in Amount :
            /\ x = ch.ourSide.balance /\ y = ch.theirSide.balance
            /\ d = ch.ourSide.dustLimit /\ e = ch.theirSide.dustLimit
            /\ fee = ch.feeRatePerKw /\ funding = ch.fundingAmount
            /\ MilliSats(x) + MilliSats(y) + HtlcMilliSats(hs) = MilliSats(funding)
    BY <2>2 DEF Claims, PaidChannel, PaidSide
  <2>9. /\ sats(x) \in Nat /\ sats(y) \in Nat /\ sats(d) \in Nat /\ sats(e) \in Nat
        /\ sats(fee) \in Nat /\ MilliSats(x) \in Nat /\ MilliSats(y) \in Nat
    BY AmountParts
  <2>10. MilliSats(y) + MilliSats(x) + HtlcMilliSats(hs) = MilliSats(funding)
    <3>1. MilliSats(y) + MilliSats(x) = MilliSats(x) + MilliSats(y)
      BY <2>9
    <3> QED
      BY <2>8, <3>1
  <2>11. Claimable(mine, OurSecrets, PeerSecrets,
                   secretOf(OurSecrets.seed, channel.ourSide.nextCommitmentNumber))
    <3>1. PICK secret : secret = secretOf(OurSecrets.seed, ch.ourSide.nextCommitmentNumber)
      OBVIOUS
    <3>2. ch.ourSide.nextCommitmentPoint = toPubKey(secret)
      BY <2>2, <3>1 DEF Claims, OurPoint, pointOf
    <3>3. KeysFit(mine, OurSecrets, PeerSecrets, secret)
      BY <2>1, <2>2, <3>2 DEF LocalCommitment, Claims, KeyedSide, KeysFit
    <3>4. /\ mine.feePerKw = sats(fee) /\ mine.dustLimit = d
          /\ mine.localValue = x /\ mine.remoteValue = y /\ mine.htlcs = hs
      BY <2>1, <2>8 DEF LocalCommitment
    <3>5. Valued(mine) /\ PaidFrom(mine, channel.fundingAmount)
      BY <2>1, <2>8, <2>9, <3>4 DEF Valued, PaidFrom
    <3> QED
      BY <2>1, <2>7, <3>1, <3>3, <3>5, CommitmentClaimable
  <2>12. Claimable(theirs, PeerSecrets, OurSecrets,
                   given[channel.theirSide.nextCommitmentNumber + 1])
    <3>1. KeysFit(theirs, PeerSecrets, OurSecrets, s)
      BY <2>1, <2>2, <2>5 DEF RemoteCommitment, Claims, KeyedSide, KeysFit
    <3>2. /\ theirs.feePerKw = sats(fee) /\ theirs.dustLimit = e
          /\ theirs.localValue = y /\ theirs.remoteValue = x /\ theirs.htlcs = hs
      BY <2>1, <2>8 DEF RemoteCommitment
    <3>3. Valued(theirs) /\ PaidFrom(theirs, channel.fundingAmount)
      BY <2>1, <2>8, <2>9, <2>10, <3>2 DEF Valued, PaidFrom
    <3> QED
      BY <2>1, <2>5, <2>7, <3>1, <3>3, CommitmentClaimable
  <2> QED
    BY <2>11, <2>12
<1> QED
  BY <1>1, Invariance, NumberInvariance, ClaimInvariance, PTL
=============================================================================
