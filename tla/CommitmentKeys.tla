---------------------------- MODULE CommitmentKeys ----------------------------
(***************************************************************************)
(* The keys, numbers and secrets of commitment transactions                *)
(* (channels/ChannelKeys.ts, CommitmentNumber.ts, CommitmentSecret.ts and  *)
(* CommitmentSecretStore.ts).                                              *)
(***************************************************************************)
EXTENDS Integers, Sequences, FiniteSets, SequencesExt, FiniteSetsExt

CONSTANTS
    Order,  \* the order of the group of points
    Bits    \* bits of a commitment number, even: 48 in the code

ASSUME BitsAssumption == Order \in Nat \ {0} /\ Bits \in Nat \ {0} /\ Bits % 2 = 0

Undefined == -1     \* no secret, or bytes that are no point

(***************************************************************************)
(* The curve and the hash.  A point is written by its discrete logarithm,  *)
(* which nothing but the comparison of two public keys looks at; the hash  *)
(* is some function of a sequence of numbers, in order.                    *)
(***************************************************************************)
Point(k) == [dlog |-> k]
toPubKey(k) == Point(k)
isValid(P) == P.dlog # Undefined

absorb(h, n) == (h * h + 31 * h + 17 * n + 5) % Order
Sha256(ns) ==
    LET h[n \in 0 .. Len(ns)] == IF n = 0 THEN 1 ELSE absorb(h[n - 1], ns[n])
    IN h[Len(ns)]
HashPoints(P, Q) == Sha256(<<P.dlog, Q.dlog>>)

privateKeyTweakAdd(k, t) == (k + t) % Order
privateKeyTweakMul(k, t) == (k * t) % Order
publicKeyTweakAdd(P, t) == Point((P.dlog + t) % Order)
publicKeyTweakMul(P, t) == Point((P.dlog * t) % Order)
publicKeyCombine(P, Q) == Point((P.dlog + Q.dlog) % Order)

(***************************************************************************)
(* ChannelKeys.                                                            *)
(***************************************************************************)
derivePubKey(perCommitmentPoint, basePoint) ==
    publicKeyTweakAdd(basePoint, HashPoints(perCommitmentPoint, basePoint))

derivePrivKey(perCommitmentPoint, basePointSecret) ==
    privateKeyTweakAdd(basePointSecret,
                       HashPoints(perCommitmentPoint, toPubKey(basePointSecret)))

deriveRevocationPubKey(perCommitmentPoint, basePoint) ==
    publicKeyCombine(
        publicKeyTweakMul(basePoint, HashPoints(basePoint, perCommitmentPoint)),
        publicKeyTweakMul(perCommitmentPoint, HashPoints(perCommitmentPoint, basePoint)))

deriveRevocationPrivKey(perCommitmentSecret, basePointSecret) ==
    LET basePoint == toPubKey(basePointSecret)
        perCommitmentPoint == toPubKey(perCommitmentSecret)
        a == privateKeyTweakMul(basePointSecret, HashPoints(basePoint, perCommitmentPoint))
        b == privateKeyTweakMul(perCommitmentSecret, HashPoints(perCommitmentPoint, basePoint))
    IN privateKeyTweakAdd(a, b)

(***************************************************************************)
(* CommitmentNumber.  nSequence and nLockTime are <<top byte, the rest>>.  *)
(***************************************************************************)
Pow2[b \in 0 .. Bits] == IF b = 0 THEN 1 ELSE 2 * Pow2[b - 1]
Half == Pow2[Bits \div 2]
MAX_COMMITMENT_NUMBER == Pow2[Bits] - 1

HasBit(i, b) == (i \div Pow2[b]) % 2 = 1
xor(i, j) == CHOOSE x \in 0 .. MAX_COMMITMENT_NUMBER :
                \A b \in 0 .. Bits - 1 : HasBit(x, b) = (HasBit(i, b) # HasBit(j, b))

getHash(openBasePoint, acceptBasePoint) ==
    HashPoints(openBasePoint, acceptBasePoint) % Pow2[Bits]
obscure(number, openBasePoint, acceptBasePoint) ==
    xor(getHash(openBasePoint, acceptBasePoint), number)
getSequence(obscured) == <<128, obscured \div Half>>
getLockTime(obscured) == <<32, obscured % Half>>
reveal(locktime, sequence, openBasePoint, acceptBasePoint) ==
    xor(getHash(openBasePoint, acceptBasePoint), sequence[2] * Half + locktime[2])

secretIndex(number) == MAX_COMMITMENT_NUMBER - number
next(number) == number + 1

(***************************************************************************)
(* CommitmentSecret: from the highest of the given bits down, a bit that   *)
(* the index has set is flipped in the secret, which is hashed.            *)
(***************************************************************************)
FlipAndHash(secret, b) == Sha256(<<secret, b>>)

derive(seed, i, bits) ==
    LET p[b \in 0 .. bits] ==
            IF b = bits THEN seed ELSE IF HasBit(i, b) THEN FlipAndHash(p[b + 1], b) ELSE p[b + 1]
    IN p[0]

secretOf(seed, number) == derive(seed, secretIndex(number), Bits)
pointOf(seed, number) == toPubKey(secretOf(seed, number))

(***************************************************************************)
(* CommitmentSecretStore: one secret for each number of low bits it can    *)
(* still vary.                                                             *)
(***************************************************************************)
EmptySecrets == [b \in 0 .. Bits |-> [index |-> 0, secret |-> Undefined]]

LowestBit(i) == CHOOSE b \in 0 .. Bits - 1 : HasBit(i, b) /\ \A a \in 0 .. b - 1 : ~HasBit(i, a)
calcIndex(i) == IF i = 0 THEN Bits ELSE LowestBit(i)

\* insert throws unless every secret held below the slot can be derived from
\* the new one.
nothingChecked(store, secret, i) == TRUE    \* a variant

isDerivable(store, secret, i) ==
    LET B == calcIndex(i)
    IN \A b \in 0 .. B - 1 : store[b].secret = derive(secret, store[b].index, B)

insert(store, secret, i) ==
    [store EXCEPT ![calcIndex(i)] = [index |-> i, secret |-> secret]]

\* The first slot whose index is a prefix of i; no slot: derive throws.
NotReceived == -2
recover(store, i) ==
    LET masked(b) == (i \div Pow2[b]) * Pow2[b]
        fits == {b \in 0 .. Bits : masked(b) = store[b].index /\ store[b].secret # Undefined}
    IN IF fits = {} THEN NotReceived ELSE derive(store[Min(fits)].secret, i, Min(fits))
=============================================================================
