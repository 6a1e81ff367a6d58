------------------------------ MODULE Messages ------------------------------
(***************************************************************************)
(* The Lightning wire messages (packages/lightning/lib/messages): what     *)
(* each deserialize reads and each serialize writes, field after field, in *)
(* the order of the code.  A message is a function from the names of its   *)
(* fields; a field the code leaves undefined is not in its domain.         *)
(* Numbers are those of Bufio; a Value keeps the unit it was read in.      *)
(***************************************************************************)
EXTENDS WireData

(***************************************************************************)
(* How a field stands on the wire.                                         *)
(***************************************************************************)
U(w, f)     == [as |-> "uint", n |-> w, f |-> f]      \* a number of w bytes
B(n, f)     == [as |-> "bytes", n |-> n, f |-> f]     \* n bytes
Scid        == [as |-> "scid", f |-> "shortChannelId"]
Vector(f)   == [as |-> "vector", f |-> f]             \* a length of two bytes, bytes
Features    == [as |-> "features", f |-> "features"]  \* a bit field in a vector
Flag(f)     == [as |-> "flag", f |-> f]               \* a byte, 1 for true
Scids       == [as |-> "scids", f |-> "shortChannelIds"]
Addresses   == [as |-> "addresses", f |-> "addresses"]

Types == "Init" :> 16 @@ "Error" :> 17 @@ "Ping" :> 18 @@ "Pong" :> 19
      @@ "OpenChannel" :> 32 @@ "AcceptChannel" :> 33 @@ "FundingCreated" :> 34
      @@ "FundingSigned" :> 35 @@ "FundingLocked" :> 36 @@ "Shutdown" :> 38
      @@ "ClosingSigned" :> 39 @@ "ChannelAnnouncement" :> 256 @@ "NodeAnnouncement" :> 257
      @@ "ChannelUpdate" :> 258 @@ "AnnouncementSignatures" :> 259
      @@ "QueryShortChannelIds" :> 261 @@ "ReplyShortChannelIdsEnd" :> 262
      @@ "QueryChannelRange" :> 263 @@ "ReplyChannelRange" :> 264
      @@ "GossipTimestampFilter" :> 265

MessageType == DOMAIN Types

\* A stored announcement has the type of the plain one and is not made by the factory.
Extended == "ExtendedChannelAnnouncement"
Names == MessageType \cup {Extended}
TypeOf(name) == Num(Types[IF name = Extended THEN "ChannelAnnouncement" ELSE name])

-----------------------------------------------------------------------------
(***************************************************************************)
(* The fields deserialize reads, after the type.                           *)
(***************************************************************************)
ChannelKeysRead == <<B(33, "fundingPubKey"), B(33, "revocationBasePoint"), B(33, "paymentBasePoint"),
    B(33, "delayedPaymentBasePoint"), B(33, "htlcBasePoint"), B(33, "firstPerCommitmentPoint")>>

OpenChannelRead == <<B(32, "chainHash"), B(32, "temporaryChannelId"), U(8, "fundingAmount"),
    U(8, "pushAmount"), U(8, "dustLimit"), U(8, "maxHtlcValueInFlight"), U(8, "channelReserve"),
    U(8, "minHtlcValue"), U(4, "feeRatePerKw"), U(2, "toSelfDelay"), U(2, "maxAcceptedHtlcs")>>
    \o ChannelKeysRead \o <<U(1, "channelFlags")>>

AcceptChannelSwapped == <<B(32, "temporaryChannelId"), U(8, "dustLimitValue"),    \* a variant
    U(8, "maxHtlcValueInFlightValue"), U(8, "htlcMinimumValue"), U(8, "channelReserveValue"),
    U(4, "minimumDepth"), U(2, "toSelfDelay"), U(2, "maxAcceptedHtlcs")>> \o ChannelKeysRead

AcceptChannelRead == <<B(32, "temporaryChannelId"), U(8, "dustLimitValue"),
    U(8, "maxHtlcValueInFlightValue"), U(8, "channelReserveValue"), U(8, "htlcMinimumValue"),
    U(4, "minimumDepth"), U(2, "toSelfDelay"), U(2, "maxAcceptedHtlcs")>> \o ChannelKeysRead

FundingCreatedRead == <<B(32, "temporaryChannelId"), B(32, "fundingTxId"),
    U(2, "fundingOutputIndex"), B(64, "signature")>>
FundingSignedRead == <<B(32, "channelId"), B(64, "signature")>>
ChannelReadyRead == <<B(32, "channelId"), B(33, "nextPerCommitmentPoint")>>
ShutdownRead == <<B(32, "channelId"), Vector("scriptPubKey")>>
ClosingSignedRead == <<B(32, "channelId"), U(8, "feeSatoshis"), B(64, "signature")>>
AnnouncementSignaturesRead == <<B(32, "channelId"), Scid, B(64, "nodeSignature"), B(64, "bitcoinSignature")>>

ChannelAnnouncementRead == <<B(64, "nodeSignature1"), B(64, "nodeSignature2"),
    B(64, "bitcoinSignature1"), B(64, "bitcoinSignature2"), Features, B(32, "chainHash"), Scid,
    B(33, "nodeId1"), B(33, "nodeId2"), B(33, "bitcoinKey1"), B(33, "bitcoinKey2")>>
ExtendedRead == ChannelAnnouncementRead    \* the same reads, then the records below
NodeAnnouncementRead == <<B(64, "signature"), Features, U(4, "timestamp"), B(33, "nodeId"),
    B(3, "rgbColor"), B(32, "alias"), Addresses>>
ChannelUpdateRead == <<B(64, "signature"), B(32, "chainHash"), Scid, U(4, "timestamp"),
    U(1, "messageFlags"), U(1, "channelFlags"), U(2, "cltvExpiryDelta"), U(8, "htlcMinimumMsat"),
    U(4, "feeBaseMsat"), U(4, "feeProportionalMillionths")>>

InitRead == <<Vector("globalFeatures"), Features>>
ErrorRead == <<B(32, "channelId"), Vector("data")>>
PingRead == <<U(2, "numPongBytes"), Vector("ignored")>>
PongRead == <<Vector("ignored")>>
QueryShortChannelIdsRead == <<B(32, "chainHash"), Scids>>
ReplyShortChannelIdsEndRead == <<B(32, "chainHash"), Flag("complete")>>
QueryChannelRangeRead == <<B(32, "chainHash"), U(4, "firstBlocknum"), U(4, "numberOfBlocks")>>
ReplyChannelRangeRead == <<B(32, "chainHash"), U(4, "firstBlocknum"), U(4, "numberOfBlocks"),
    Flag("fullInformation"), Scids>>
GossipTimestampFilterRead == <<B(32, "chainHash"), U(4, "firstTimestamp"), U(4, "timestampRange")>>

\* MessageFactory.deserialize picks the class by the type.
Reads(name) ==
    CASE name = "OpenChannel" -> OpenChannelRead       [] name = "AcceptChannel" -> AcceptChannelRead
      [] name = "FundingCreated" -> FundingCreatedRead [] name = "FundingSigned" -> FundingSignedRead
      [] name = "FundingLocked" -> ChannelReadyRead    [] name = "Shutdown" -> ShutdownRead
      [] name = "ClosingSigned" -> ClosingSignedRead   [] name = "Init" -> InitRead
      [] name = "Error" -> ErrorRead [] name = "Ping" -> PingRead [] name = "Pong" -> PongRead
      [] name = "AnnouncementSignatures" -> AnnouncementSignaturesRead
      [] name = "ChannelAnnouncement" -> ChannelAnnouncementRead
      [] name = "ExtendedChannelAnnouncement" -> ExtendedRead
      [] name = "NodeAnnouncement" -> NodeAnnouncementRead
      [] name = "ChannelUpdate" -> ChannelUpdateRead
      [] name = "QueryShortChannelIds" -> QueryShortChannelIdsRead
      [] name = "ReplyShortChannelIdsEnd" -> ReplyShortChannelIdsEndRead
      [] name = "QueryChannelRange" -> QueryChannelRangeRead
      [] name = "ReplyChannelRange" -> ReplyChannelRangeRead
      [] name = "GossipTimestampFilter" -> GossipTimestampFilterRead

ReadField(r, fd) ==
    CASE fd.as = "uint"      -> readUIntBE(r, fd.n)
      [] fd.as = "bytes"     -> readBytes(r, fd.n)
      [] fd.as = "scid"      -> shortChannelIdFromBuffer(r)
      [] fd.as = "vector"    -> readVector(r)
      [] fd.as = "features"  -> LET v == readVector(r) IN [v EXCEPT !.val = Trim(@)]
      [] fd.as = "flag"      -> LET v == readUIntBE(r, 1) IN [v EXCEPT !.val = (@ = <<1>>)]
      [] fd.as = "scids"     -> listOf(shortChannelIdFromBuffer, decode(readVector(r)))
      [] fd.as = "addresses" -> readAddresses(r)

ReadFields(r, fields) ==
    FoldLeft(LAMBDA s, fd : IF ~s.r.ok THEN s
                            ELSE LET one == ReadField(s.r, fd)
                                 IN  [r |-> one, m |-> s.m @@ (fd.f :> one.val)],
             [r |-> r, m |-> << >>], fields)

-----------------------------------------------------------------------------
(***************************************************************************)
(* The records after the fields: a type, a length and a value each.  A     *)
(* handler gives the reader of the value as it leaves it, and the fields   *)
(* it sets.                                                                *)
(***************************************************************************)
OutpointType == <<255, 255, 247>>    \* 16777271
CapacityType == <<255, 255, 249>>    \* 16777273

Handles(name, type) ==
    CASE name \in {"OpenChannel", "AcceptChannel"} -> type = << >>
      [] name \in {"Init", "QueryChannelRange", "QueryShortChannelIds"} -> type = <<1>>
      [] name = "ReplyChannelRange" -> type \in {<<1>>, <<3>>}
      [] name = Extended -> type \in {OutpointType, CapacityType}
      [] OTHER -> FALSE

ReadHash(r) == readBytes(r, 32)

Outpoint(v) ==
    LET txid == readBytes(v, 32)
        index == readTUInt(txid, 2)
    IN  [index EXCEPT !.val = [txid |-> Flip(txid.val), outputIndex |-> @]]

Handler(name, type, v) ==
    LET Sets(r, f) == [r |-> r, m |-> f :> r.val]
        options == readBigSize(v)
    IN  CASE name \in {"OpenChannel", "AcceptChannel"} -> Sets(readRest(v), "upfrontShutdownScript")
          [] name = "Init" -> Sets(readAll(ReadHash, v, << >>), "chainHashes")
          [] name = "QueryChannelRange" ->
                [r |-> options, m |-> "timestamps" :> isSet(options.val, 0)
                                      @@ "checksums" :> isSet(options.val, 1)]
          [] name = "QueryShortChannelIds" -> Sets(listOf(readBigSize, decode(readRest(v))), "flags")
          [] name = "ReplyChannelRange" /\ type = <<1>> ->
                Sets(listOf(readPair, decode(readRest(v))), "timestamps")
          [] name = "ReplyChannelRange" /\ type = <<3>> -> Sets(readAll(readPair, v, << >>), "checksums")
          [] name = Extended /\ type = OutpointType -> Sets(Outpoint(v), "outpoint")
          [] name = Extended /\ type = CapacityType -> Sets(readTUInt(v, 8), "capacity")

Beyond(m, n) ==    \* m > n
    \/ Len(m) > Len(n)
    \/ Len(m) = Len(n) /\ \E i \in DOMAIN m : m[i] > n[i] /\ \A j \in 1 .. i - 1 : m[j] = n[j]

IsEven(n) == n = << >> \/ Last(n) % 2 = 0

\* last is the type before, if there was one.  A record sets its fields over those before it.
RECURSIVE readTlvs(_, _, _, _)
readTlvs(name, r, m, last) ==
    LET type == readBigSize(r)
        len  == readBigSize(type)
        value == readBytes(len, ToNat(len.val))
        known == Handles(name, type.val)
        h == Handler(name, type.val, BufferReader(value.val))
        refused == \/ last # {} /\ \E t \in last : ~Beyond(type.val, t)
                   \/ ~known /\ IsEven(type.val)
                   \/ known /\ (~h.r.ok \/ ~eof(h.r))
    IN  IF ~r.ok \/ eof(r) THEN [r |-> r, m |-> m]
        ELSE IF ~value.ok \/ refused THEN [r |-> Throw(value), m |-> m]
        ELSE readTlvs(name, value, IF known THEN h.m @@ m ELSE m, {type.val})

HasTlvs(name) == name \in {"OpenChannel", "AcceptChannel", "Init", "QueryChannelRange",
                           "QueryShortChannelIds", "ReplyChannelRange", Extended}

(***************************************************************************)
(* What the objects hold before the records are read, and what init and    *)
(* channel_update still make of their fields.                              *)
(***************************************************************************)
Lists(name) == CASE name = "Init" -> "chainHashes" :> << >>
                 [] name = "QueryShortChannelIds" -> "flags" :> << >>
                 [] name = "ReplyChannelRange" -> "timestamps" :> << >> @@ "checksums" :> << >>
                 [] OTHER -> << >>

hasHtlcMaximumMsatFlag(m) == isSet(m["messageFlags"], 0)

WithLimit(main) ==
    LET limit == readUIntBE(main.r, 8)
    IN  IF hasHtlcMaximumMsatFlag(main.m)
        THEN [r |-> limit, m |-> main.m @@ ("htlcMaximumMsat" :> limit.val)] ELSE main

WithGlobals(tlvs) ==
    [tlvs EXCEPT !.m = ("features" :> or(Trim(@["globalFeatures"]), @["features"]))
                       @@ Restrict(@, DOMAIN @ \ {"globalFeatures"})]

AfterFields(name, main) ==
    LET tlvs == readTlvs(name, main.r, Lists(name) @@ main.m, {})
    IN  CASE ~main.r.ok -> main
          [] main.r.ok /\ name = "Init" -> WithGlobals(tlvs)
          [] main.r.ok /\ name = "ChannelUpdate" -> WithLimit(main)
          [] main.r.ok /\ name # "Init" /\ HasTlvs(name) -> tlvs
          [] OTHER -> main

deserialize(name, bs) ==
    AfterFields(name, ReadFields(readUIntBE(BufferReader(bs), 2), Reads(name)))

-----------------------------------------------------------------------------
(***************************************************************************)
(* The fields serialize writes, after the type, and the length of the      *)
(* buffer it allocates, Unlimited when its writer grows.                   *)
(***************************************************************************)
Announce == [as |-> "announce", f |-> "channelFlags"]    \* announceChannel ? 1 : 0
NoGlobals == [as |-> "none", f |-> "features"]           \* a length of zero
Maximum  == [as |-> "maximum", f |-> "htlcMaximumMsat"]  \* when its flag is set

ChannelKeysWritten == <<B(33, "fundingPubKey"), B(33, "revocationBasePoint"),
    B(33, "paymentBasePoint"), B(33, "delayedPaymentBasePoint"), B(33, "htlcBasePoint"),
    B(33, "firstPerCommitmentPoint")>>

OpenChannelWritten == <<B(32, "chainHash"), B(32, "temporaryChannelId"), U(8, "fundingAmount"),
    U(8, "pushAmount"), U(8, "dustLimit"), U(8, "maxHtlcValueInFlight"), U(8, "channelReserve"),
    U(8, "minHtlcValue"), U(4, "feeRatePerKw"), U(2, "toSelfDelay"), U(2, "maxAcceptedHtlcs")>>
    \o ChannelKeysWritten \o <<Announce>>

AcceptChannelWritten == <<B(32, "temporaryChannelId"), U(8, "dustLimitValue"),
    U(8, "maxHtlcValueInFlightValue"), U(8, "channelReserveValue"), U(8, "htlcMinimumValue"),
    U(4, "minimumDepth"), U(2, "toSelfDelay"), U(2, "maxAcceptedHtlcs")>> \o ChannelKeysWritten

FundingCreatedWritten == <<B(32, "temporaryChannelId"), B(32, "fundingTxId"),
    U(2, "fundingOutputIndex"), B(64, "signature")>>
FundingSignedWritten == <<B(32, "channelId"), B(64, "signature")>>
ChannelReadyWritten == <<B(32, "channelId"), B(33, "nextPerCommitmentPoint")>>
ShutdownWritten == <<B(32, "channelId"), Vector("scriptPubKey")>>
ClosingSignedWritten == <<B(32, "channelId"), U(8, "feeSatoshis"), B(64, "signature")>>
AnnouncementSignaturesWritten == <<B(32, "channelId"), Scid, B(64, "nodeSignature"), B(64, "bitcoinSignature")>>

ChannelAnnouncementWritten == <<B(64, "nodeSignature1"), B(64, "nodeSignature2"),
    B(64, "bitcoinSignature1"), B(64, "bitcoinSignature2"), Features, B(32, "chainHash"), Scid,
    B(33, "nodeId1"), B(33, "nodeId2"), B(33, "bitcoinKey1"), B(33, "bitcoinKey2")>>
NodeAnnouncementWritten == <<B(64, "signature"), Features, U(4, "timestamp"), B(33, "nodeId"),
    B(3, "rgbColor"), B(32, "alias"), Addresses>>
ChannelUpdateWritten == <<B(64, "signature"), B(32, "chainHash"), Scid, U(4, "timestamp"),
    U(1, "messageFlags"), U(1, "channelFlags"), U(2, "cltvExpiryDelta"), U(8, "htlcMinimumMsat"),
    U(4, "feeBaseMsat"), U(4, "feeProportionalMillionths"), Maximum>>

InitWritten == <<NoGlobals, Features>>
ErrorWritten == <<B(32, "channelId"), Vector("data")>>
PingWritten == <<U(2, "numPongBytes"), Vector("ignored")>>
PongWritten == <<Vector("ignored")>>
QueryShortChannelIdsWritten == <<B(32, "chainHash"), Scids>>
ReplyShortChannelIdsEndWritten == <<B(32, "chainHash"), Flag("complete")>>
QueryChannelRangeWritten == <<B(32, "chainHash"), U(4, "firstBlocknum"), U(4, "numberOfBlocks")>>
ReplyChannelRangeWritten == <<B(32, "chainHash"), U(4, "firstBlocknum"), U(4, "numberOfBlocks"),
    Flag("fullInformation"), Scids>>
GossipTimestampFilterWritten == <<B(32, "chainHash"), U(4, "firstTimestamp"), U(4, "timestampRange")>>

Writes(name) ==
    CASE name = "OpenChannel" -> OpenChannelWritten       [] name = "AcceptChannel" -> AcceptChannelWritten
      [] name = "FundingCreated" -> FundingCreatedWritten [] name = "FundingSigned" -> FundingSignedWritten
      [] name = "FundingLocked" -> ChannelReadyWritten    [] name = "Shutdown" -> ShutdownWritten
      [] name = "ClosingSigned" -> ClosingSignedWritten   [] name = "Init" -> InitWritten
      [] name = "Error" -> ErrorWritten [] name = "Ping" -> PingWritten [] name = "Pong" -> PongWritten
      [] name = "AnnouncementSignatures" -> AnnouncementSignaturesWritten
      [] name \in {"ChannelAnnouncement", Extended} -> ChannelAnnouncementWritten
      [] name = "NodeAnnouncement" -> NodeAnnouncementWritten
      [] name = "ChannelUpdate" -> ChannelUpdateWritten
      [] name = "QueryShortChannelIds" -> QueryShortChannelIdsWritten
      [] name = "ReplyShortChannelIdsEnd" -> ReplyShortChannelIdsEndWritten
      [] name = "QueryChannelRange" -> QueryChannelRangeWritten
      [] name = "ReplyChannelRange" -> ReplyChannelRangeWritten
      [] name = "GossipTimestampFilter" -> GossipTimestampFilterWritten

AddressBytes(m) == FlattenSeq([i \in DOMAIN m["addresses"] |-> serializeAddress(m["addresses"][i]).buf])

AllocatedForUpdate(m) == 2 + 64 + 32 + 8 + 4 + 1 + 1 + 2 + 8 + 4 + 4 + (IF hasHtlcMaximumMsatFlag(m) THEN 8 ELSE 0)

Allocated(name, m) ==
    CASE name = "AnnouncementSignatures" -> 2 + 32 + 8 + 64 + 64
      [] name \in {"ChannelAnnouncement", Extended} ->
            2 + 4 * 64 + 2 + Len(m["features"]) + 32 + 8 + 4 * 33
      [] name = "NodeAnnouncement" ->
            2 + 64 + 2 + Len(m["features"]) + 4 + 33 + 3 + 32 + 2 + Len(AddressBytes(m))
      [] name = "ChannelUpdate" -> AllocatedForUpdate(m)
      [] name = "Error" -> 2 + 32 + 2 + Len(m["data"])
      [] name = "Ping" -> 2 + 2 + 2 + Len(m["ignored"])
      [] name = "Pong" -> 2 + 2 + Len(m["ignored"])
      [] name = "ReplyShortChannelIdsEnd" -> 2 + 32 + 1
      [] name = "GossipTimestampFilter" -> 2 + 32 + 4 + 4
      [] OTHER -> Unlimited

IdBytes(ids) == FlattenSeq([i \in DOMAIN ids |-> shortChannelIdToBuffer(ids[i])])

writeVector(w, bs) == writeBytes(writeUIntBE(w, Num(Len(bs)), 2), bs)

WriteField(w, fd, m, encoding) ==
    LET One(b) == IF b THEN <<1>> ELSE << >>
    IN CASE fd.as = "uint"     -> writeUIntBE(w, m[fd.f], fd.n)
         [] fd.as = "bytes"    -> writeBytes(w, m[fd.f])
         [] fd.as = "scid"     -> writeBytes(w, shortChannelIdToBuffer(m[fd.f]))
         [] fd.as \in {"vector", "features"} -> writeVector(w, m[fd.f])
         [] fd.as = "none"     -> writeUIntBE(w, << >>, 2)
         [] fd.as = "flag"     -> writeUIntBE(w, One(m[fd.f]), 1)
         [] fd.as = "announce" -> writeUIntBE(w, One(isSet(m[fd.f], 0)), 1)
         [] fd.as = "maximum"  -> IF hasHtlcMaximumMsatFlag(m) THEN writeUIntBE(w, m[fd.f], 8) ELSE w
         [] fd.as = "scids"    -> writeVector(w, encode(encoding, IdBytes(m[fd.f])))
         [] fd.as = "addresses" -> writeVector(w, AddressBytes(m))

(***************************************************************************)
(* The records serialize appends.                                          *)
(***************************************************************************)
writeTlv(w, type, bs) == writeBytes(writeBigSize(writeBigSize(w, type), Num(Len(bs))), bs)

FlagBytes(m) == FlattenSeq(m["flags"])    \* flag.toBuffer(): zero has no byte

WriteTlvs(w, name, m, encoding) ==
    LET Value(width, n) == writeTUInt(BufferWriter(Unlimited), n, width)
        Options == Num((IF m["timestamps"] THEN 1 ELSE 0) + (IF m["checksums"] THEN 2 ELSE 0))
        Stamped == IF m["timestamps"] = << >> THEN w
                   ELSE writeTlv(w, <<1>>, encode(encoding, pairsToBytes(m["timestamps"])))
    IN  CASE name \in {"OpenChannel", "AcceptChannel"} /\ "upfrontShutdownScript" \in DOMAIN m ->
                writeTlv(w, << >>, m["upfrontShutdownScript"])
          [] name = "Init" /\ m["chainHashes"] # << >> -> writeTlv(w, <<1>>, FlattenSeq(m["chainHashes"]))
          [] name = "QueryChannelRange" /\ "timestamps" \in DOMAIN m /\ Options # << >> ->
                writeTlv(w, <<1>>, writeBigSize(BufferWriter(Unlimited), Options).buf)
          [] name = "QueryShortChannelIds" /\ m["flags"] # << >> ->
                writeTlv(w, <<1>>, encode(encoding, FlagBytes(m)))
          [] name = "ReplyChannelRange" ->
                IF m["checksums"] = << >> THEN Stamped
                ELSE writeTlv(Stamped, <<3>>, pairsToBytes(m["checksums"]))
          [] name = Extended ->
                writeTlv(writeTlv(w, OutpointType, Flip(m["outpoint"].txid)
                                         \o Value(2, m["outpoint"].outputIndex).buf),
                         CapacityType, Value(8, m["capacity"]).buf)
          [] OTHER -> w

Writable(name, m) ==    \* serializing an undefined address or outpoint throws
    /\ name = "NodeAnnouncement" =>
          \A i \in DOMAIN m["addresses"] : serializeAddress(m["addresses"][i]).ok
    /\ name = Extended => {"outpoint", "capacity"} \subseteq DOMAIN m

serialize(name, m, encoding) ==
    LET typed == writeUIntBE(BufferWriter(Allocated(name, m)), TypeOf(name), 2)
        Free(w) == [w EXCEPT !.buf = toBuffer(w), !.room = Unlimited]
        Rest(w) == WriteTlvs(Free(w), name, m, encoding)
    IN  IF ~Writable(name, m) THEN Refuse(BufferWriter(0))
        ELSE Rest(FoldLeft(LAMBDA w, fd : WriteField(w, fd, m, encoding), typed, Writes(name)))

(***************************************************************************)
(* The bytes the signatures are over, and those channel_update's checksum  *)
(* is over: its flags are written as Number of an object, which is zero.   *)
(***************************************************************************)
SignedFromFirst(name) == 66    \* a variant that skips one signature only

SignedFrom(name) == IF name = "ChannelAnnouncement" THEN 258 ELSE 66

signedBytes(name, m) ==
    LET Signed(bs) == SubSeq(bs, SignedFrom(name) + 1, Len(bs)) IN Signed(serialize(name, m, Raw).buf)

checksumBytes(m) ==
    LET room == AllocatedForUpdate(m) - 64 - 4
        fields == SelectSeq(ChannelUpdateWritten,
                            LAMBDA fd : fd.f \notin {"signature", "timestamp"})
        zeroed == [m EXCEPT !["messageFlags"] = << >>, !["channelFlags"] = << >>]
        typed  == writeUIntBE(BufferWriter(room), TypeOf("ChannelUpdate"), 2)
        Write(w, fd) == IF fd.as = "maximum" THEN WriteField(w, fd, m, Raw)
                        ELSE WriteField(w, fd, zeroed, Raw)
    IN  FoldLeft(Write, typed, fields)

=============================================================================
