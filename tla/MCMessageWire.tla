---------------------------- MODULE MCMessageWire ----------------------------
EXTENDS MessageWire

\* Around every limit of the codecs.
Numbers == {<< >>, <<1>>, <<252>>, <<253>>, <<255>>, <<1, 0>>, <<255, 255>>, <<1, 0, 0>>,
            <<3, 0, 0>>, <<255, 255, 255, 255>>, <<1, 0, 0, 0, 0>>,
            <<255, 255, 255, 255, 255, 255, 255, 255>>}

\* None, one or more that fit in a byte, zero alone and before another, and more than a
\* BigSize of one byte holds.
QueryFlags == {<< >>, <<<<1>>>>, <<<<31>>, <<252>>>>, <<<< >>>>, <<<< >>, <<2>>>>, <<<<253>>>>,
               <<<<253>>, <<1>>, <<2>>>>, <<<<1, 0>>>>}

Record(t, bs, ok) == [type |-> t, bytes |-> bs, canonical |-> ok]

\* Odd, even and badly written types, alone and in pairs.
OneRecord == {Record(5, <<5>>, TRUE), Record(9, <<9>>, TRUE), Record(6, <<6>>, TRUE),
              Record(253, <<253, 0, 253>>, TRUE), Record(9, <<253, 0, 9>>, FALSE)}
Extras == {<<r>> : r \in OneRecord} \cup {<<r, s>> : r, s \in OneRecord}

\* Data at the limits of each way to push it, and opcodes on either side of the pushes.
Pushed(n) == [data |-> [i \in 1 .. n |-> i % 256]]
Keys(n) == [i \in 1 .. n |-> [j \in 1 .. 33 |-> i]]
AHash(n) == [i \in 1 .. n |-> 100 + i]
Scripts == {<<Pushed(n), [op |-> 79]>> : n \in {0, 1, 75, 76, 255, 256, 520, 521}}
           \cup {p2pkhLock(AHash(20)), p2shLock(AHash(20)), p2wpkhLock(AHash(20)), p2wshLock(AHash(32)),
                 p2msLock(1, Keys(1)), p2msLock(2, Keys(3)), p2msLock(17, Keys(20)), p2msLock(2, Keys(21))}

Heights == {<<16>>, <<17>>, <<128>>, <<10, 174, 96>>}

AnInput(k, time, amount) ==
    [txid |-> [i \in 1 .. 32 |-> k], outputIndex |-> Num(256 * k), delay |-> [time |-> time, amount |-> amount]]
SomeInputs == {AnInput(0, FALSE, 144), AnInput(1, TRUE, 1000), AnInput(2, FALSE, 65536)}
ACommit == serializeCmds(p2pkhLock(AHash(20))).buf

AnOutput(value, script) == [value |-> value, scriptPubKey |-> serializeCmds(script).buf]
SomeOutputs == {AnOutput(<<1, 0>>, p2msLock(1, Keys(8))), AnOutput(<<1, 0, 0>>, p2wpkhLock(AHash(20)))}

SomeItems == {<< >>, <<1, 2>>}

StrangeBytes == {<<5, 9, 9>>, <<5, 1, 9, 9, 9, 9, 9, 9>>, <<5, 1>>, <<0>>}

=============================================================================
