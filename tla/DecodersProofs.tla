--------------------------- MODULE DecodersProofs ---------------------------
(***************************************************************************)
(* decode_datagram on every datagram, for every length of a header and of   *)
(* payloads and every number of messages: it advances, and it inverts the   *)
(* sender.                                                                  *)
(***************************************************************************)
EXTENDS Decoders, NetlinkProofs, FiniteSetTheorems

\* The lengths that the headers of messages declare.
LengthsOf(messages) == [i \in DOMAIN messages |-> messages[i].length]

\* The messages lie in a datagram one after another.
Holds(b, messages) ==
  BytesOK(b) /\ \E start : Laid(b, Len(messages), messages, LengthsOf(messages), start)

\* The inductive invariant: the bytes are the messages that were sent, or a
\* part of such a datagram, or have one length that is wrong.
Inv ==
  /\ BytesOK(bytes)
  /\ sent \in Seq(Messages)
  /\ damage \in {None, "cut", "length"}
  /\ damage = None => Holds(bytes, sent)
  /\ damage = "cut" => \E b : Holds(b, sent) /\ \E size \in 0 .. b.size : bytes = CutAt(b, size)

\* The empty datagram.
LEMMA InitInv == Init => Inv
<1> SUFFICES ASSUME Init PROVE Inv
  OBVIOUS
<1>1. sent = << >> /\ bytes = NoBytes /\ damage = None
  BY DEF Init
<1>2. BytesOK(NoBytes)
  BY NoBytesOK
<1>3. << >> \in Seq(Messages) /\ Len(<< >>) = 0
  BY EmptySeq
<1> DEFINE start == [i \in 1 .. 1 |-> 0]
<1>4. Laid(NoBytes, 0, << >>, LengthsOf(<< >>), start)
  <2>1. start[1] = 0 /\ Aligned(0) = 0 /\ 0 + 1 = 1 /\ NoBytes.size = 0
    BY DEF Aligned, NoBytes
  <2> HIDE DEF start
  <2>2. QED
    BY <2>1 DEF Laid, LaidEnd
<1>5. Holds(NoBytes, << >>)
  BY <1>2, <1>3, <1>4 DEF Holds
<1>6. damage # "cut"
  BY <1>1, NoneAssumption
<1>7. QED
  BY <1>1, <1>2, <1>3, <1>5, <1>6 DEF Inv

\* Writing a message appends it to the framed ones.
LEMMA WriteInv ==
  ASSUME Inv, NEW payload \in Payloads, Write(payload)
  PROVE  Inv'
<1> DEFINE length == NETLINK_HEADER_LENGTH + payload
           message == [id |-> Len(sent) + 1, length |-> length]
           n == Len(sent)
<1>1. /\ damage = None /\ damage' = None
      /\ sent' = Append(sent, message) /\ bytes' = Put(bytes, length, message)
  BY DEF Write
<1>2. sent \in Seq(Messages) /\ n \in Nat /\ DOMAIN sent = 1 .. n
      /\ \A i \in 1 .. n : sent[i] \in Messages
  BY LenProperties, ElementOfSeq DEF Inv
<1>3. length \in Nat /\ length >= NETLINK_HEADER_LENGTH
  BY HeaderAssumption, PayloadsAssumption
<1>4. message \in Messages
  BY <1>2, <1>3 DEF Messages
<1> HIDE DEF message
<1>5. /\ sent' \in Seq(Messages) /\ Len(sent') = n + 1 /\ DOMAIN sent' = 1 .. n + 1
      /\ \A i \in 1 .. n : sent'[i] = sent[i]
      /\ sent'[n + 1] = message
  BY <1>1, <1>2, <1>4, AppendProperties, LenProperties
<1>6. BytesOK(bytes) /\ Holds(bytes, sent)
  BY <1>1 DEF Inv
<1>7. PICK start : Laid(bytes, n, sent, LengthsOf(sent), start)
  BY <1>6 DEF Holds
<1>8. \A i \in 1 .. n : LengthsOf(sent')[i] = LengthsOf(sent)[i]
  BY <1>2, <1>5 DEF LengthsOf
<1>9. LengthsOf(sent')[n + 1] = length
  BY <1>2, <1>5 DEF LengthsOf, message
<1>10. Laid(bytes, n, sent', LengthsOf(sent'), start)
  BY <1>2, <1>5, <1>7, <1>8, LaidCongruence
<1>11. \E s : Laid(bytes', n + 1, sent', LengthsOf(sent'), s)
  BY <1>1, <1>2, <1>3, <1>5, <1>6, <1>9, <1>10, LaidPut
<1>12. BytesOK(bytes')
  BY <1>1, <1>3, <1>6, PutOK
<1>13. BytesOK(bytes)' /\ Holds(bytes, sent)'
  BY <1>5, <1>11, <1>12 DEF Holds, BytesOK, Header, Laid, LaidAt, LaidEnd, LengthsOf
<1>14. damage' # "cut"
  BY <1>1, NoneAssumption
<1>15. QED
  BY <1>1, <1>5, <1>13, <1>14 DEF Inv


\* Padding the last message moves no message.
LEMMA PadInv ==
  ASSUME Inv, Pad
  PROVE  Inv'
<1>1. damage = None /\ damage' = None /\ sent' = sent
  BY DEF Pad
<1>2. BytesOK(bytes) /\ Holds(bytes, sent) /\ sent \in Seq(Messages)
  BY <1>1 DEF Inv
<1>3. /\ bytes'.size = Aligned(bytes.size) /\ bytes'.at = bytes.at
      /\ bytes' = [size |-> bytes'.size, at |-> bytes'.at]
  BY <1>2 DEF Pad, BytesOK
<1>4. bytes.size \in Nat /\ Aligned(bytes.size) \in Nat
  BY <1>2, AlignedFact DEF BytesOK
<1>5. BytesOK(bytes')
  BY <1>2, <1>3, <1>4, PadStarts DEF BytesOK
<1>6. PICK start : Laid(bytes, Len(sent), sent, LengthsOf(sent), start)
  BY <1>2 DEF Holds
<1>7. Len(sent) \in Nat
  BY <1>2, LenProperties
<1>8. Laid(bytes', Len(sent), sent, LengthsOf(sent), start)
  BY <1>2, <1>3, <1>6, <1>7, LaidPad
<1>9. Holds(bytes', sent')
  BY <1>1, <1>5, <1>8 DEF Holds
<1>10. damage' # "cut"
  BY <1>1, NoneAssumption
<1>11. QED
  BY <1>1, <1>2, <1>5, <1>9, <1>10 DEF Inv, Holds, BytesOK, Header, Laid, LaidAt, LaidEnd, LengthsOf

\* A cut keeps the headers before it and ends the writing.
LEMMA CutInv ==
  ASSUME Inv, NEW size \in 0 .. bytes.size, Cut(size)
  PROVE  Inv'
<1>1. damage = None /\ damage' = "cut" /\ sent' = sent /\ bytes' = CutAt(bytes, size)
  BY DEF Cut
<1>2. BytesOK(bytes) /\ Holds(bytes, sent) /\ sent \in Seq(Messages)
  BY <1>1 DEF Inv
<1>3. BytesOK(bytes')
  BY <1>1, <1>2, CutOK
<1>4. \E b : Holds(b, sent') /\ \E s \in 0 .. b.size : bytes' = CutAt(b, s)
  BY <1>1, <1>2
<1>5. damage' # None
  BY <1>1, NoneAssumption
<1>6. QED
  BY <1>1, <1>2, <1>3, <1>4, <1>5
  DEF Inv, Holds, BytesOK, Header, Laid, LaidAt, LaidEnd, LengthsOf, CutAt

\* A wrong length changes one header, at an offset that exists.
LEMMA MisdeclareInv ==
  ASSUME Inv, NEW offset \in DOMAIN bytes.at, NEW length \in 0 .. bytes.size + 4,
         Misdeclare(offset, length)
  PROVE  Inv'
<1>1. damage' = "length" /\ sent' = sent
  BY DEF Misdeclare
<1>2. BytesOK(bytes) /\ sent \in Seq(Messages)
  BY DEF Inv
<1>3. offset \in Starts(bytes.size) /\ length \in Nat /\ bytes.size \in Nat
  BY <1>2 DEF BytesOK
<1>4. PICK message :
        bytes' = [bytes EXCEPT !.at[offset] = [length |-> length, message |-> message]]
  BY DEF Misdeclare
<1>5. /\ bytes'.size = bytes.size
      /\ bytes'.at = [bytes.at EXCEPT ![offset] = [length |-> length, message |-> message]]
      /\ bytes' = [size |-> bytes'.size, at |-> bytes'.at]
  BY <1>2, <1>4 DEF BytesOK
<1>6. /\ bytes'.at = [o \in Starts(bytes.size) |-> bytes'.at[o]]
      /\ \A o \in Starts(bytes.size) :
           bytes'.at[o] = IF o = offset THEN [length |-> length, message |-> message]
                          ELSE bytes.at[o]
  BY <1>2, <1>3, <1>5 DEF BytesOK
<1>7. \A o \in Starts(bytes.size) : Header(bytes'.at[o])
  BY <1>2, <1>3, <1>6 DEF BytesOK, Header
<1>8. BytesOK(bytes')
  BY <1>3, <1>5, <1>6, <1>7 DEF BytesOK
<1>9. damage' # None /\ damage' # "cut"
  BY <1>1, NoneAssumption
<1>10. QED
  BY <1>1, <1>2, <1>8, <1>9 DEF Inv, BytesOK, Header

\* Describing attributes leaves the datagram alone, and so does a stutter.
LEMMA UnchangedInv ==
  ASSUME Inv, UNCHANGED <<sent, bytes, damage>>
  PROVE  Inv'
<1>1. sent' = sent /\ bytes' = bytes /\ damage' = damage
  OBVIOUS
<1>2. damage' = None => Holds(bytes', sent')
  BY <1>1 DEF Inv
<1>3. damage' = "cut" =>
        \E b : Holds(b, sent') /\ \E size \in 0 .. b.size : bytes' = CutAt(b, size)
  BY <1>1 DEF Inv
<1>4. BytesOK(bytes') /\ sent' \in Seq(Messages) /\ damage' \in {None, "cut", "length"}
  BY <1>1 DEF Inv
<1>5. QED
  BY <1>2, <1>3, <1>4
  DEF Inv, Holds, BytesOK, Header, Laid, LaidAt, LaidEnd, LengthsOf, CutAt

\* Every step preserves the invariant.
LEMMA InvInductive == Inv /\ [Next]_vars => Inv'
<1> SUFFICES ASSUME Inv, [Next]_vars PROVE Inv'
  OBVIOUS
<1>1. CASE \E payload \in Payloads : Write(payload)
  BY <1>1, WriteInv
<1>2. CASE Pad
  BY <1>2, PadInv
<1>3. CASE \E size \in 0 .. bytes.size : Cut(size)
  BY <1>3, CutInv
<1>4. CASE \E offset \in DOMAIN bytes.at, length \in 0 .. bytes.size + 4 :
             Misdeclare(offset, length)
  BY <1>4, MisdeclareInv
<1>5. CASE UNCHANGED <<sent, bytes, damage>>
  BY <1>5, UnchangedInv
<1>6. QED
  BY <1>1, <1>2, <1>3, <1>4, <1>5 DEF Next, Describe, vars

\* The datagrams of a sender and the damaged ones, in every state.
THEOREM DatagramInvariance == Spec => []Inv
BY InitInv, InvInductive, PTL DEF Spec

\* In every datagram a sender can frame, and in every damaged one, the loop of
\* decode_datagram moves on by at least a header and never past the end.
THEOREM AdvanceTheorem == Spec => []DecodeAdvances
<1>1. Inv => DecodeAdvances
  <2> SUFFICES ASSUME Inv, NEW offset \in DOMAIN bytes.at, MessageAt(bytes, offset) # None
               PROVE  MessageAt(bytes, offset).next
                        \in offset + NETLINK_HEADER_LENGTH .. bytes.size
    BY DEF DecodeAdvances
  <2>1. bytes.size \in Nat /\ offset \in Starts(bytes.size)
    BY DEF Inv, BytesOK
  <2>2. offset \in 0 .. bytes.size
    BY <2>1 DEF Starts
  <2>3. QED
    BY <2>1, <2>2, MessageAtAdvances
<1>2. QED
  BY <1>1, DatagramInvariance, PTL

-----------------------------------------------------------------------------

\* The messages before a cut occupy the bytes before it.
LEMMA PrefixOccupies ==
  ASSUME NEW b, NEW messages \in Seq(Messages), NEW start, BytesOK(b),
         Laid(b, Len(messages), messages, LengthsOf(messages), start),
         NEW k \in 0 .. Len(messages), NEW size,
         EndsAfter(size, k, LengthsOf(messages), start)
  PROVE  size \in {Occupied(SubSeq(messages, 1, k)), Aligned(Occupied(SubSeq(messages, 1, k)))}
<1> DEFINE n == Len(messages)
           part == SubSeq(messages, 1, k)
           l == LengthsOf(messages)
<1>1. n \in Nat /\ DOMAIN messages = 1 .. n /\ \A i \in 1 .. n : messages[i] \in Messages
  BY LenProperties, ElementOfSeq
<1>2. k \in Nat /\ 1 .. k \subseteq 1 .. n
  BY <1>1
<1>3. part \in Seq(Messages) /\ Len(part) = k /\ DOMAIN part = 1 .. k
      /\ \A i \in 1 .. k : part[i] = messages[i]
  <2>1. \A i \in 1 .. k : messages[i] \in Messages
    BY <1>1, <1>2
  <2>2. /\ part \in Seq(Messages) /\ Len(part) = (IF 1 <= k THEN k - 1 + 1 ELSE 0)
        /\ \A i \in 1 .. k - 1 + 1 : part[i] = messages[1 + i - 1]
    BY <1>2, <2>1, SubSeqProperties
  <2>3. Len(part) = k /\ \A i \in 1 .. k : part[i] = messages[i]
    BY <1>2, <2>2
  <2>4. QED
    BY <2>2, <2>3, LenProperties
<1> HIDE DEF part
<1>4. LengthsOf(part) = [i \in DOMAIN part |-> part[i].length]
      /\ \A i \in 1 .. k : LengthsOf(part)[i] = l[i]
  BY <1>1, <1>2, <1>3 DEF LengthsOf
<1>5. b.size \in Nat
  BY DEF BytesOK
<1>6. \A i \in 1 .. k : /\ l[i] \in Nat
                        /\ start[i] \in Nat /\ start[i] % 4 = 0
                        /\ start[i + 1] = start[i] + Aligned(l[i])
  <2> SUFFICES ASSUME NEW i \in 1 .. k
               PROVE  /\ l[i] \in Nat
                      /\ start[i] \in Nat /\ start[i] % 4 = 0
                      /\ start[i + 1] = start[i] + Aligned(l[i])
    OBVIOUS
  <2>1. LaidAt(b, i, messages, l, start)
    BY <1>2 DEF Laid
  <2>2. QED
    BY <1>5, <2>1 DEF LaidAt, Starts
<1>7. start[1] = 0
  BY DEF Laid
<1>8. Occupied(part) = IF k = 0 THEN 0 ELSE start[k] + l[k]
  <2>1. \A i \in 1 .. Len(part) : /\ LengthsOf(part)[i] \in Nat
                                  /\ start[i] \in Nat /\ start[i] % 4 = 0
                                  /\ start[i + 1] = start[i] + Aligned(LengthsOf(part)[i])
    BY <1>3, <1>4, <1>6
  <2>2. Frame(part, LengthsOf(part)).size =
          IF k = 0 THEN 0 ELSE start[k] + LengthsOf(part)[k]
    BY <1>2, <1>3, <1>7, <2>1, FrameSize
  <2>3. k # 0 => k \in 1 .. k
    BY <1>2
  <2>4. QED
    BY <1>4, <2>2, <2>3 DEF Occupied
<1> HIDE DEF l
<1>9. CASE k = 0
  BY <1>7, <1>8, <1>9 DEF EndsAfter, Aligned, l, part
<1>10. CASE k # 0
  <2>1. k \in 1 .. k
    BY <1>2, <1>10
  <2>2. Aligned(start[k] + l[k]) = start[k + 1]
    BY <1>6, <2>1, AlignedSum
  <2>3. size = start[k + 1] \/ size = start[k] + l[k]
    BY DEF EndsAfter, l
  <2>4. QED
    BY <1>8, <1>10, <2>2, <2>3 DEF part
<1>11. QED
  BY <1>9, <1>10

\* decode_datagram returns what a sender framed, and what it returns of a
\* datagram that was cut is the messages before the cut.
THEOREM FramingTheorem == Spec => []FramingIsExact
<1>1. Inv => FramingIsExact
  <2> SUFFICES ASSUME Inv PROVE FramingIsExact
    OBVIOUS
  <2>1. NoneApart(Messages) /\ sent \in Seq(Messages)
    BY NoneAssumption DEF NoneApart, Inv
  <2>2. ASSUME damage = None PROVE DecodeDatagram(bytes) = sent
    <3>1. PICK start : BytesOK(bytes) /\ Laid(bytes, Len(sent), sent, LengthsOf(sent), start)
      BY <2>2 DEF Inv, Holds
    <3>2. QED
      BY <2>1, <3>1, RoundTrip
  <2>3. ASSUME damage = "cut", DecodeDatagram(bytes) # None
        PROVE  /\ IsPrefix(DecodeDatagram(bytes), sent)
               /\ bytes.size \in {Occupied(DecodeDatagram(bytes)),
                                  Aligned(Occupied(DecodeDatagram(bytes)))}
    <3>1. PICK b : Holds(b, sent) /\ \E size \in 0 .. b.size : bytes = CutAt(b, size)
      BY <2>3 DEF Inv
    <3>2. PICK size \in 0 .. b.size : bytes = CutAt(b, size)
      BY <3>1
    <3>3. PICK start : BytesOK(b) /\ Laid(b, Len(sent), sent, LengthsOf(sent), start)
      BY <3>1 DEF Holds
    <3>4. PICK k \in 0 .. Len(sent) : /\ DecodeDatagram(bytes) = SubSeq(sent, 1, k)
                                      /\ EndsAfter(size, k, LengthsOf(sent), start)
      BY <2>1, <2>3, <3>2, <3>3, CutTrip
    <3>5. bytes.size = size
      BY <3>2 DEF CutAt
    <3>6. bytes.size \in {Occupied(DecodeDatagram(bytes)),
                          Aligned(Occupied(DecodeDatagram(bytes)))}
      BY <2>1, <3>3, <3>4, <3>5, PrefixOccupies
    <3>7. IsPrefix(SubSeq(sent, 1, k), sent)
      <4>1. k \in Nat /\ k <= Len(sent) /\ \A i \in 1 .. k : sent[i] \in Messages
        BY <2>1, LenProperties, ElementOfSeq
      <4>2. SubSeq(sent, 1, k) \in Seq(Messages) /\ Len(SubSeq(sent, 1, k)) = k
        <5>1. /\ SubSeq(sent, 1, k) \in Seq(Messages)
              /\ Len(SubSeq(sent, 1, k)) = (IF 1 <= k THEN k - 1 + 1 ELSE 0)
          BY <4>1, SubSeqProperties
        <5>2. QED
          BY <4>1, <5>1
      <4>3. SubSeq(SubSeq(sent, 1, k), 1, k) = SubSeq(sent, 1, k)
        BY <4>2, SubSeqFull
      <4>4. QED
        BY <4>1, <4>2, <4>3 DEF IsPrefix
    <3>8. QED
      BY <3>4, <3>6, <3>7
  <2>4. QED
    BY <2>2, <2>3 DEF FramingIsExact
<1>2. QED
  BY <1>1, DatagramInvariance, PTL


-----------------------------------------------------------------------------
(***************************************************************************)
(* decode_link.                                                            *)
(***************************************************************************)

\* A slot and the attributes of its type: none and no value, one and its
\* value, or more and an error.
LEMMA SlotCount ==
  ASSUME NEW list, Len(list) \in Nat, DOMAIN list = 1 .. Len(list), NEW types,
         Telling(list, Len(list), types), NEW type \in types, NEW slot,
         SlotIs(slot, list, Len(list), type)
  PROVE  \/ slot = None /\ Occurrences(list, type) = 0 /\ ValuesOf(list, type) = {}
         \/ /\ slot \notin {None, Duplicate}
            /\ Occurrences(list, type) = 1 /\ ValuesOf(list, type) = {slot}
         \/ slot = Duplicate /\ Occurrences(list, type) \in Nat /\ Occurrences(list, type) > 1
<1> DEFINE n == Len(list)
           T == {i \in DOMAIN list : list[i].type = type}
<1>1. Occurrences(list, type) = Cardinality(T) /\ ValuesOf(list, type) = {list[i].value : i \in T}
  BY DEF Occurrences, ValuesOf
<1>2. IsFiniteSet(1 .. n)
  BY FS_Interval
<1>3. IsFiniteSet(T)
  BY <1>2, FS_Subset
<1>4. CASE slot = None /\ \A i \in 1 .. n : list[i].type # type
  <2>1. T = {}
    BY <1>4
  <2>2. QED
    BY <1>1, <1>4, <2>1, FS_EmptySet
<1>5. ASSUME NEW i \in 1 .. n, OnlyAt(list, n, i, type), slot = list[i].value
      PROVE  /\ slot \notin {None, Duplicate}
             /\ Occurrences(list, type) = 1 /\ ValuesOf(list, type) = {slot}
  <2>1. T = {i}
    BY <1>5 DEF OnlyAt
  <2>2. slot \notin {None, Duplicate}
    BY <1>5 DEF OnlyAt, Telling
  <2> HIDE DEF T
  <2>3. Cardinality(T) = 1
    BY <2>1, FS_Singleton
  <2>4. {list[k].value : k \in T} = {slot}
    BY <1>5, <2>1
  <2>5. QED
    BY <1>1, <2>2, <2>3, <2>4
<1>6. ASSUME slot = Duplicate,
             NEW i \in 1 .. n, NEW j \in 1 .. n, i # j, list[i].type = type, list[j].type = type
      PROVE  Occurrences(list, type) \in Nat /\ Occurrences(list, type) > 1
  <2>1. i \in T /\ j \in T
    BY <1>6
  <2> HIDE DEF T
  <2>2. Cardinality(T) \in Nat
    BY <1>3, FS_CardinalityType
  <2>3. Cardinality(T) # 0
    BY <1>3, <2>1, FS_EmptySet
  <2>4. Cardinality(T) # 1
    <3>1. ~ \E x : T = {x}
      BY <1>6, <2>1
    <3>2. QED
      BY <1>3, <3>1, FS_Singleton
  <2>5. QED
    BY <1>1, <2>2, <2>3, <2>4
<1>7. QED
  BY <1>4, <1>5, <1>6 DEF SlotIs

\* The right-hand side of the definition of FlattenSeq.
Flattened(seqs, f, i) == IF i = 1 THEN seqs[i] ELSE f[i - 1] \o seqs[i]

\* FlattenSeq is well defined, and lists the elements of lists.
LEMMA FlattenFact ==
  ASSUME NEW S, NEW seqs \in Seq(Seq(S))
  PROVE  FlattenSeq(seqs) \in Seq(S)
<1> DEFINE n == Len(seqs)
           Solves(f, k) == f = [i \in 1 .. k |-> Flattened(seqs, f, i)]
           T == {k \in 0 .. n : \E f : Solves(f, k)}
<1>1. n \in Nat /\ \A i \in 1 .. n : seqs[i] \in Seq(S)
  BY LenProperties, ElementOfSeq
<1>2. CASE n = 0
  <2>1. seqs = << >>
    BY <1>2, EmptySeq
  <2>2. FlattenSeq(seqs) = << >>
    BY <1>2, <2>1 DEF FlattenSeq
  <2>3. QED
    BY <2>2, EmptySeq
<1>3. CASE n # 0
  <2>1. 0 \in T
    <3> DEFINE f == [i \in 1 .. 0 |-> << >>]
    <3>1. 1 .. 0 = {}
      OBVIOUS
    <3>2. Solves(f, 0)
      BY <3>1
    <3>3. 0 \in 0 .. n
      BY <1>1
    <3>4. QED
      BY <3>2, <3>3
  <2>2. ASSUME NEW k \in 0 .. n - 1, k \in T PROVE k + 1 \in T
    <3>1. PICK f : Solves(f, k)
      BY <2>2
    <3> DEFINE g == [i \in 1 .. k + 1 |-> IF i = k + 1 THEN Flattened(seqs, f, i) ELSE f[i]]
    <3>2. ASSUME NEW i \in 1 .. k + 1 PROVE g[i] = Flattened(seqs, g, i)
      <4>1. i = 1 \/ g[i - 1] = f[i - 1]
        OBVIOUS
      <4>2. Flattened(seqs, f, i) = Flattened(seqs, g, i)
        BY <4>1 DEF Flattened
      <4>3. i # k + 1 => f[i] = Flattened(seqs, f, i)
        <5>1. i # k + 1 => i \in 1 .. k
          OBVIOUS
        <5>2. QED
          BY <3>1, <5>1
      <4>4. QED
        BY <4>2, <4>3
    <3>3. g = [i \in 1 .. k + 1 |-> g[i]]
      OBVIOUS
    <3> HIDE DEF g
    <3>4. g = [i \in 1 .. k + 1 |-> Flattened(seqs, g, i)]
      BY <3>2, <3>3
    <3>5. k + 1 \in 0 .. n
      BY <1>1
    <3>6. QED
      BY <3>4, <3>5
  <2>3. \A k \in 0 .. n : k \in T
    <3> HIDE DEF T
    <3>1. QED
      BY <1>1, <2>1, <2>2, UpTo
  <2>4. \E f : f = [i \in 1 .. n |-> Flattened(seqs, f, i)]
    <3>0. n \in 0 .. n
      BY <1>1
    <3>1. n \in T
      BY <2>3, <3>0
    <3>2. QED
      BY <3>1
  <2> DEFINE f == CHOOSE f : f = [i \in 1 .. n |-> Flattened(seqs, f, i)]
  <2>5. f = [i \in 1 .. n |-> Flattened(seqs, f, i)]
    BY <2>4
  <2>6. FlattenSeq(seqs) = f[n]
    BY <1>3 DEF FlattenSeq, Flattened
  <2> HIDE DEF f
  <2> DEFINE U == {k \in 0 .. n : k = 0 \/ f[k] \in Seq(S)}
  <2>7. 0 \in U
    BY <1>1
  <2>8. ASSUME NEW k \in 0 .. n - 1, k \in U PROVE k + 1 \in U
    <3>1. k + 1 \in 1 .. n /\ k + 1 \in 0 .. n /\ (k + 1) - 1 = k
      BY <1>1
    <3>2. f[k + 1] = Flattened(seqs, f, k + 1)
      BY <2>5, <3>1
    <3>3. seqs[k + 1] \in Seq(S)
      BY <1>1, <3>1
    <3>4. CASE k = 0
      BY <3>1, <3>2, <3>3, <3>4 DEF Flattened
    <3>5. CASE k # 0
      <4>1. f[k] \in Seq(S) /\ f[k + 1] = f[k] \o seqs[k + 1]
        <5>1. f[k] \in Seq(S)
          BY <2>8, <3>5
        <5>2. k + 1 # 1
          BY <1>1, <3>5
        <5>3. QED
          BY <3>1, <3>2, <5>1, <5>2 DEF Flattened
      <4>2. f[k + 1] \in Seq(S)
        BY <3>3, <4>1, ConcatProperties
      <4>3. QED
        BY <3>1, <4>2
    <3>6. QED
      BY <3>4, <3>5
  <2>9. \A k \in 0 .. n : k \in U
    <3> HIDE DEF U
    <3>1. QED
      BY <1>1, <2>7, <2>8, UpTo
  <2>10. f[n] \in Seq(S)
    BY <1>1, <1>3, <2>9
  <2>11. QED
    BY <2>6, <2>10
<1>4. QED
  BY <1>2, <1>3


\* The lists that a VXLAN's data carry.
LinkLists == {<< >>, <<1>>, <<1, 1>>} \cup {<<i>> : i \in Indexes}

\* An info that a link message can carry.
IsInfo(info) ==
  info.type = "Data" => \E links \in LinkLists : \E kind : info = Data(kind, links)

\* The infos that occur in a LinkInfo attribute.
InfoSet == {info \in UNION {{infos[i] : i \in DOMAIN infos} : infos \in InfoLists} : IsInfo(info)}

\* An info of a list that the kernel sends is an element of InfoSet.
LEMMA InfoElement ==
  ASSUME NEW list \in InfoLists, NEW i \in DOMAIN list, IsInfo(list[i])
  PROVE  list[i] \in InfoSet
BY DEF InfoSet

\* So such a list is a sequence over InfoSet.
LEMMA InfoShape ==
  ASSUME NEW list \in InfoLists
  PROVE  list \in Seq(InfoSet)
<1>1. ASSUME NEW kind, list = <<Attribute("Kind", kind)>> PROVE list \in Seq(InfoSet)
  <2>1. Len(list) = 1 /\ DOMAIN list = {1} /\ list[1] = Attribute("Kind", kind)
    BY <1>1
  <2>2. IsInfo(list[1])
    BY <2>1 DEF IsInfo, Attribute
  <2>3. list[1] \in InfoSet
    BY <2>1, <2>2, InfoElement
  <2>4. QED
    BY <1>1, <2>1, <2>3
<1>2. ASSUME NEW kind, NEW links \in LinkLists, list = <<Data(kind, links)>>
      PROVE  list \in Seq(InfoSet)
  <2>1. Len(list) = 1 /\ DOMAIN list = {1} /\ list[1] = Data(kind, links)
    BY <1>2
  <2>2. IsInfo(list[1])
    BY <2>1 DEF IsInfo
  <2>3. list[1] \in InfoSet
    BY <2>1, <2>2, InfoElement
  <2>4. QED
    BY <1>2, <2>1, <2>3
<1>3. ASSUME NEW a, NEW b, list = <<a, b>>, IsInfo(a), IsInfo(b)
      PROVE  list \in Seq(InfoSet)
  <2>1. DOMAIN list = {1, 2} /\ list[1] = a /\ list[2] = b
    BY <1>3
  <2>2. a \in InfoSet /\ b \in InfoSet
    BY <1>3, <2>1, InfoElement
  <2>3. QED
    BY <1>3, <2>2
<1>4. ASSUME NEW a, NEW b, NEW c, list = <<a, b, c>>, IsInfo(a), IsInfo(b), IsInfo(c)
      PROVE  list \in Seq(InfoSet)
  <2>1. DOMAIN list = {1, 2, 3} /\ list[1] = a /\ list[2] = b /\ list[3] = c
    BY <1>4
  <2>2. a \in InfoSet /\ b \in InfoSet /\ c \in InfoSet
    BY <1>4, <2>1, InfoElement
  <2>3. QED
    BY <1>4, <2>2
<1>5. /\ \A kind : IsInfo(Attribute("Kind", kind))
      /\ \A links \in LinkLists : \A kind : IsInfo(Data(kind, links))
      /\ IsInfo(Attribute("Statistics", 0))
  <2>1. /\ \A kind : IsInfo(Attribute("Kind", kind))
        /\ IsInfo(Attribute("Statistics", 0))
    BY DEF IsInfo, Attribute
  <2>2. \A links \in LinkLists : \A kind : IsInfo(Data(kind, links))
    BY DEF IsInfo
  <2>3. QED
    BY <2>1, <2>2
<1>6. << >> \in LinkLists /\ <<1>> \in LinkLists /\ <<1, 1>> \in LinkLists
      /\ \A i \in Indexes : <<i>> \in LinkLists
  BY DEF LinkLists
<1>7. \/ \E kind : list = <<Attribute("Kind", kind)>>
      \/ \E kind : list = <<Attribute("Kind", kind), Data(kind, << >>)>>
      \/ \E links \in {<<i>> : i \in Indexes} \cup {<<1, 1>>} : list = <<Data("Vxlan", links)>>
      \/ list = <<Data("Vxlan", <<1>>), Attribute("Kind", "Vxlan")>>
      \/ list = <<Attribute("Kind", "Vxlan"), Data("Vxlan", <<1>>), Attribute("Statistics", 0)>>
      \/ list = <<Attribute("Kind", "Vlan"), Attribute("Kind", "Vlan")>>
  <2> DEFINE Kinds == UNION {{<<Attribute("Kind", kind)>>,
                              <<Attribute("Kind", kind), Data(kind, << >>)>>}
                               : kind \in KindsSent}
             Vxlans == {<<Data("Vxlan", links)>> : links \in {<<i>> : i \in Indexes} \cup {<<1, 1>>}}
             Others == {<<Data("Vxlan", <<1>>), Attribute("Kind", "Vxlan")>>,
        <<Attribute("Kind", "Vxlan"), Data("Vxlan", <<1>>), Attribute("Statistics", 0)>>,
        <<Attribute("Kind", "Vlan"), Attribute("Kind", "Vlan")>>}
  <2>1. InfoLists = Kinds \cup Vxlans \cup Others
    BY Zenon DEF InfoLists
  <2> HIDE DEF Kinds, Vxlans, Others
  <2>2. list \in Kinds \/ list \in Vxlans \/ list \in Others
    BY <2>1
  <2>3. CASE list \in Kinds
    BY <2>3 DEF Kinds
  <2>4. CASE list \in Vxlans
    BY <2>4, Zenon DEF Vxlans
  <2>5. CASE list \in Others
    BY <2>5, Zenon DEF Others
  <2>6. QED
    BY <2>2, <2>3, <2>4, <2>5
<1>8. CASE \E kind : list = <<Attribute("Kind", kind)>>
  BY <1>1, <1>8
<1>9. CASE \E kind : list = <<Attribute("Kind", kind), Data(kind, << >>)>>
  BY <1>3, <1>5, <1>6, <1>9
<1>10. CASE \E links \in {<<i>> : i \in Indexes} \cup {<<1, 1>>} : list = <<Data("Vxlan", links)>>
  BY <1>2, <1>6, <1>10
<1>11. CASE list = <<Data("Vxlan", <<1>>), Attribute("Kind", "Vxlan")>>
  BY <1>3, <1>5, <1>6, <1>11
<1>12. CASE list = <<Attribute("Kind", "Vxlan"), Data("Vxlan", <<1>>), Attribute("Statistics", 0)>>
  BY <1>4, <1>5, <1>6, <1>12
<1>13. CASE list = <<Attribute("Kind", "Vlan"), Attribute("Kind", "Vlan")>>
  BY <1>3, <1>5, <1>13
<1>14. QED
  BY <1>7, <1>8, <1>9, <1>10, <1>11, <1>12, <1>13

\* The infos of a message.
LEMMA InfosFact ==
  ASSUME NEW list \in Seq(Attributes)
  PROVE  Infos(list) \in Seq(InfoSet)
<1> DEFINE seqs == [i \in DOMAIN list |-> IF list[i].type = "LinkInfo" THEN list[i].value
                                          ELSE << >>]
<1>1. DOMAIN list = 1 .. Len(list) /\ Len(list) \in Nat
      /\ \A i \in 1 .. Len(list) : list[i] \in Attributes
  BY LenProperties, ElementOfSeq
<1>2. \A a \in Attributes : a.type = "LinkInfo" => a.value \in InfoLists
  BY DEF Attributes, Attribute
<1>3. \A i \in 1 .. Len(list) : seqs[i] \in Seq(InfoSet)
  BY <1>1, <1>2, InfoShape, EmptySeq
<1>4. seqs \in Seq(Seq(InfoSet))
  BY <1>1, <1>3
<1>5. Infos(list) = FlattenSeq(seqs)
  BY DEF Infos
<1> HIDE DEF seqs
<1>6. QED
  BY <1>4, <1>5, FlattenFact

\* The values of attributes.
LEMMA AttributeFact ==
  ASSUME NEW a \in Attributes
  PROVE  /\ a.value \notin {None, Duplicate}
         /\ a.type = "IfName" => a.value \in {"a", "b"}
         /\ a.type \in {"Controller", "Link"} => a.value \in Indexes
         /\ a.type = "LinkNetNsId" => a.value = 0
<1>1. a.value \notin {None, Duplicate}
  BY ValuesAssumption
<1>2. /\ a.type = "IfName" => a.value \in {"a", "b"}
      /\ a.type \in {"Controller", "Link"} => a.value \in Indexes
      /\ a.type = "LinkNetNsId" => a.value = 0
  BY DEF Attributes, Attribute
<1>3. QED
  BY <1>1, <1>2

\* The values of infos, and of the attributes in data.
LEMMA InfoFact ==
  ASSUME NEW info \in InfoSet
  PROVE  /\ info.value \notin {None, Duplicate}
         /\ info.type = "Data" =>
              LET under == info.value.attributes
              IN /\ Len(under) \in Nat /\ DOMAIN under = 1 .. Len(under)
                 /\ \A i \in DOMAIN under : /\ under[i].value \in Indexes \cup {1}
                                            /\ under[i].value \notin {None, Duplicate}
<1>1. info.value \notin {None, Duplicate}
  BY ValuesAssumption DEF InfoSet
<1>2. ASSUME info.type = "Data"
      PROVE  LET under == info.value.attributes
             IN /\ Len(under) \in Nat /\ DOMAIN under = 1 .. Len(under)
                /\ \A i \in DOMAIN under : /\ under[i].value \in Indexes \cup {1}
                                           /\ under[i].value \notin {None, Duplicate}
  <2>1. PICK links \in LinkLists : \E kind : info = Data(kind, links)
    BY <1>2 DEF InfoSet, IsInfo
  <2>2. links \in Seq(Indexes \cup {1})
    <3>1. CASE links = << >>
      BY <3>1, EmptySeq
    <3>2. CASE \E i \in Indexes \cup {1} : links = <<i>>
      BY <3>2, OneFact
    <3>3. CASE links = <<1, 1>>
      BY <3>3
    <3>4. QED
      BY <3>1, <3>2, <3>3 DEF LinkLists
  <2>3. info.value.attributes = [i \in DOMAIN links |-> Attribute("Link", links[i])]
    BY <2>1 DEF Data, Attribute
  <2>4. /\ DOMAIN links = 1 .. Len(links) /\ Len(links) \in Nat
        /\ \A i \in 1 .. Len(links) : links[i] \in Indexes \cup {1}
    BY <2>2, LenProperties, ElementOfSeq
  <2>5. \A i \in Indexes \cup {1} : i \notin {None, Duplicate}
    BY ValuesAssumption
  <2> DEFINE under == info.value.attributes
  <2>6. /\ DOMAIN under = 1 .. Len(links)
        /\ \A i \in 1 .. Len(links) : under[i].value = links[i]
    BY <2>3, <2>4 DEF Attribute
  <2>7. Len(under) = Len(links)
    BY <2>3, <2>4
  <2>8. QED
    BY <2>4, <2>5, <2>6, <2>7
<1>3. QED
  BY <1>1, <1>2


\* What a slot says of the attributes of its type.
Counted(slot, list, type) ==
  \/ slot = None /\ Occurrences(list, type) = 0 /\ ValuesOf(list, type) = {}
  \/ /\ slot \notin {None, Duplicate}
     /\ Occurrences(list, type) = 1 /\ ValuesOf(list, type) = {slot}
  \/ slot = Duplicate /\ Occurrences(list, type) \in Nat /\ Occurrences(list, type) > 1

\* Hence decode_link finds the second attribute of a type, and only that.
LEMMA CountedFact ==
  ASSUME NEW slot, NEW list, NEW type, Counted(slot, list, type)
  PROVE  /\ slot = None <=> Occurrences(list, type) = 0
         /\ slot = Duplicate <=> Occurrences(list, type) > 1
         /\ slot \notin {None, Duplicate} <=> Occurrences(list, type) = 1
         /\ slot # Duplicate => \/ {slot} = ValuesOf(list, type) /\ slot # None
                                \/ slot = None /\ ValuesOf(list, type) = {}
BY ValuesAssumption DEF Counted

\* The slots after a list: empty, the one value, or an error, as the type occurs
\* never, once or more often.
LEMMA SlotsCount ==
  ASSUME NEW list, Len(list) \in Nat, DOMAIN list = 1 .. Len(list), NEW types,
         \A i \in 1 .. Len(list) : list[i].value \notin {None, Duplicate}
  PROVE  /\ DOMAIN Slots(types, list) = types
         /\ \A type \in types : Counted(Slots(types, list)[type], list, type)
<1>1. Telling(list, Len(list), types)
  BY DEF Telling
<1>2. /\ DOMAIN Slots(types, list) = types
      /\ \A type \in types : SlotIs(Slots(types, list)[type], list, Len(list), type)
  BY <1>1, SlotsFact, ValuesAssumption
<1>3. ASSUME NEW type \in types PROVE Counted(Slots(types, list)[type], list, type)
  <2>1. SlotIs(Slots(types, list)[type], list, Len(list), type)
    BY <1>2
  <2>2. QED
    BY <1>1, <2>1, SlotCount DEF Counted
<1>4. QED
  BY <1>2, <1>3

\* decode_link on any list of attributes that the kernel sends.
LEMMA FieldsFact ==
  ASSUME attributes \in Seq(Attributes)
  PROVE  FieldsAreTheAttributes
<1> DEFINE A == attributes
           infos == Infos(A)
           L == Slots(LinkSlots, A)
           I == Slots(InfoSlots, infos)
           vxlan == I["Data"] \notin {None, Duplicate} /\ I["Data"].kind = "Vxlan"
           UA == IF vxlan THEN I["Data"].attributes ELSE << >>
           U == Slots({"Link"}, UA)
           link == DecodeLink([index |-> 1, attributes |-> A])
           record == [index |-> 1, name |-> L["IfName"], kind |-> Kind(I["Kind"]),
                      controller |-> L["Controller"], lower |-> L["Link"],
                      lower_netnsid |-> L["LinkNetNsId"], vxlan_lower |-> U["Link"]]
           data == {d \in ValuesOf(infos, "Data") : d.kind = "Vxlan"}
           known == ValuesOf(infos, "Kind") \cap KnownKinds
           unders == UNION {ValuesOf(d.attributes, "Link") : d \in data}
<1>1. /\ Len(A) \in Nat /\ DOMAIN A = 1 .. Len(A)
      /\ \A i \in 1 .. Len(A) : A[i] \in Attributes
  BY LenProperties, ElementOfSeq
<1>2. /\ Len(infos) \in Nat /\ DOMAIN infos = 1 .. Len(infos)
      /\ \A i \in 1 .. Len(infos) : infos[i] \in InfoSet
  BY InfosFact, LenProperties, ElementOfSeq
<1>3. DOMAIN L = LinkSlots /\ \A type \in LinkSlots : Counted(L[type], A, type)
  <2>1. \A i \in 1 .. Len(A) : A[i].value \notin {None, Duplicate}
    BY <1>1, AttributeFact
  <2>2. QED
    BY <1>1, <2>1, SlotsCount
<1>4. DOMAIN I = InfoSlots /\ \A type \in InfoSlots : Counted(I[type], infos, type)
  <2>1. \A i \in 1 .. Len(infos) : infos[i].value \notin {None, Duplicate}
    BY <1>2, InfoFact
  <2> HIDE DEF infos
  <2>2. QED
    BY <1>2, <2>1, SlotsCount
\* The data are those of an info.
<1>5. ASSUME I["Data"] \notin {None, Duplicate}
      PROVE  \E info \in InfoSet : info.type = "Data" /\ info.value = I["Data"]
  <2>1. ValuesOf(infos, "Data") = {I["Data"]}
    <3>1. Counted(I["Data"], infos, "Data")
      BY <1>4 DEF InfoSlots
    <3> HIDE DEF I, infos
    <3>2. QED
      BY <1>5, <3>1 DEF Counted
  <2> HIDE DEF I, infos
  <2>2. PICK i \in DOMAIN infos : infos[i].type = "Data" /\ infos[i].value = I["Data"]
    BY <2>1 DEF ValuesOf
  <2>3. QED
    BY <1>2, <2>2
<1>6. /\ Len(UA) \in Nat /\ DOMAIN UA = 1 .. Len(UA)
      /\ \A i \in 1 .. Len(UA) : /\ UA[i].value \in Indexes \cup {1}
                                 /\ UA[i].value \notin {None, Duplicate}
  <2> HIDE DEF I
  <2>1. CASE vxlan
    <3>1. PICK info \in InfoSet : info.type = "Data" /\ info.value = I["Data"]
      BY <1>5, <2>1
    <3>2. UA = info.value.attributes
      BY <2>1, <3>1
    <3>3. QED
      BY <3>1, <3>2, InfoFact
  <2>2. CASE ~vxlan
    <3>1. UA = << >> /\ Len(<< >>) = 0 /\ DOMAIN << >> = {} /\ 1 .. 0 = {}
      BY <2>2, EmptySeq
    <3> HIDE DEF UA
    <3>2. QED
      BY <3>1
  <2>3. QED
    BY <2>1, <2>2
<1>7. DOMAIN U = {"Link"} /\ Counted(U["Link"], UA, "Link")
  <2> HIDE DEF UA
  <2>1. DOMAIN U = {"Link"} /\ \A type \in {"Link"} : Counted(U[type], UA, type)
    BY <1>6, SlotsCount
  <2>2. QED
    BY <2>1
<1>8. link = IF L["IfName"] = None \/ HasDuplicate(L) \/ HasDuplicate(I) \/ HasDuplicate(U)
             THEN None ELSE record
  BY DEF DecodeLink
<1> HIDE DEF L, I, U, infos, link, record
\* What is found twice.
<1>9. HasDuplicate(L) <=> \E type \in LinkSlots : Occurrences(A, type) > 1
  BY <1>3, CountedFact DEF HasDuplicate
<1>10. HasDuplicate(I) <=> \E type \in InfoSlots : Occurrences(infos, type) > 1
  BY <1>4, CountedFact DEF HasDuplicate
<1>11. /\ L["IfName"] = None <=> Occurrences(A, "IfName") = 0
       /\ L["IfName"] \notin {None, Duplicate} <=> Occurrences(A, "IfName") = 1
       /\ L["IfName"] = Duplicate <=> Occurrences(A, "IfName") > 1
  BY <1>3, CountedFact DEF LinkSlots
<1>12. HasDuplicate(U) <=> Occurrences(UA, "Link") > 1
  <2> HIDE DEF UA
  <2>1. QED
    BY <1>7, CountedFact DEF HasDuplicate
\* The data of a message that carries them at most once.
<1>13. ASSUME ~HasDuplicate(I)
       PROVE  data = IF vxlan THEN {I["Data"]} ELSE {}
  <2>1. I["Data"] # Duplicate /\ Counted(I["Data"], infos, "Data")
    BY <1>4, <1>13 DEF HasDuplicate, InfoSlots
  <2>2. \/ {I["Data"]} = ValuesOf(infos, "Data") /\ I["Data"] # None
        \/ I["Data"] = None /\ ValuesOf(infos, "Data") = {}
    BY <2>1, CountedFact
  <2>3. QED
    BY <2>1, <2>2
<1>14. ASSUME ~HasDuplicate(I)
       PROVE  /\ HasDuplicate(U) <=> \E d \in data : Occurrences(d.attributes, "Link") > 1
              /\ vxlan => unders = ValuesOf(UA, "Link")
              /\ ~vxlan => unders = {} /\ U["Link"] = None
  <2>1. CASE vxlan
    <3>1. data = {I["Data"]} /\ UA = I["Data"].attributes
      BY <1>13, <1>14, <2>1
    <3> HIDE DEF data, UA
    <3>2. QED
      BY <1>12, <2>1, <3>1
  <2>2. CASE ~vxlan
    <3>1. data = {} /\ UA = << >>
      BY <1>13, <1>14, <2>2
    <3> HIDE DEF data, UA
    <3>2. unders = {}
      BY <3>1
    <3>3. {i \in DOMAIN << >> : << >>[i].type = "Link"} = {}
      OBVIOUS
    <3>4. Occurrences(UA, "Link") = 0
      BY <3>1, <3>3, FS_EmptySet DEF Occurrences
    <3>5. U["Link"] = None
      BY <1>7, <3>4, CountedFact
    <3>6. QED
      BY <1>12, <2>2, <3>1, <3>2, <3>4, <3>5
  <2>3. QED
    BY <2>1, <2>2
\* A link that is decoded is not None.
<1>15. ASSUME L["IfName"] # None, ~HasDuplicate(L), ~HasDuplicate(I), ~HasDuplicate(U)
       PROVE  record # None
  <2>1. ASSUME NEW type \in LinkSlots, L[type] # None
        PROVE  \E a \in Attributes : a.type = type /\ a.value = L[type]
    <3>1. L[type] # Duplicate /\ Counted(L[type], A, type)
      BY <1>3, <1>15 DEF HasDuplicate
    <3>2. ValuesOf(A, type) = {L[type]}
      BY <2>1, <3>1, CountedFact
    <3>3. PICK i \in DOMAIN A : A[i].type = type /\ A[i].value = L[type]
      BY <3>2 DEF ValuesOf
    <3>4. QED
      BY <1>1, <3>3
  <2>2. L["IfName"] \in {"a", "b"}
    BY <1>15, <2>1, AttributeFact DEF LinkSlots
  <2>3. L["Controller"] \in Indexes \cup {None} /\ L["Link"] \in Indexes \cup {None}
    BY <2>1, AttributeFact DEF LinkSlots
  <2>4. L["LinkNetNsId"] \in {0, None}
    BY <2>1, AttributeFact DEF LinkSlots
  <2>5. U["Link"] \in Indexes \cup {1, None}
    <3> HIDE DEF UA
    <3>1. U["Link"] # Duplicate
      BY <1>7, <1>15 DEF HasDuplicate
    <3>2. ASSUME U["Link"] # None PROVE U["Link"] \in Indexes \cup {1}
      <4>1. ValuesOf(UA, "Link") = {U["Link"]}
        BY <1>7, <3>1, <3>2, CountedFact
      <4>2. PICK i \in DOMAIN UA : UA[i].value = U["Link"]
        BY <4>1 DEF ValuesOf
      <4>3. QED
        BY <1>6, <4>2
    <3>3. QED
      BY <3>2
  <2>6. Kind(I["Kind"]) \in KnownKinds \cup {"Other"}
    BY DEF Kind, KnownKinds
  <2>7. record \in [index : {1}, name : {"a", "b"},
                    kind : KnownKinds \cup {"Other"},
                    controller : Indexes \cup {None}, lower : Indexes \cup {None},
                    lower_netnsid : {0, None}, vxlan_lower : Indexes \cup {1, None}]
    BY <2>2, <2>3, <2>4, <2>5, <2>6 DEF record
  <2>8. QED
    BY <2>7, ValuesAssumption
<1> HIDE DEF data, unders, UA
<1>16. link = None <=>
         \/ Occurrences(A, "IfName") # 1
         \/ \E type \in LinkSlots : Occurrences(A, type) > 1
         \/ \E type \in InfoSlots : Occurrences(infos, type) > 1
         \/ \E d \in data : Occurrences(d.attributes, "Link") > 1
  <2>1. L["IfName"] = Duplicate => HasDuplicate(L)
    BY <1>3 DEF HasDuplicate, LinkSlots
  <2>2. L["IfName"] = None => Occurrences(A, "IfName") # 1
    BY <1>11
  <2>3. Occurrences(A, "IfName") # 1 => L["IfName"] = None \/ HasDuplicate(L)
    BY <1>11, <2>1
  <2>4. QED
    BY <1>8, <1>9, <1>10, <1>14, <1>15, <2>2, <2>3
<1>17. ASSUME link # None
       PROVE  /\ {link.name} = ValuesOf(A, "IfName")
              /\ {link.controller} = ValuesOf(A, "Controller")
                 \/ (link.controller = None /\ ValuesOf(A, "Controller") = {})
              /\ {link.lower} = ValuesOf(A, "Link")
                 \/ (link.lower = None /\ ValuesOf(A, "Link") = {})
              /\ {link.lower_netnsid} = ValuesOf(A, "LinkNetNsId")
                 \/ (link.lower_netnsid = None /\ ValuesOf(A, "LinkNetNsId") = {})
              /\ {link.vxlan_lower} = unders \/ (link.vxlan_lower = None /\ unders = {})
              /\ link.index = 1
              /\ {link.kind} = known \/ (link.kind = "Other" /\ known = {})
  <2>1. /\ link = record /\ L["IfName"] # None
        /\ ~HasDuplicate(L) /\ ~HasDuplicate(I) /\ ~HasDuplicate(U)
    BY <1>8, <1>17
  <2>2. /\ link.index = 1 /\ link.name = L["IfName"] /\ link.controller = L["Controller"]
        /\ link.lower = L["Link"] /\ link.lower_netnsid = L["LinkNetNsId"]
        /\ link.vxlan_lower = U["Link"] /\ link.kind = Kind(I["Kind"])
    BY <2>1 DEF record
  <2>3. \A type \in LinkSlots : \/ {L[type]} = ValuesOf(A, type)
                                \/ L[type] = None /\ ValuesOf(A, type) = {}
    BY <1>3, <2>1, CountedFact DEF HasDuplicate
  <2>4. {U["Link"]} = unders \/ (U["Link"] = None /\ unders = {})
    <3>1. CASE vxlan
      <4>1. unders = ValuesOf(UA, "Link") /\ U["Link"] # Duplicate
        BY <1>7, <1>14, <2>1, <3>1 DEF HasDuplicate
      <4>2. QED
        BY <1>7, <4>1, CountedFact
    <3>2. CASE ~vxlan
      BY <1>14, <2>1, <3>2
    <3>3. QED
      BY <3>1, <3>2
  <2>5. LET kind == Kind(I["Kind"])
        IN  {kind} = known \/ (kind = "Other" /\ known = {})
    <3>1. I["Kind"] # Duplicate /\ Counted(I["Kind"], infos, "Kind")
      BY <1>4, <2>1 DEF HasDuplicate, InfoSlots
    <3>2. I["Kind"] = None => Kind(I["Kind"]) = "Other"
      BY ValuesAssumption
    <3>3. IF I["Kind"] \in KnownKinds THEN Kind(I["Kind"]) = I["Kind"]
                                      ELSE Kind(I["Kind"]) = "Other"
      BY DEF Kind, KnownKinds
    <3>4. CASE ValuesOf(infos, "Kind") = {I["Kind"]}
      BY <3>3, <3>4
    <3>5. CASE I["Kind"] = None /\ ValuesOf(infos, "Kind") = {}
      BY <3>2, <3>5
    <3>6. QED
      BY <3>1, <3>4, <3>5, CountedFact
  <2>6. "IfName" \in LinkSlots /\ "Controller" \in LinkSlots /\ "Link" \in LinkSlots
        /\ "LinkNetNsId" \in LinkSlots
    BY DEF LinkSlots
  <2>7. QED
    BY <2>1, <2>2, <2>3, <2>4, <2>5, <2>6
<1>18. QED
  BY <1>16, <1>17 DEF FieldsAreTheAttributes, Infos, infos, link, data, known, unders

\* The attributes are those that a message can carry.
Listed == attributes \in Seq(Attributes)

\* decode_link says what the message says, for every list of attributes: each
\* field is the value of the one attribute that carries it, and a message that
\* carries one twice is refused.
THEOREM FieldsTheorem == Spec => []FieldsAreTheAttributes
<1>1. Init => Listed
  BY EmptySeq DEF Init, Listed
<1>2. Listed /\ [Next]_vars => Listed'
  <2> SUFFICES ASSUME Listed, [Next]_vars PROVE Listed'
    OBVIOUS
  <2>1. ASSUME NEW a \in Attributes, Describe(a) PROVE Listed'
    BY <2>1, AppendProperties DEF Describe, Listed
  <2>2. CASE UNCHANGED attributes
    BY <2>2 DEF Listed
  <2>3. QED
    BY <2>1, <2>2 DEF Next, Write, Pad, Cut, Misdeclare, vars
<1>3. Listed => FieldsAreTheAttributes
  BY FieldsFact DEF Listed
<1>4. QED
  BY <1>1, <1>2, <1>3, PTL DEF Spec

=============================================================================
