--------------------------- MODULE NetlinkProofs ---------------------------
(***************************************************************************)
(* What the recursive definitions of module Netlink compute, for every     *)
(* datagram: decode_datagram, and the sender's side it inverts.            *)
(*                                                                         *)
(* The prover cannot instantiate a theorem about every predicate, so       *)
(* induction is used in the form of a least element: a set of numbers that *)
(* is not empty has one, and the least counterexample refutes itself.      *)
(***************************************************************************)
EXTENDS Netlink, WellFoundedInduction, SequenceTheorems, TLAPS

-----------------------------------------------------------------------------
(***************************************************************************)
(* Induction.                                                              *)
(***************************************************************************)

\* Every set of numbers has a least element, unless it is empty.
LEMMA LeastElement ==
  ASSUME NEW T, T \subseteq Nat, T # {}
  PROVE  \E n \in T : \A m \in T : n <= m
<1>1. PICK n \in T : \A m \in T : ~ (<<m, n>> \in OpToRel(<, Nat))
  BY NatLessThanWellFounded, WFMin, Zenon
<1>2. \A m \in T : ~(m < n)
  BY <1>1 DEF OpToRel
<1>3. n \in Nat /\ \A m \in T : m \in Nat /\ n <= m
  BY <1>2
<1>4. QED
  BY <1>3

\* A set that holds 0 and, with a number below n, the next one, holds all
\* numbers up to n.
LEMMA UpTo ==
  ASSUME NEW n \in Nat, NEW S, 0 \in S, \A k \in 0 .. n - 1 : k \in S => k + 1 \in S
  PROVE  \A k \in 0 .. n : k \in S
<1> DEFINE T == {k \in 0 .. n : k \notin S}
<1>1. SUFFICES ASSUME T # {} PROVE FALSE
  OBVIOUS
<1>2. T \subseteq Nat
  OBVIOUS
<1>3. PICK k \in T : \A m \in T : k <= m
  <2> HIDE DEF T
  <2>1. QED
    BY <1>1, <1>2, LeastElement
<1>4. k \in 0 .. n /\ k \notin S /\ k # 0
  OBVIOUS
<1>5. k - 1 \in 0 .. n - 1
  BY <1>4
<1>6. k - 1 \in S
  BY <1>3, <1>4, <1>5
<1>7. (k - 1) + 1 \in S
  BY <1>5, <1>6
<1>8. QED
  BY <1>4, <1>7

\* A list of one element.
LEMMA OneFact ==
  ASSUME NEW S, NEW e \in S
  PROVE  <<e>> \in Seq(S) /\ Len(<<e>>) = 1 /\ <<e>>[1] = e
OBVIOUS

-----------------------------------------------------------------------------
(***************************************************************************)
(* decode_datagram is well defined.                                        *)
(***************************************************************************)

\* Rounding up to a multiple of four adds less than four.
LEMMA AlignedFact ==
  ASSUME NEW length \in Nat
  PROVE  Aligned(length) \in length .. length + 3 /\ Aligned(length) % 4 = 0
BY DEF Aligned

\* One iteration of decode_datagram's loop advances by a header at least and
\* stays within the datagram, whatever length the header declares.
LEMMA MessageAtAdvances ==
  ASSUME NEW b, b.size \in Nat,
         NEW offset \in 0 .. b.size,
         MessageAt(b, offset) # None
  PROVE  MessageAt(b, offset).next \in offset + NETLINK_HEADER_LENGTH .. b.size
<1> DEFINE length == b.at[offset].length
           remaining == b.size - offset
<1>1. /\ LengthOk(length, remaining)
      /\ MessageAt(b, offset).next =
           IF Aligned(length) > remaining THEN b.size ELSE offset + Aligned(length)
  BY DEF MessageAt
<1>2. length \in Nat /\ length >= NETLINK_HEADER_LENGTH /\ length <= remaining
  BY <1>1, HeaderAssumption DEF LengthOk
<1>3. Aligned(length) \in Nat /\ Aligned(length) >= length
  BY <1>2, AlignedFact
<1>4. b.size \in Int /\ offset \in Int /\ NETLINK_HEADER_LENGTH \in Nat
  BY HeaderAssumption
<1> HIDE DEF length
<1>5. CASE Aligned(length) > remaining
  BY <1>1, <1>2, <1>4, <1>5
<1>6. CASE ~(Aligned(length) > remaining)
  BY <1>1, <1>2, <1>3, <1>4, <1>6
<1> QED
  BY <1>5, <1>6

\* The right-hand side of the definition of DecodeFrom.
Decoded(b, from, offset) ==
  IF offset = b.size THEN << >>
  ELSE LET found == MessageAt(b, offset)
           rest  == from[found.next]
       IN IF found = None \/ rest = None THEN None
          ELSE <<found.message>> \o rest

\* It looks only ahead.
LEMMA DecodedAhead ==
  ASSUME NEW b, b.size \in Nat, NEW offset \in 0 .. b.size, NEW f, NEW g,
         \A o \in offset + 1 .. b.size : f[o] = g[o]
  PROVE  Decoded(b, f, offset) = Decoded(b, g, offset)
<1>1. CASE MessageAt(b, offset) = None
  BY <1>1 DEF Decoded
<1>2. CASE MessageAt(b, offset) # None
  <2>1. MessageAt(b, offset).next \in offset + 1 .. b.size
    BY <1>2, MessageAtAdvances, HeaderAssumption
  <2>2. f[MessageAt(b, offset).next] = g[MessageAt(b, offset).next]
    BY <2>1
  <2>3. QED
    BY <2>2 DEF Decoded
<1>3. QED
  BY <1>1, <1>2

\* The equation has a solution on the last k bytes, for every k.
LEMMA DecodedExists ==
  ASSUME NEW b, b.size \in Nat
  PROVE  \E f : f = [o \in 0 .. b.size |-> Decoded(b, f, o)]
<1> DEFINE n == b.size
           Solves(f, k) == f = [o \in n - k .. n |-> Decoded(b, f, o)]
           S == {k \in 0 .. n : \E f : Solves(f, k)}
<1>1. 0 \in S
  <2> DEFINE f == [o \in n - 0 .. n |-> << >>]
  <2>1. \A o \in n - 0 .. n : Decoded(b, f, o) = << >>
    BY DEF Decoded
  <2>2. Solves(f, 0)
    BY <2>1
  <2>3. QED
    BY <2>2
<1>2. ASSUME NEW k \in 0 .. n - 1, k \in S PROVE k + 1 \in S
  <2>1. PICK f : Solves(f, k)
    BY <1>2
  <2> DEFINE low == n - (k + 1)
             g == [o \in low .. n |-> IF o = low THEN Decoded(b, f, low) ELSE f[o]]
  <2>2. low \in 0 .. n /\ low + 1 = n - k
    OBVIOUS
  <2>3. DOMAIN g = low .. n /\ \A o \in low + 1 .. n : g[o] = f[o]
    BY <2>2
  <2>4. ASSUME NEW o \in low .. n PROVE g[o] = Decoded(b, g, o)
    <3>1. o \in 0 .. n /\ \A p \in o + 1 .. n : f[p] = g[p]
      BY <2>2, <2>3
    <3>2. Decoded(b, f, o) = Decoded(b, g, o)
      BY <3>1, DecodedAhead
    <3>3. CASE o = low
      BY <3>2, <3>3
    <3>4. CASE o # low
      <4>1. o \in n - k .. n
        BY <2>2, <3>4
      <4>2. f[o] = Decoded(b, f, o)
        BY <2>1, <4>1
      <4>3. QED
        BY <3>2, <3>4, <4>2
    <3>5. QED
      BY <3>3, <3>4
  <2>5. g = [o \in low .. n |-> g[o]]
    OBVIOUS
  <2> HIDE DEF g
  <2>6. g = [o \in low .. n |-> Decoded(b, g, o)]
    BY <2>4, <2>5
  <2>7. QED
    BY <2>6
<1>3. \A k \in 0 .. n : k \in S
  <2> HIDE DEF S
  <2>1. QED
    BY <1>1, <1>2, UpTo
<1>4. n - n = 0 /\ n \in S
  BY <1>3
<1>5. QED
  BY <1>4

\* decode_datagram satisfies its equation.
LEMMA DecodeEquation ==
  ASSUME NEW b, b.size \in Nat
  PROVE  \A o \in 0 .. b.size : DecodeFrom(b)[o] = Decoded(b, DecodeFrom(b), o)
<1>1. DecodeFrom(b) = CHOOSE f : f = [o \in 0 .. b.size |-> Decoded(b, f, o)]
  BY DEF DecodeFrom, Decoded
<1>2. DecodeFrom(b) = [o \in 0 .. b.size |-> Decoded(b, DecodeFrom(b), o)]
  BY <1>1, DecodedExists
<1>3. QED
  BY <1>2

-----------------------------------------------------------------------------
(***************************************************************************)
(* The headers a reader can find lie inside the datagram and declare a     *)
(* length.                                                                 *)
(***************************************************************************)
Header(h) == h = [length |-> h.length, message |-> h.message] /\ h.length \in Nat

\* A datagram has a header at every aligned offset in it, and nowhere else.
BytesOK(b) ==
  /\ b = [size |-> b.size, at |-> b.at]
  /\ b.size \in Nat
  /\ b.at = [offset \in Starts(b.size) |-> b.at[offset]]
  /\ \A offset \in Starts(b.size) : Header(b.at[offset])

\* The empty datagram.
LEMMA NoBytesOK == BytesOK(NoBytes)
<1>1. Starts(0) = {} /\ DOMAIN << >> = {}
  BY DEF Starts
<1>2. NoBytes.size = 0 /\ NoBytes.at = << >>
  BY DEF NoBytes
<1>3. << >> = [offset \in {} |-> << >>[offset]]
  BY <1>1
<1> QED
  BY <1>1, <1>2, <1>3 DEF BytesOK, NoBytes

\* No message starts in the padding.
LEMMA StartsFact ==
  ASSUME NEW size \in Nat, NEW offset \in Nat, offset % 4 = 0, offset < Aligned(size)
  PROVE  offset \in Starts(size)
BY DEF Starts, Aligned

\* Padding adds no offset at which a message could start.
LEMMA PadStarts ==
  ASSUME NEW size \in Nat
  PROVE  Starts(Aligned(size)) = Starts(size)
<1>1. ASSUME NEW offset \in Starts(Aligned(size))
      PROVE  offset \in Starts(size)
  <2>1. Aligned(size) \in Nat
    BY AlignedFact
  <2>2. offset \in Nat /\ offset % 4 = 0 /\ offset < Aligned(size)
    BY <2>1, <1>1 DEF Starts
  <2> QED
    BY <2>2, StartsFact
<1>2. ASSUME NEW offset \in Starts(size)
      PROVE  offset \in Starts(Aligned(size))
  BY AlignedFact DEF Starts
<1> QED
  BY <1>1, <1>2

\* What the sender appends keeps to that.
LEMMA PutOK ==
  ASSUME NEW b, BytesOK(b), NEW length \in Nat, NEW message
  PROVE  BytesOK(Put(b, length, message))
<1> DEFINE start == Aligned(b.size)
           put == Put(b, length, message)
<1>1. b.size \in Nat /\ start \in Nat
  BY AlignedFact DEF BytesOK
<1>2. /\ put = [size |-> put.size, at |-> put.at]
      /\ put.size = start + length
      /\ put.at = [offset \in Starts(put.size) |-> put.at[offset]]
  BY DEF Put
<1>3. ASSUME NEW offset \in Starts(start + length)
      PROVE  Header(put.at[offset])
  <2>1. offset \in Nat /\ offset % 4 = 0
    BY <1>1 DEF Starts
  <2>2. CASE offset < start
    <3>1. offset \in Starts(b.size)
      BY <1>1, <2>1, <2>2, StartsFact
    <3>2. put.at[offset] = b.at[offset]
      BY <1>3, <2>2 DEF Put
    <3> QED
      BY <3>1, <3>2 DEF BytesOK
  <2>3. CASE offset = start
    <3>1. put.at[offset] = [length |-> length, message |-> message]
      BY <1>1, <1>3, <2>3 DEF Put
    <3> QED
      BY <3>1 DEF Header
  <2>4. CASE ~(offset < start) /\ offset # start
    <3>1. put.at[offset] = Zeros
      BY <1>3, <2>4 DEF Put
    <3> QED
      BY <3>1 DEF Header, Zeros
  <2> QED
    BY <2>2, <2>3, <2>4
<1>4. put.size \in Nat
  BY <1>1, <1>2
<1> QED
  BY <1>2, <1>3, <1>4 DEF BytesOK

\* The first bytes of a datagram are one.
LEMMA CutOK ==
  ASSUME NEW b, BytesOK(b), NEW size \in 0 .. b.size
  PROVE  BytesOK(CutAt(b, size))
<1>1. b.size \in Nat
  BY DEF BytesOK
<1>2. Starts(size) \subseteq Starts(b.size)
  BY <1>1 DEF Starts
<1> QED
  BY <1>1, <1>2 DEF BytesOK, CutAt

-----------------------------------------------------------------------------
(***************************************************************************)
(* The sender's datagram is well defined.                                  *)
(***************************************************************************)

\* The right-hand side of the definition of FrameTo.
Framing(messages, lengths, to, i) ==
  IF i = 0 THEN NoBytes ELSE Put(to[i - 1], lengths[i], messages[i])

\* The equation has a solution on the first k messages, for every k.
LEMMA FrameExists ==
  ASSUME NEW messages, NEW lengths, Len(messages) \in Nat
  PROVE  \E f : f = [i \in 0 .. Len(messages) |-> Framing(messages, lengths, f, i)]
<1> DEFINE n == Len(messages)
           Solves(f, k) == f = [i \in 0 .. k |-> Framing(messages, lengths, f, i)]
           S == {k \in 0 .. n : \E f : Solves(f, k)}
<1>1. 0 \in S
  <2> DEFINE f == [i \in 0 .. 0 |-> NoBytes]
  <2>1. \A i \in 0 .. 0 : Framing(messages, lengths, f, i) = NoBytes
    BY DEF Framing
  <2>2. Solves(f, 0)
    BY <2>1
  <2>3. QED
    BY <2>2
<1>2. ASSUME NEW k \in 0 .. n - 1, k \in S PROVE k + 1 \in S
  <2>1. PICK f : Solves(f, k)
    BY <1>2
  <2> DEFINE g == [i \in 0 .. k + 1 |-> IF i = k + 1 THEN Framing(messages, lengths, f, i)
                                        ELSE f[i]]
  <2>2. ASSUME NEW i \in 0 .. k + 1 PROVE g[i] = Framing(messages, lengths, g, i)
    <3>1. i = 0 \/ g[i - 1] = f[i - 1]
      OBVIOUS
    <3>2. Framing(messages, lengths, f, i) = Framing(messages, lengths, g, i)
      BY <3>1 DEF Framing
    <3>3. i # k + 1 => f[i] = Framing(messages, lengths, f, i)
      BY <2>1
    <3>4. QED
      BY <3>2, <3>3
  <2>3. g = [i \in 0 .. k + 1 |-> g[i]]
    OBVIOUS
  <2> HIDE DEF g
  <2>4. g = [i \in 0 .. k + 1 |-> Framing(messages, lengths, g, i)]
    BY <2>2, <2>3
  <2>5. QED
    BY <2>4
<1>3. \A k \in 0 .. n : k \in S
  <2> HIDE DEF S
  <2>1. QED
    BY <1>1, <1>2, UpTo
<1>4. QED
  BY <1>3

\* The datagram of no message is empty, and every message is put after the
\* ones before it.
LEMMA FrameEquation ==
  ASSUME NEW messages, NEW lengths, Len(messages) \in Nat
  PROVE  \A i \in 0 .. Len(messages) :
           FrameTo(messages, lengths)[i] =
             Framing(messages, lengths, FrameTo(messages, lengths), i)
<1>1. FrameTo(messages, lengths) =
        CHOOSE f : f = [i \in 0 .. Len(messages) |-> Framing(messages, lengths, f, i)]
  BY DEF FrameTo, Framing
<1>2. FrameTo(messages, lengths) =
        [i \in 0 .. Len(messages) |->
           Framing(messages, lengths, FrameTo(messages, lengths), i)]
  BY <1>1, FrameExists
<1>3. QED
  BY <1>2


-----------------------------------------------------------------------------
(***************************************************************************)
(* The first n messages, with these lengths, lie one after another in a    *)
(* datagram: the i-th at start[i], and nothing after the n-th but perhaps   *)
(* its padding.                                                            *)
(***************************************************************************)
LaidAt(b, i, messages, lengths, start) ==
  /\ lengths[i] \in Nat /\ lengths[i] >= NETLINK_HEADER_LENGTH
  /\ start[i] \in Starts(b.size)
  /\ b.at[start[i]] = [length |-> lengths[i], message |-> messages[i]]
  /\ start[i + 1] = start[i] + Aligned(lengths[i])

\* The last message ends the datagram, with its padding or without it.
LaidEnd(b, n, lengths, start) ==
  IF n = 0 THEN b.size = 0 ELSE b.size \in {start[n] + lengths[n], start[n + 1]}

\* The first n messages lie in a datagram, one at every start, and fill it.
Laid(b, n, messages, lengths, start) ==
  /\ start[1] = 0 /\ start[n + 1] = Aligned(b.size)
  /\ \A i \in 1 .. n : LaidAt(b, i, messages, lengths, start)
  /\ \A i \in 1 .. n - 1 : start[i + 1] + NETLINK_HEADER_LENGTH <= b.size
  /\ LaidEnd(b, n, lengths, start)

\* Only the first n messages and lengths count.
LEMMA LaidCongruence ==
  ASSUME NEW b, NEW n \in Nat, NEW messages, NEW lengths, NEW m, NEW l, NEW start,
         Laid(b, n, messages, lengths, start),
         \A i \in 1 .. n : m[i] = messages[i] /\ l[i] = lengths[i]
  PROVE  Laid(b, n, m, l, start)
<1>1. \A i \in 1 .. n : LaidAt(b, i, m, l, start)
  BY DEF Laid, LaidAt
<1>2. LaidEnd(b, n, l, start)
  <2>1. n # 0 => n \in 1 .. n
    OBVIOUS
  <2>2. QED
    BY <2>1 DEF Laid, LaidEnd
<1>3. QED
  BY <1>1, <1>2 DEF Laid

\* A multiple of four can be taken out of the rounding.
LEMMA AlignedSum ==
  ASSUME NEW start \in Nat, start % 4 = 0, NEW length \in Nat
  PROVE  Aligned(start + length) = start + Aligned(length)
BY DEF Aligned

\* Messages are put one after another.
LEMMA LaidPut ==
  ASSUME NEW b, BytesOK(b), NEW n \in Nat, NEW messages, NEW lengths, NEW start,
         Laid(b, n, messages, lengths, start),
         lengths[n + 1] \in Nat, lengths[n + 1] >= NETLINK_HEADER_LENGTH
  PROVE  \E s : Laid(Put(b, lengths[n + 1], messages[n + 1]), n + 1, messages, lengths, s)
<1> DEFINE put == Put(b, lengths[n + 1], messages[n + 1])
           end == Aligned(b.size)
           s == [i \in 1 .. n + 2 |-> IF i = n + 2 THEN end + Aligned(lengths[n + 1])
                                      ELSE start[i]]
<1>1. b.size \in Nat /\ end \in Nat /\ end >= b.size /\ end % 4 = 0
  BY AlignedFact DEF BytesOK
<1>2. /\ \A i \in 1 .. n + 1 : s[i] = start[i]
      /\ s[n + 1] = end /\ s[n + 2] = end + Aligned(lengths[n + 1])
  BY DEF Laid
<1>3. put.size = end + lengths[n + 1]
  BY DEF Put
<1>4. Aligned(put.size) = s[n + 2]
  BY <1>1, <1>2, <1>3, AlignedSum
<1>5. end \in Starts(put.size)
  BY <1>1, <1>3, HeaderAssumption DEF Starts
<1>6. put.at = [offset \in Starts(put.size) |->
                  IF offset < end THEN b.at[offset]
                  ELSE IF offset = end
                       THEN [length |-> lengths[n + 1], message |-> messages[n + 1]]
                       ELSE Zeros]
  BY DEF Put
<1> HIDE DEF s, put, end
<1>7. ASSUME NEW i \in 1 .. n PROVE LaidAt(put, i, messages, lengths, s)
  <2>1. LaidAt(b, i, messages, lengths, start)
    BY DEF Laid
  <2>2. s[i] = start[i] /\ s[i + 1] = start[i + 1]
    BY <1>2
  <2>3. start[i] \in Starts(b.size)
    BY <2>1 DEF LaidAt
  <2>4. start[i] < end /\ start[i] \in Starts(put.size)
    BY <1>1, <1>3, <2>3 DEF Starts
  <2>5. put.at[start[i]] = b.at[start[i]]
    BY <1>6, <2>4
  <2>6. QED
    BY <2>1, <2>2, <2>4, <2>5 DEF LaidAt
<1>8. LaidAt(put, n + 1, messages, lengths, s)
  <2>1. put.at[end] = [length |-> lengths[n + 1], message |-> messages[n + 1]]
    BY <1>1, <1>5, <1>6
  <2>2. (n + 1) + 1 = n + 2
    OBVIOUS
  <2>3. QED
    BY <1>2, <1>5, <2>1, <2>2 DEF LaidAt
<1>9. ASSUME NEW i \in 1 .. (n + 1) - 1
      PROVE  s[i + 1] + NETLINK_HEADER_LENGTH <= put.size
  <2>1. CASE i = n
    BY <1>1, <1>2, <1>3, <2>1, HeaderAssumption
  <2>2. CASE i # n
    <3>1. i \in 1 .. n - 1 /\ i + 1 \in 1 .. n
      BY <2>2
    <3>2. start[i + 1] + NETLINK_HEADER_LENGTH <= b.size
      BY <3>1 DEF Laid
    <3>3. LaidAt(b, i + 1, messages, lengths, start)
      BY <3>1 DEF Laid
    <3>4. start[i + 1] \in Nat
      BY <1>1, <3>3 DEF LaidAt, Starts
    <3>5. QED
      BY <1>1, <1>2, <1>3, <3>1, <3>2, <3>4, HeaderAssumption
  <2>3. QED
    BY <2>1, <2>2
<1>10. LaidEnd(put, n + 1, lengths, s)
  BY <1>2, <1>3 DEF LaidEnd
<1>11. s[1] = 0 /\ s[(n + 1) + 1] = Aligned(put.size)
  BY <1>2, <1>4 DEF Laid
<1>12. \A i \in 1 .. n + 1 : LaidAt(put, i, messages, lengths, s)
  BY <1>7, <1>8
<1>13. Laid(put, n + 1, messages, lengths, s)
  BY <1>9, <1>10, <1>11, <1>12 DEF Laid
<1>14. QED
  BY <1>13 DEF put


\* What a sender frames is laid so.
LEMMA FrameLaid ==
  ASSUME NEW messages, NEW lengths, Len(messages) \in Nat,
         \A i \in 1 .. Len(messages) :
           lengths[i] \in Nat /\ lengths[i] >= NETLINK_HEADER_LENGTH
  PROVE  \A k \in 0 .. Len(messages) :
           /\ BytesOK(FrameTo(messages, lengths)[k])
           /\ \E s : Laid(FrameTo(messages, lengths)[k], k, messages, lengths, s)
<1> DEFINE n == Len(messages)
           to == FrameTo(messages, lengths)
           S == {k \in 0 .. n : BytesOK(to[k]) /\ \E s : Laid(to[k], k, messages, lengths, s)}
<1>1. \A i \in 0 .. n : to[i] = Framing(messages, lengths, to, i)
  BY FrameEquation
<1> HIDE DEF to
<1>2. 0 \in S
  <2>1. to[0] = NoBytes /\ NoBytes.size = 0
    BY <1>1 DEF Framing, NoBytes
  <2> DEFINE s == [i \in 1 .. 1 |-> 0]
  <2>2. s[1] = 0 /\ Aligned(0) = 0 /\ 0 + 1 = 1
    BY DEF Aligned
  <2>3. Laid(NoBytes, 0, messages, lengths, s)
    BY <2>1, <2>2 DEF Laid, LaidEnd
  <2>4. QED
    BY <2>1, <2>3, NoBytesOK
<1>3. ASSUME NEW k \in 0 .. n - 1, k \in S PROVE k + 1 \in S
  <2>1. k \in Nat /\ k + 1 \in 1 .. n /\ (k + 1) - 1 = k
    OBVIOUS
  <2>2. to[k + 1] = Put(to[k], lengths[k + 1], messages[k + 1])
    BY <1>1, <2>1 DEF Framing
  <2>3. PICK s : Laid(to[k], k, messages, lengths, s)
    BY <1>3
  <2>4. BytesOK(to[k]) /\ lengths[k + 1] \in Nat /\ lengths[k + 1] >= NETLINK_HEADER_LENGTH
    BY <1>3, <2>1
  <2>5. BytesOK(to[k + 1])
    BY <2>2, <2>4, PutOK
  <2>6. \E t : Laid(to[k + 1], k + 1, messages, lengths, t)
    BY <2>1, <2>2, <2>3, <2>4, LaidPut
  <2>7. QED
    BY <2>1, <2>5, <2>6
<1>4. \A k \in 0 .. n : k \in S
  <2> HIDE DEF S
  <2>1. QED
    BY <1>2, <1>3, UpTo
<1>5. QED
  BY <1>4 DEF to

\* The padding of the last message changes nothing.
LEMMA LaidPad ==
  ASSUME NEW b, BytesOK(b), NEW p, p.size = Aligned(b.size), p.at = b.at,
         NEW n \in Nat, NEW messages, NEW lengths, NEW start,
         Laid(b, n, messages, lengths, start)
  PROVE  Laid(p, n, messages, lengths, start)
<1>1. b.size \in Nat /\ p.size \in Nat /\ p.size >= b.size /\ p.size % 4 = 0
  BY AlignedFact DEF BytesOK
<1>2. Starts(p.size) = Starts(b.size)
  BY <1>1, PadStarts
<1>3. \A i \in 1 .. n : LaidAt(p, i, messages, lengths, start)
  BY <1>2 DEF Laid, LaidAt
<1>4. Aligned(p.size) = p.size
  BY <1>1 DEF Aligned
<1>5. \A i \in 1 .. n - 1 : start[i + 1] + NETLINK_HEADER_LENGTH <= p.size
  <2> SUFFICES ASSUME NEW i \in 1 .. n - 1
               PROVE  start[i + 1] + NETLINK_HEADER_LENGTH <= p.size
    OBVIOUS
  <2>1. start[i + 1] + NETLINK_HEADER_LENGTH <= b.size
    BY DEF Laid
  <2>2. i + 1 \in 1 .. n
    OBVIOUS
  <2>3. start[i + 1] \in Nat
    <3>1. LaidAt(b, i + 1, messages, lengths, start)
      BY <2>2 DEF Laid
    <3>2. QED
      BY <1>1, <3>1 DEF LaidAt, Starts
  <2>4. QED
    BY <1>1, <2>1, <2>3, HeaderAssumption
<1>6. LaidEnd(p, n, lengths, start)
  BY <1>4 DEF Laid, LaidEnd, Aligned
<1>7. QED
  BY <1>3, <1>4, <1>5, <1>6 DEF Laid

-----------------------------------------------------------------------------
(***************************************************************************)
(* decode_datagram inverts the sender.                                     *)
(***************************************************************************)

\* None is not a message, nor a list of messages, nor what one iteration of
\* the loop finds.
NoneApart(S) ==
  None \notin S /\ None \notin Seq(S) /\ None \notin [message : S, next : Nat]

\* Every message of the sender is found, and the next one after it.
LEMMA LaidMessage ==
  ASSUME NEW b, BytesOK(b), NEW n \in Nat, NEW messages, NEW lengths, NEW start,
         Laid(b, n, messages, lengths, start),
         NEW i \in 1 .. n, messages[i] # None
  PROVE  /\ start[i] \in 0 .. b.size - 1
         /\ MessageAt(b, start[i]) =
              [message |-> messages[i], next |-> IF i = n THEN b.size ELSE start[i + 1]]
<1> DEFINE l == lengths[i]
           o == start[i]
<1>1. /\ l \in Nat /\ l >= NETLINK_HEADER_LENGTH
      /\ o \in Starts(b.size)
      /\ b.at[o] = [length |-> l, message |-> messages[i]]
      /\ start[i + 1] = o + Aligned(l)
  BY DEF Laid, LaidAt
<1>2. b.size \in Nat /\ o \in 0 .. b.size - 1
  BY <1>1 DEF BytesOK, Starts
<1>3. Aligned(l) \in Nat /\ Aligned(l) >= l
  BY <1>1, AlignedFact
<1>4. MessageAt(b, o) =
        IF b.size - o < NETLINK_HEADER_LENGTH \/ ~LengthOk(l, b.size - o) \/ ~PaddingOk(l, b.size - o)
        THEN None
        ELSE [message |-> messages[i],
              next |-> IF Aligned(l) > b.size - o THEN b.size ELSE o + Aligned(l)]
  BY <1>1 DEF MessageAt
<1> HIDE DEF l, o
<1>5. CASE i # n
  <2>1. start[i + 1] + NETLINK_HEADER_LENGTH <= b.size
    BY <1>5 DEF Laid
  <2>2. Aligned(l) <= b.size - o
    BY <1>1, <1>2, <1>3, <2>1, HeaderAssumption
  <2>3. l <= b.size - o /\ ~(b.size - o < NETLINK_HEADER_LENGTH)
    BY <1>1, <1>2, <1>3, <2>2, HeaderAssumption
  <2>4. LengthOk(l, b.size - o) /\ PaddingOk(l, b.size - o)
    BY <1>1, <1>2, <2>2, <2>3, HeaderAssumption DEF LengthOk, PaddingOk
  <2>5. ~(Aligned(l) > b.size - o)
    BY <1>2, <1>3, <2>2
  <2>6. QED
    BY <1>1, <1>2, <1>4, <1>5, <2>3, <2>4, <2>5 DEF o
<1>6. CASE i = n
  <2>1. b.size = o + l \/ b.size = o + Aligned(l)
    BY <1>1, <1>6 DEF Laid, LaidEnd, o, l
  <2>2. l <= b.size - o /\ ~(b.size - o < NETLINK_HEADER_LENGTH)
    BY <1>1, <1>2, <1>3, <2>1, HeaderAssumption
  <2>3. LengthOk(l, b.size - o) /\ PaddingOk(l, b.size - o)
    BY <1>1, <1>2, <1>3, <2>1, <2>2, HeaderAssumption DEF LengthOk, PaddingOk
  <2>4. (IF Aligned(l) > b.size - o THEN b.size ELSE o + Aligned(l)) = b.size
    BY <1>1, <1>2, <1>3, <2>1
  <2>5. QED
    BY <1>2, <1>4, <1>6, <2>2, <2>3, <2>4 DEF o
<1>7. QED
  BY <1>5, <1>6

\* Decoding a datagram gives the messages that were put into it.
THEOREM RoundTrip ==
  ASSUME NEW S, NoneApart(S), NEW messages \in Seq(S), NEW lengths, NEW start,
         NEW b, BytesOK(b), Laid(b, Len(messages), messages, lengths, start)
  PROVE  DecodeDatagram(b) = messages
<1> DEFINE n == Len(messages)
           from == DecodeFrom(b)
           Stop(i) == IF i = n + 1 THEN b.size ELSE start[i]
           Done(i) == from[Stop(i)] = SubSeq(messages, i, n)
           T == {k \in 0 .. n : Done(n + 1 - k)}
<1>1. n \in Nat /\ b.size \in Nat /\ \A i \in 1 .. n : messages[i] \in S
  BY LenProperties, ElementOfSeq DEF BytesOK
<1>2. \A o \in 0 .. b.size : from[o] = Decoded(b, from, o)
  BY <1>1, DecodeEquation
<1> HIDE DEF from
<1>3. 0 \in T
  <2>1. Stop(n + 1 - 0) = b.size /\ SubSeq(messages, n + 1 - 0, n) = << >>
    BY <1>1, SubSeqEmpty
  <2>2. from[b.size] = << >>
    <3>1. b.size \in 0 .. b.size
      BY <1>1
    <3>2. from[b.size] = Decoded(b, from, b.size)
      BY <1>2, <3>1
    <3>3. QED
      BY <3>2 DEF Decoded
  <2>3. Done(n + 1 - 0)
    BY <2>1, <2>2
  <2>4. 0 \in 0 .. n
    BY <1>1
  <2>5. QED
    BY <2>3, <2>4
<1>4. ASSUME NEW k \in 0 .. n - 1, k \in T PROVE k + 1 \in T
  <2> DEFINE i == n - k
  <2>1. i \in 1 .. n /\ n + 1 - k = i + 1 /\ n + 1 - (k + 1) = i /\ Stop(i) = start[i]
    BY <1>1
  <2> HIDE DEF i
  <2>2. messages[i] \in S /\ messages[i] # None
    BY <1>1, <2>1 DEF NoneApart
  <2>3. /\ start[i] \in 0 .. b.size - 1
        /\ MessageAt(b, start[i]) = [message |-> messages[i], next |-> Stop(i + 1)]
    BY <1>1, <2>1, <2>2, LaidMessage
  <2>4. from[Stop(i + 1)] = SubSeq(messages, i + 1, n)
    BY <1>4, <2>1
  <2>5. SubSeq(messages, i + 1, n) \in Seq(S)
    BY <1>1, <2>1, SubSeqProperties
  <2>6. Stop(i + 1) \in Nat
    <3>1. CASE i = n
      BY <1>1, <3>1
    <3>2. CASE i # n
      <4>1. i + 1 \in 1 .. n /\ Stop(i + 1) = start[i + 1]
        BY <1>1, <2>1, <3>2
      <4>2. LaidAt(b, i + 1, messages, lengths, start)
        BY <4>1 DEF Laid
      <4>3. QED
        BY <1>1, <4>1, <4>2 DEF LaidAt, Starts
    <3>3. QED
      BY <3>1, <3>2
  <2> HIDE DEF Stop
  <2>7. MessageAt(b, start[i]) # None /\ SubSeq(messages, i + 1, n) # None
    <3>1. MessageAt(b, start[i]) \in [message : S, next : Nat]
      BY <2>2, <2>3, <2>6
    <3>2. QED
      BY <2>5, <3>1 DEF NoneApart
  <2>8. from[start[i]] = <<messages[i]>> \o SubSeq(messages, i + 1, n)
    <3>1. start[i] \in 0 .. b.size /\ start[i] # b.size
      BY <1>1, <2>3
    <3>2. /\ MessageAt(b, start[i]).message = messages[i]
          /\ MessageAt(b, start[i]).next = Stop(i + 1)
      BY <2>3
    <3>3. from[start[i]] = Decoded(b, from, start[i])
      BY <1>2, <3>1
    <3>4. QED
      BY <2>4, <2>7, <3>1, <3>2, <3>3 DEF Decoded
  <2>9. from[start[i]] = SubSeq(messages, i, n)
    <3>1. n \in i .. n
      BY <1>1, <2>1
    <3>2. SubSeq(messages, i, n) = <<messages[i]>> \o SubSeq(messages, i + 1, n)
      BY <2>1, <3>1, SubSeqRecursiveFirst
    <3>3. QED
      BY <2>8, <3>2
  <2>10. Done(n + 1 - (k + 1)) /\ k + 1 \in 0 .. n
    BY <1>1, <2>1, <2>9 DEF Stop
  <2>11. QED
    BY <2>10
<1>5. \A k \in 0 .. n : k \in T
  <2> HIDE DEF T
  <2>1. QED
    BY <1>1, <1>3, <1>4, UpTo
<1>6. Done(1)
  <2>1. n \in T /\ n + 1 - n = 1
    BY <1>1, <1>5
  <2>2. QED
    BY <2>1
<1>7. Stop(1) = 0
  <2>1. CASE n = 0
    BY <2>1 DEF Laid, LaidEnd
  <2>2. CASE n # 0
    BY <1>1, <2>2 DEF Laid
  <2>3. QED
    BY <2>1, <2>2
<1>8. SubSeq(messages, 1, n) = messages
  BY SubSeqFull
<1>9. QED
  BY <1>6, <1>7, <1>8 DEF from, DecodeDatagram


\* A datagram that ends after its k-th message, with or without its padding.
EndsAfter(size, k, lengths, start) ==
  size = start[k + 1] \/ (k > 0 /\ size = start[k] + lengths[k])

\* What one iteration of the loop finds at a message of a datagram that was
\* cut further on: nothing, the last message, or one before it.
LEMMA CutMessage ==
  ASSUME NEW b, BytesOK(b), NEW n \in Nat, NEW messages, NEW lengths, NEW start,
         Laid(b, n, messages, lengths, start),
         NEW i \in 1 .. n,
         NEW size \in 0 .. b.size, start[i] < size,
         MessageAt(CutAt(b, size), start[i]) # None
  PROVE  /\ MessageAt(CutAt(b, size), start[i]).message = messages[i]
         /\ \/ /\ MessageAt(CutAt(b, size), start[i]).next = size
               /\ size = start[i] + lengths[i]
            \/ /\ MessageAt(CutAt(b, size), start[i]).next = start[i + 1]
               /\ start[i + 1] <= size
<1> DEFINE l == lengths[i]
           o == start[i]
           c == CutAt(b, size)
<1>1. /\ l \in Nat /\ l >= NETLINK_HEADER_LENGTH
      /\ o \in Starts(b.size)
      /\ b.at[o] = [length |-> l, message |-> messages[i]]
      /\ start[i + 1] = o + Aligned(l)
  BY DEF Laid, LaidAt
<1>2. b.size \in Nat /\ size \in Nat /\ o \in Nat /\ o % 4 = 0
  BY <1>1 DEF BytesOK, Starts
<1>3. o \in Starts(size)
  BY <1>2 DEF Starts
<1>4. c.size = size /\ c.at[o] = [length |-> l, message |-> messages[i]]
  BY <1>1, <1>3 DEF CutAt
<1>5. Aligned(l) \in Nat /\ Aligned(l) >= l
  BY <1>1, AlignedFact
<1> HIDE DEF l, c
<1>6. MessageAt(c, o) =
        IF \/ size - o < NETLINK_HEADER_LENGTH \/ ~LengthOk(l, size - o)
           \/ messages[i] = None \/ ~PaddingOk(l, size - o)
        THEN None
        ELSE [message |-> messages[i],
              next |-> IF Aligned(l) > size - o THEN size ELSE o + Aligned(l)]
  BY <1>4 DEF MessageAt
<1> HIDE DEF o
<1>7. MessageAt(c, o) # None
  BY DEF c, o
<1>8. /\ MessageAt(c, o).message = messages[i]
      /\ MessageAt(c, o).next = IF Aligned(l) > size - o THEN size ELSE o + Aligned(l)
      /\ PaddingOk(l, size - o)
  BY <1>6, <1>7
<1>9. CASE Aligned(l) > size - o
  <2>1. l = size - o
    BY <1>2, <1>5, <1>8, <1>9 DEF PaddingOk
  <2>2. size = o + l
    BY <1>1, <1>2, <2>1
  <2>3. QED
    BY <1>8, <1>9, <2>2 DEF l, o, c
<1>10. CASE ~(Aligned(l) > size - o)
  <2>1. o + Aligned(l) <= size
    BY <1>2, <1>5, <1>10
  <2>2. QED
    BY <1>1, <1>8, <1>10, <2>1 DEF o, c
<1>11. QED
  BY <1>9, <1>10

\* A datagram that is cut is refused, or the cut falls exactly after one of
\* its messages and it decodes to the messages before the cut.
THEOREM CutTrip ==
  ASSUME NEW S, NoneApart(S), NEW messages \in Seq(S), NEW lengths, NEW start,
         NEW b, BytesOK(b), Laid(b, Len(messages), messages, lengths, start),
         NEW size \in 0 .. b.size,
         DecodeDatagram(CutAt(b, size)) # None
  PROVE  \E k \in 0 .. Len(messages) :
           /\ DecodeDatagram(CutAt(b, size)) = SubSeq(messages, 1, k)
           /\ EndsAfter(size, k, lengths, start)
<1> DEFINE n == Len(messages)
           c == CutAt(b, size)
           from == DecodeFrom(c)
           Good(i) == \E k \in i - 1 .. n : /\ from[start[i]] = SubSeq(messages, i, k)
                                            /\ EndsAfter(size, k, lengths, start)
           P(i) == start[i] <= size => from[start[i]] = None \/ Good(i)
           T == {k \in 0 .. n : P(n + 1 - k)}
<1>1. n \in Nat /\ b.size \in Nat /\ size \in Nat /\ \A i \in 1 .. n : messages[i] \in S
  BY LenProperties, ElementOfSeq DEF BytesOK
<1>2. c.size = size
  BY DEF CutAt
<1>3. \A o \in 0 .. size : from[o] = Decoded(c, from, o)
  BY <1>1, <1>2, DecodeEquation
<1>0. start[n + 1] = Aligned(b.size) /\ Aligned(b.size) \in b.size .. b.size + 3
  <2>1. start[n + 1] = Aligned(b.size)
    BY DEF Laid
  <2>2. QED
    BY <1>1, <2>1, AlignedFact
<1>4. \A i \in 1 .. n + 1 : start[i] \in Nat
  <2> SUFFICES ASSUME NEW i \in 1 .. n + 1 PROVE start[i] \in Nat
    OBVIOUS
  <2>1. CASE i = n + 1
    BY <1>1, <1>0, <2>1
  <2>2. CASE i # n + 1
    <3>1. i \in 1 .. n
      BY <1>1, <2>2
    <3>2. LaidAt(b, i, messages, lengths, start)
      BY <3>1 DEF Laid
    <3>3. QED
      BY <1>1, <3>2 DEF LaidAt, Starts
  <2>3. QED
    BY <2>1, <2>2
<1> HIDE DEF from, c
<1>5. from[size] = << >>
  <2>1. size \in 0 .. size
    BY <1>1
  <2>2. from[size] = Decoded(c, from, size)
    BY <1>3, <2>1
  <2>3. QED
    BY <1>2, <2>2 DEF Decoded
\* At the end of the datagram nothing follows.
<1>6. ASSUME NEW i \in 1 .. n + 1, start[i] = size PROVE Good(i)
  <2>1. i - 1 \in i - 1 .. n /\ (i - 1) + 1 = i
    BY <1>1
  <2>2. SubSeq(messages, i, i - 1) = << >>
    BY <1>1, SubSeqEmpty
  <2>3. EndsAfter(size, i - 1, lengths, start)
    BY <1>6, <2>1 DEF EndsAfter
  <2>4. from[start[i]] = SubSeq(messages, i, i - 1)
    BY <1>5, <1>6, <2>2
  <2>5. QED
    BY <2>1, <2>3, <2>4
<1>7. 0 \in T
  <2>2. start[n + 1] <= size => start[n + 1] = size
    BY <1>1, <1>0
  <2>3. n + 1 \in 1 .. n + 1 /\ n + 1 - 0 = n + 1 /\ 0 \in 0 .. n
    BY <1>1
  <2> HIDE DEF Good
  <2>4. P(n + 1)
    BY <1>6, <2>2, <2>3
  <2>5. QED
    BY <2>3, <2>4
<1>8. ASSUME NEW k \in 0 .. n - 1, k \in T PROVE k + 1 \in T
  <2> DEFINE i == n - k
  <2>1. i \in 1 .. n /\ n + 1 - k = i + 1 /\ n + 1 - (k + 1) = i /\ i \in 1 .. n + 1
    BY <1>1
  <2>2. P(i + 1)
    BY <1>8, <2>1
  <2> HIDE DEF i
  <2>3. ASSUME start[i] < size, from[start[i]] # None PROVE Good(i)
    <3> DEFINE found == MessageAt(c, start[i])
    <3>1. start[i] \in 0 .. size /\ start[i] # size
      BY <1>1, <1>4, <2>1, <2>3
    <3>2. from[start[i]] = Decoded(c, from, start[i])
      BY <1>3, <3>1
    <3>3. found # None /\ from[found.next] # None
          /\ from[start[i]] = <<found.message>> \o from[found.next]
      BY <1>2, <2>3, <3>1, <3>2 DEF Decoded
    <3>4. /\ found.message = messages[i]
          /\ \/ found.next = size /\ size = start[i] + lengths[i]
             \/ found.next = start[i + 1] /\ start[i + 1] <= size
      BY <1>1, <2>1, <2>3, <3>3, CutMessage DEF c
    <3> HIDE DEF found
    <3>5. CASE found.next = size /\ size = start[i] + lengths[i]
      <4>1. from[start[i]] = <<messages[i]>> \o << >>
        BY <1>5, <3>3, <3>4, <3>5
      <4>2. i \in i .. n /\ i \in i - 1 .. n /\ i > 0 /\ i < i + 1
        BY <1>1, <2>1
      <4>3. SubSeq(messages, i, i) = <<messages[i]>> \o << >>
        <5>1. SubSeq(messages, i, i) = <<messages[i]>> \o SubSeq(messages, i + 1, i)
          BY <2>1, <4>2, SubSeqRecursiveFirst
        <5>2. SubSeq(messages, i + 1, i) = << >>
          BY <2>1, <4>2, SubSeqEmpty
        <5>3. QED
          BY <5>1, <5>2
      <4>4. EndsAfter(size, i, lengths, start)
        BY <3>5, <4>2 DEF EndsAfter
      <4>5. from[start[i]] = SubSeq(messages, i, i)
        BY <4>1, <4>3
      <4>6. QED
        BY <4>2, <4>4, <4>5
    <3>6. CASE found.next = start[i + 1] /\ start[i + 1] <= size
      <4>1. Good(i + 1)
        <5> HIDE DEF Good
        <5>1. QED
          BY <2>2, <3>3, <3>6
      <4>2. PICK j \in (i + 1) - 1 .. n : /\ from[start[i + 1]] = SubSeq(messages, i + 1, j)
                                          /\ EndsAfter(size, j, lengths, start)
        BY <4>1
      <4>3. j \in i .. n /\ j \in i - 1 .. n
        BY <1>1, <2>1, <4>2
      <4>4. SubSeq(messages, i, j) = <<messages[i]>> \o SubSeq(messages, i + 1, j)
        BY <2>1, <4>3, SubSeqRecursiveFirst
      <4>5. from[start[i]] = SubSeq(messages, i, j)
        BY <3>3, <3>4, <3>6, <4>2, <4>4
      <4>6. QED
        BY <4>2, <4>3, <4>5
    <3>7. QED
      BY <3>4, <3>5, <3>6
  <2> HIDE DEF Good
  <2>4. P(i)
    BY <1>1, <1>4, <1>6, <2>1, <2>3
  <2>5. k + 1 \in 0 .. n
    BY <1>1
  <2>6. QED
    BY <2>1, <2>4, <2>5
<1>9. \A k \in 0 .. n : k \in T
  <2> HIDE DEF T
  <2>1. QED
    BY <1>1, <1>7, <1>8, UpTo
<1>10. P(1)
  <2>1. n \in T /\ n + 1 - n = 1
    BY <1>1, <1>9
  <2> HIDE DEF P
  <2>2. QED
    BY <2>1
<1>11. start[1] = 0 /\ 0 <= size /\ 1 - 1 = 0
  BY <1>1 DEF Laid
<1>12. QED
  BY <1>10, <1>11 DEF from, c, DecodeDatagram

\* The size of a datagram without its padding: the start of its last message
\* and its length.
LEMMA FrameSize ==
  ASSUME NEW messages, NEW lengths, Len(messages) \in Nat, NEW start,
         start[1] = 0,
         \A i \in 1 .. Len(messages) :
           /\ lengths[i] \in Nat
           /\ start[i] \in Nat /\ start[i] % 4 = 0
           /\ start[i + 1] = start[i] + Aligned(lengths[i])
  PROVE  Frame(messages, lengths).size =
           IF Len(messages) = 0 THEN 0 ELSE start[Len(messages)] + lengths[Len(messages)]
<1> DEFINE n == Len(messages)
           to == FrameTo(messages, lengths)
           Size(k) == IF k = 0 THEN 0 ELSE start[k] + lengths[k]
           T == {k \in 0 .. n : to[k].size = Size(k) /\ Aligned(to[k].size) = start[k + 1]}
<1>1. \A i \in 0 .. n : to[i] = Framing(messages, lengths, to, i)
  BY FrameEquation
<1> HIDE DEF to
<1>2. 0 \in T
  <2>1. to[0] = NoBytes /\ NoBytes.size = 0
    BY <1>1 DEF Framing, NoBytes
  <2>2. Aligned(0) = 0 /\ 0 + 1 = 1 /\ 0 \in 0 .. n
    BY DEF Aligned
  <2>3. QED
    BY <2>1, <2>2
<1>3. ASSUME NEW k \in 0 .. n - 1, k \in T PROVE k + 1 \in T
  <2>1. k + 1 \in 1 .. n /\ k + 1 \in 0 .. n /\ k + 1 # 0 /\ (k + 1) - 1 = k
    OBVIOUS
  <2>2. to[k + 1] = Put(to[k], lengths[k + 1], messages[k + 1])
    BY <1>1, <2>1 DEF Framing
  <2>3. to[k + 1].size = start[k + 1] + lengths[k + 1]
    BY <1>3, <2>2 DEF Put
  <2>4. Aligned(to[k + 1].size) = start[(k + 1) + 1]
    BY <2>1, <2>3, AlignedSum
  <2>5. QED
    BY <2>1, <2>3, <2>4
<1>4. \A k \in 0 .. n : k \in T
  <2> HIDE DEF T
  <2>1. QED
    BY <1>2, <1>3, UpTo
<1>5. n \in 0 .. n
  OBVIOUS
<1>6. QED
  BY <1>4, <1>5 DEF Frame, to


-----------------------------------------------------------------------------
(***************************************************************************)
(* The slots of decode_link.                                               *)
(***************************************************************************)

\* The right-hand side of the definition of SlotsTo.
Slotted(types, attributes, to, i) ==
  IF i = 0 THEN [type \in types |-> None] ELSE Absorb(to[i - 1], attributes[i])

\* The equation has a solution on the first k attributes, for every k.
LEMMA SlotsExist ==
  ASSUME NEW types, NEW attributes, Len(attributes) \in Nat
  PROVE  \E f : f = [i \in 0 .. Len(attributes) |-> Slotted(types, attributes, f, i)]
<1> DEFINE n == Len(attributes)
           Solves(f, k) == f = [i \in 0 .. k |-> Slotted(types, attributes, f, i)]
           S == {k \in 0 .. n : \E f : Solves(f, k)}
<1>1. 0 \in S
  <2> DEFINE f == [i \in 0 .. 0 |-> [type \in types |-> None]]
  <2>1. \A i \in 0 .. 0 : Slotted(types, attributes, f, i) = [type \in types |-> None]
    BY DEF Slotted
  <2>2. Solves(f, 0)
    BY <2>1
  <2>3. QED
    BY <2>2
<1>2. ASSUME NEW k \in 0 .. n - 1, k \in S PROVE k + 1 \in S
  <2>1. PICK f : Solves(f, k)
    BY <1>2
  <2> DEFINE g == [i \in 0 .. k + 1 |-> IF i = k + 1 THEN Slotted(types, attributes, f, i)
                                        ELSE f[i]]
  <2>2. ASSUME NEW i \in 0 .. k + 1 PROVE g[i] = Slotted(types, attributes, g, i)
    <3>1. i = 0 \/ g[i - 1] = f[i - 1]
      OBVIOUS
    <3>2. Slotted(types, attributes, f, i) = Slotted(types, attributes, g, i)
      BY <3>1 DEF Slotted
    <3>3. i # k + 1 => f[i] = Slotted(types, attributes, f, i)
      BY <2>1
    <3>4. QED
      BY <3>2, <3>3
  <2>3. g = [i \in 0 .. k + 1 |-> g[i]]
    OBVIOUS
  <2> HIDE DEF g
  <2>4. g = [i \in 0 .. k + 1 |-> Slotted(types, attributes, g, i)]
    BY <2>2, <2>3
  <2>5. QED
    BY <2>4
<1>3. \A k \in 0 .. n : k \in S
  <2> HIDE DEF S
  <2>1. QED
    BY <1>1, <1>2, UpTo
<1>4. QED
  BY <1>3

\* The slots are empty at first and absorb one attribute after another.
LEMMA SlotsEquation ==
  ASSUME NEW types, NEW attributes, Len(attributes) \in Nat
  PROVE  \A i \in 0 .. Len(attributes) :
           SlotsTo(types, attributes)[i] =
             Slotted(types, attributes, SlotsTo(types, attributes), i)
<1>1. SlotsTo(types, attributes) =
        CHOOSE f : f = [i \in 0 .. Len(attributes) |-> Slotted(types, attributes, f, i)]
  BY DEF SlotsTo, Slotted
<1>2. SlotsTo(types, attributes) =
        [i \in 0 .. Len(attributes) |->
           Slotted(types, attributes, SlotsTo(types, attributes), i)]
  BY <1>1, SlotsExist
<1>3. QED
  BY <1>2

\* Of the first n attributes of a list, one has this type.
OnlyAt(list, n, i, type) ==
  /\ i \in 1 .. n /\ list[i].type = type
  /\ \A j \in 1 .. n : list[j].type = type => j = i

\* A slot after the first n attributes: nothing, the value of the one attribute
\* of its type, or the error of a second one.
SlotIs(slot, list, n, type) ==
  \/ slot = None /\ \A i \in 1 .. n : list[i].type # type
  \/ \E i \in 1 .. n : OnlyAt(list, n, i, type) /\ slot = list[i].value
  \/ /\ slot = Duplicate
     /\ \E i, j \in 1 .. n : i # j /\ list[i].type = type /\ list[j].type = type

\* A value that fills a slot can be told from an empty one and from an error.
Telling(list, n, types) ==
  \A i \in 1 .. n : list[i].type \in types => list[i].value \notin {None, Duplicate}

\* decode_link's loops: a slot says how often its type occurs, and holds the
\* value that occurs once.
LEMMA SlotsFact ==
  ASSUME NEW types, NEW list, Len(list) \in Nat, Telling(list, Len(list), types),
         None # Duplicate
  PROVE  /\ DOMAIN Slots(types, list) = types
         /\ \A type \in types : SlotIs(Slots(types, list)[type], list, Len(list), type)
<1> DEFINE n == Len(list)
           to == SlotsTo(types, list)
           Is(k) == /\ to[k] = [type \in types |-> to[k][type]]
                    /\ \A type \in types : SlotIs(to[k][type], list, k, type)
           S == {k \in 0 .. n : Is(k)}
<1>1. \A i \in 0 .. n : to[i] = Slotted(types, list, to, i)
  BY SlotsEquation
<1> HIDE DEF to
<1>2. 0 \in S
  <2>1. to[0] = [type \in types |-> None]
    BY <1>1 DEF Slotted
  <2>2. \A type \in types : SlotIs(to[0][type], list, 0, type)
    BY <2>1 DEF SlotIs
  <2>3. QED
    BY <2>1, <2>2
<1>3. ASSUME NEW k \in 0 .. n - 1, k \in S PROVE k + 1 \in S
  <2> DEFINE a == list[k + 1]
             old == to[k]
             new == to[k + 1]
  <2>1. k + 1 \in 1 .. n /\ k + 1 \in 0 .. n /\ k + 1 # 0 /\ (k + 1) - 1 = k /\ k \in Nat
    OBVIOUS
  <2>2. new = Absorb(old, a)
    BY <1>1, <2>1 DEF Slotted
  <2>3. old = [type \in types |-> old[type]] /\ DOMAIN old = types
    BY <1>3
  <2>4. \A type \in types : SlotIs(old[type], list, k, type)
    BY <1>3
  <2>5. a.type \in types => a.value \notin {None, Duplicate}
    BY <2>1 DEF Telling
  <2> HIDE DEF a, old, new
  <2>6. /\ new = [type \in types |-> new[type]]
        /\ \A type \in types :
             new[type] = IF type # a.type THEN old[type]
                         ELSE IF old[type] = None THEN a.value ELSE Duplicate
    BY <2>2, <2>3 DEF Absorb, SetOnce
  <2>7. ASSUME NEW type \in types PROVE SlotIs(new[type], list, k + 1, type)
    <3>1. SlotIs(old[type], list, k, type)
      BY <2>4
    <3>2. \A i \in 1 .. k + 1 : i \in 1 .. k \/ i = k + 1
      OBVIOUS
    <3>3. \A i \in 1 .. k : i \in 1 .. k + 1 /\ i # k + 1
      OBVIOUS
    <3>4. k + 1 \in 1 .. k + 1
      OBVIOUS
    <3>5. CASE type # a.type
      <4>1. new[type] = old[type] /\ list[k + 1].type # type
        BY <2>6, <3>5 DEF a
      <4>2. QED
        BY <3>1, <3>2, <3>3, <4>1 DEF SlotIs, OnlyAt
    <3>6. CASE type = a.type /\ old[type] = None
      <4>1. new[type] = a.value /\ list[k + 1].type = type
        BY <2>6, <3>6 DEF a
      <4>2. \A i \in 1 .. k : list[i].type # type
        <5>1. \A i \in 1 .. k : list[i].type = type => list[i].value # None
          BY <2>1, <2>7 DEF Telling
        <5>2. QED
          BY <3>1, <3>6, <5>1 DEF SlotIs, OnlyAt
      <4>3. OnlyAt(list, k + 1, k + 1, type)
        BY <3>2, <3>4, <4>1, <4>2 DEF OnlyAt
      <4>4. QED
        BY <3>4, <4>1, <4>3 DEF SlotIs, a
    <3>7. CASE type = a.type /\ old[type] # None
      <4>1. new[type] = Duplicate /\ list[k + 1].type = type
        BY <2>6, <3>7 DEF a
      <4>2. \E i \in 1 .. k : list[i].type = type
        BY <3>1, <3>7 DEF SlotIs, OnlyAt
      <4>3. QED
        BY <3>3, <3>4, <4>1, <4>2 DEF SlotIs
    <3>8. QED
      BY <3>5, <3>6, <3>7
  <2>8. Is(k + 1)
    BY <2>6, <2>7 DEF new
  <2>9. QED
    BY <2>1, <2>8
<1>4. \A k \in 0 .. n : k \in S
  <2> HIDE DEF S
  <2>1. QED
    BY <1>2, <1>3, UpTo
<1>5. Is(n)
  BY <1>4
<1>6. QED
  BY <1>5 DEF Slots, to

=============================================================================
