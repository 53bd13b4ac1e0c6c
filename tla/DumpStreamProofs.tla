-------------------------- MODULE DumpStreamProofs --------------------------
(***************************************************************************)
(* One dump after another, for every kernel table, every way of cutting an *)
(* answer into datagrams and every number of requests: an inventory that   *)
(* is returned is the whole answer to its own request.  And the wait for   *)
(* its datagrams, for every clock and timeout.                             *)
(***************************************************************************)
EXTENDS DumpStream, Poll, NetlinkProofs

-----------------------------------------------------------------------------
(***************************************************************************)
(* What consume_dump makes of a datagram of the kernel.                    *)
(***************************************************************************)

\* Every message has at least its header.
LEMMA LengthFact ==
  ASSUME NEW message \in Messages
  PROVE  Length(message) \in Nat /\ Length(message) >= NETLINK_HEADER_LENGTH
<1>1. message.link # None => message.link.index \in Nat
  BY DEF Messages, Contents
<1>2. QED
  BY <1>1, HeaderAssumption DEF Length

\* The kernel's datagrams are decoded to its messages.
LEMMA FramedFact ==
  ASSUME NEW messages \in Seq(Messages)
  PROVE  /\ BytesOK(Framed(messages))
         /\ DecodeDatagram(Framed(messages)) = messages
         /\ Framed(messages).size > 0 <=> messages # << >>
<1> DEFINE n == Len(messages)
           lengths == [i \in DOMAIN messages |-> Length(messages[i])]
           b == Framed(messages)
<1>1. n \in Nat /\ DOMAIN messages = 1 .. n /\ \A i \in 1 .. n : messages[i] \in Messages
  BY LenProperties, ElementOfSeq
<1>2. \A i \in 1 .. n : lengths[i] \in Nat /\ lengths[i] >= NETLINK_HEADER_LENGTH
  BY <1>1, LengthFact
<1>3. b = FrameTo(messages, lengths)[n]
  BY DEF Framed, Frame
<1> HIDE DEF b, lengths
<1>4. n \in 0 .. n
  BY <1>1
<1>5. BytesOK(b) /\ \E s : Laid(b, n, messages, lengths, s)
  BY <1>1, <1>2, <1>3, <1>4, FrameLaid
<1>6. PICK s : Laid(b, n, messages, lengths, s)
  BY <1>5
<1>7. NoneApart(Messages)
  BY NoneAssumption DEF NoneApart
<1>8. DecodeDatagram(b) = messages
  BY <1>5, <1>6, <1>7, RoundTrip
<1>9. b.size > 0 <=> messages # << >>
  <2>1. CASE n = 0
    <3>1. messages = << >>
      BY <2>1, EmptySeq
    <3>2. b.size = 0
      BY <1>6, <2>1 DEF Laid, LaidEnd
    <3>3. QED
      BY <3>1, <3>2
  <2>2. CASE n # 0
    <3>1. messages # << >>
      BY <2>2, EmptySeq
    <3>2. n \in 1 .. n
      BY <1>1, <2>2
    <3>3. LaidAt(b, n, messages, lengths, s)
      BY <1>6, <3>2 DEF Laid
    <3>4. QED
      BY <1>5, <3>1, <3>3 DEF LaidAt, Starts, BytesOK
  <2>3. QED
    BY <2>1, <2>2
<1>10. QED
  BY <1>5, <1>8, <1>9 DEF b

\* One message that consume_dump refuses is enough.
LEMMA Refused ==
  ASSUME NEW messages \in Seq(Messages), NEW number, NEW i \in 1 .. Len(messages),
         ~DumpMessageOk(messages[i], number, i = Len(messages))
  PROVE  ConsumeDump(Framed(messages), number) = None
<1>1. DOMAIN messages = 1 .. Len(messages)
  BY LenProperties
<1>2. DecodeDatagram(Framed(messages)) = messages
  BY FramedFact
<1>3. QED
  BY <1>1, <1>2 DEF ConsumeDump

\* What is not refused are links, in order, and perhaps the end.
LEMMA Accepted ==
  ASSUME NEW messages \in Seq(Messages), NEW number,
         ConsumeDump(Framed(messages), number) # None
  PROVE  LET consumed == ConsumeDump(Framed(messages), number)
             done  == messages # << >> /\ messages[Len(messages)].payload = "done"
             count == IF done THEN Len(messages) - 1 ELSE Len(messages)
         IN /\ consumed.done <=> done
            /\ consumed.links = [i \in 1 .. count |-> DecodeLink(messages[i].link)]
<1>1. DecodeDatagram(Framed(messages)) = messages
  BY FramedFact
<1>2. QED
  BY <1>1 DEF ConsumeDump, Last

\* A message of a notification has sequence number 0.
LEMMA NotNotified ==
  ASSUME NEW messages \in Seq(Messages), NEW i \in 1 .. Len(messages), messages[i].sequence # 0
  PROVE  ReceiveNotification(Framed(messages)) = None
<1>1. DOMAIN messages = 1 .. Len(messages)
  BY LenProperties
<1>2. DecodeDatagram(Framed(messages)) = messages
  BY FramedFact
<1>3. QED
  BY <1>1, <1>2 DEF ReceiveNotification

\* A link without a name is refused.
LEMMA Nameless ==
  ASSUME NEW link, link.attributes = << >>
  PROVE  DecodeLink(link) = None
<1>1. Len(<< >>) = 0 /\ 0 \in 0 .. 0
  BY EmptySeq
<1>2. SlotsTo(LinkSlots, << >>)[0] = [type \in LinkSlots |-> None]
  BY <1>1, SlotsEquation DEF Slotted
<1>3. Slots(LinkSlots, << >>).IfName = None
  BY <1>1, <1>2 DEF Slots, LinkSlots
<1>4. QED
  BY <1>3 DEF DecodeLink


\* A datagram that fits into the buffer is received as it is.
LEMMA CutFull ==
  ASSUME NEW b, BytesOK(b)
  PROVE  CutAt(b, b.size) = b
BY DEF BytesOK, CutAt

\* The smaller of two numbers.
LEMMA MinFact ==
  ASSUME NEW m \in Nat, NEW n \in Nat, m <= n
  PROVE  Min({m, n}) = m
<1>1. \A x : (x \in {m, n} /\ \A y \in {m, n} : x <= y) <=> x = m
  OBVIOUS
<1>2. QED
  BY <1>1 DEF Min

-----------------------------------------------------------------------------
(***************************************************************************)
(* The kernel's answer.                                                    *)
(***************************************************************************)

\* So many link messages, after those that were sent before.
Links(number, before, count, interrupted) ==
  [i \in 1 .. count |-> Message(number, interrupted, "newlink", Named(before + i))]

\* NLMSG_DONE, the end of an answer.
DoneMessage(number) == Message(number, FALSE, "done", None)

\* The first links of the kernel's table, decoded.
Whole(count) == [i \in 1 .. count |-> DecodeLink(Named(i))]

\* What Message builds is a message.
LEMMA MessageFact ==
  ASSUME NEW number \in Nat, NEW interrupted \in BOOLEAN,
         NEW payload \in {"newlink", "done", "failed", "error", "overrun", "noop"},
         NEW link \in Contents \cup {None}
  PROVE  Message(number, interrupted, payload, link) \in Messages
BY DEF Message, Messages

\* What Named builds is the content of a link message.
LEMMA NamedFact ==
  ASSUME NEW index \in Nat
  PROVE  Named(index) \in Contents
BY DEF Named, Contents

\* The link messages of a datagram are messages.
LEMMA LinksFact ==
  ASSUME NEW number \in Nat, NEW before \in Nat, NEW count \in Nat, NEW interrupted \in BOOLEAN
  PROVE  /\ Links(number, before, count, interrupted) \in Seq(Messages)
         /\ Len(Links(number, before, count, interrupted)) = count
         /\ \A i \in 1 .. count :
              Links(number, before, count, interrupted)[i]
                = Message(number, interrupted, "newlink", Named(before + i))
<1>1. \A i \in 1 .. count :
        Message(number, interrupted, "newlink", Named(before + i)) \in Messages
  BY MessageFact, NamedFact
<1>2. QED
  BY <1>1 DEF Links

\* The first links, followed by the next ones, are the first links of the longer
\* prefix.
LEMMA WholeConcat ==
  ASSUME NEW c \in Nat, NEW k \in Nat
  PROVE  Whole(c) \o [i \in 1 .. k |-> DecodeLink(Named(c + i))] = Whole(c + k)
<1> DEFINE D == {DecodeLink(Named(i)) : i \in Nat}
           s == [i \in 1 .. k |-> DecodeLink(Named(c + i))]
<1>1. /\ Whole(c) \in Seq(D) /\ Len(Whole(c)) = c
      /\ \A i \in 1 .. c : Whole(c)[i] = DecodeLink(Named(i))
  BY DEF Whole
<1>2. /\ Whole(c + k) \in Seq(D) /\ Len(Whole(c + k)) = c + k
      /\ \A i \in 1 .. c + k : Whole(c + k)[i] = DecodeLink(Named(i))
  BY DEF Whole
<1>3. /\ s \in Seq(D) /\ Len(s) = k
      /\ \A i \in 1 .. k : s[i] = DecodeLink(Named(c + i))
  OBVIOUS
<1> HIDE DEF s, D
<1>4. /\ Whole(c) \o s \in Seq(D) /\ Len(Whole(c) \o s) = c + k
      /\ \A i \in 1 .. c + k : (Whole(c) \o s)[i] = IF i <= c THEN Whole(c)[i] ELSE s[i - c]
  BY <1>1, <1>3, ConcatProperties
<1>5. \A i \in 1 .. c + k : (Whole(c) \o s)[i] = Whole(c + k)[i]
  <2> SUFFICES ASSUME NEW i \in 1 .. c + k PROVE (Whole(c) \o s)[i] = DecodeLink(Named(i))
    BY <1>2
  <2>1. CASE i <= c
    BY <1>1, <1>4, <2>1
  <2>2. CASE ~(i <= c)
    <3>1. i - c \in 1 .. k /\ c + (i - c) = i
      BY <2>2
    <3>2. (Whole(c) \o s)[i] = s[i - c]
      BY <1>4, <2>2
    <3>3. QED
      BY <1>3, <3>1, <3>2
  <2>3. QED
    BY <2>1, <2>2
<1>6. QED
  BY <1>2, <1>4, <1>5, SeqEqual DEF s

-----------------------------------------------------------------------------
(***************************************************************************)
(* The inductive invariant.                                                *)
(***************************************************************************)
Datagrams ==
  {Datagram(messages) : messages \in Seq(Messages)}
  \cup {[bytes |-> Framed(messages), from_kernel |-> FALSE] : messages \in Seq(Messages)}

\* A datagram that inventory() returns an error for.
Bad(d, number) ==
  ~d.from_kernel \/ d.bytes.size = 0 \/ ConsumeDump(d.bytes, number) = None

\* A datagram with the links after the first so many, up to the next.
Part(d, number, before, upto) ==
  d = Datagram(Links(number, before, upto - before, FALSE))

\* The last datagram of an answer r that did not go wrong.
End(d, number, r, before, upto) ==
  /\ d = Datagram(Links(number, before, upto - before, FALSE) \o <<DoneMessage(number)>>)
  /\ r.ended /\ ~r.faulty /\ upto = r.all

\* What a datagram in the socket can be, when the answer has come this far.
Goes(d, number, r, before, upto) ==
  Bad(d, number) \/ Part(d, number, before, upto) \/ End(d, number, r, before, upto)

\* The datagrams w in the socket go on where the links that were kept end, and
\* end where the kernel is.
Answers(links, number, r, w, at) ==
  /\ links = Whole(at[1]) /\ at[Len(w) + 1] = r.sent
  /\ \A i \in 1 .. Len(w) + 1 : at[i] \in Nat
  /\ \A i \in 1 .. Len(w) : at[i] <= at[i + 1] /\ Goes(w[i], number, r, at[i], at[i + 1])

\* The number that was used d requests before s.
Back(s, d) == IF d < s THEN s - d ELSE s - d + (SEQUENCES - 1)

\* The request sequence: the numbers that are remembered are the last ones, in
\* order, and fewer than it takes to wrap around to the first of them.
RecentOK ==
  /\ sequence \in 0 .. SEQUENCES - 1
  /\ recent \in Seq(Nat) /\ Len(recent) < SEQUENCES
  /\ sequence = 0 => recent = << >>
  /\ \A i \in 1 .. Len(recent) : recent[i] = Back(sequence, Len(recent) - i)

\* The kernel's answer: it sends no more links than it has, and nothing after
\* it went wrong.
ReplyOK ==
  /\ reply \in [all : Nat, sent : Nat, ended : BOOLEAN, faulty : BOOLEAN]
  /\ reply.sent <= reply.all
  /\ reply.faulty => reply.ended

\* A running inventory() has read a prefix of the kernel's table, and what is
\* still in its socket continues exactly there.
DumpOK ==
  /\ dump = [sequence |-> dump.sequence, links |-> dump.links, total |-> dump.total]
  /\ dump.sequence = sequence /\ sequence # 0
  /\ inventory = None
  /\ \E at : Answers(dump.links, dump.sequence, reply, wire, at)

\* The inductive invariant.
StreamInv ==
  /\ RecentOK /\ ReplyOK
  /\ wire \in Seq(Datagrams)
  /\ dump # None => DumpOK
  /\ CompleteIsWhole

-----------------------------------------------------------------------------
(***************************************************************************)
(* The sequence numbers.                                                   *)
(***************************************************************************)

\* One more request.
LEMMA NextFact ==
  ASSUME NEW s \in 0 .. SEQUENCES - 1
  PROVE  /\ NextSequence(s) \in 1 .. SEQUENCES - 1
         /\ Back(NextSequence(s), 0) = NextSequence(s)
         /\ s # 0 => \A d \in 0 .. SEQUENCES - 3 : Back(NextSequence(s), d + 1) = Back(s, d)
BY SequencesAssumption DEF NextSequence, Back

\* As many requests as there are numbers but one have different numbers.
LEMMA BackDistinct ==
  ASSUME NEW s \in 1 .. SEQUENCES - 1,
         NEW d \in 0 .. SEQUENCES - 2, NEW e \in 0 .. SEQUENCES - 2, d # e
  PROVE  Back(s, d) # Back(s, e)
BY SequencesAssumption DEF Back

\* A request keeps the order of the remembered numbers, and its own is not 0.
LEMMA RememberOK ==
  ASSUME RecentOK, sequence' = NextSequence(sequence), recent' = Remember(sequence')
  PROVE  RecentOK' /\ sequence' # 0
<1> DEFINE n == Len(recent)
           s == NextSequence(sequence)
           all == Append(recent, s)
<1>1. /\ s \in 1 .. SEQUENCES - 1 /\ Back(s, 0) = s
      /\ sequence # 0 => \A d \in 0 .. SEQUENCES - 3 : Back(s, d + 1) = Back(sequence, d)
  BY NextFact DEF RecentOK
<1>2. /\ recent \in Seq(Nat) /\ n \in Nat /\ n < SEQUENCES /\ SEQUENCES \in Nat /\ SEQUENCES >= 3
      /\ s \in Nat
  BY <1>1, SequencesAssumption, LenProperties DEF RecentOK
<1> HIDE DEF s
<1>3. /\ all \in Seq(Nat) /\ Len(all) = n + 1 /\ all # << >>
      /\ \A i \in 1 .. n : all[i] = recent[i]
      /\ all[n + 1] = s
  BY <1>2, AppendProperties
<1>4. n > 0 => sequence # 0
  BY <1>2, EmptySeq DEF RecentOK
<1>5. ASSUME NEW i \in 1 .. n + 1, (n + 1) - i < SEQUENCES - 1
      PROVE  all[i] = Back(s, (n + 1) - i)
  <2>1. CASE i = n + 1
    <3>1. (n + 1) - i = 0
      BY <1>2, <2>1
    <3>2. QED
      BY <1>1, <1>3, <2>1, <3>1
  <2>2. CASE i # n + 1
    <3>1. i \in 1 .. n /\ n - i \in 0 .. SEQUENCES - 3 /\ (n - i) + 1 = (n + 1) - i /\ n > 0
      BY <1>2, <1>5, <2>2
    <3>2. recent[i] = Back(sequence, n - i)
      BY <3>1 DEF RecentOK
    <3>3. Back(s, (n - i) + 1) = Back(sequence, n - i)
      BY <1>1, <1>4, <3>1
    <3>4. QED
      BY <1>3, <3>1, <3>2, <3>3
  <2>3. QED
    BY <2>1, <2>2
<1>6. sequence' = s /\ recent' = IF n + 1 < SEQUENCES THEN all ELSE Tail(all)
  BY <1>3 DEF Remember, s
<1> HIDE DEF all
<1>7. sequence' \in 0 .. SEQUENCES - 1 /\ sequence' # 0
  BY <1>1, <1>2, <1>6
<1>8. CASE n + 1 < SEQUENCES
  <2>1. recent' = all /\ Len(recent') = n + 1
    BY <1>3, <1>6, <1>8
  <2>2. \A i \in 1 .. n + 1 : (n + 1) - i < SEQUENCES - 1
    BY <1>2, <1>8
  <2>3. \A i \in 1 .. n + 1 : recent'[i] = Back(s, (n + 1) - i)
    BY <1>5, <2>1, <2>2
  <2>4. QED
    BY <1>3, <1>6, <1>7, <1>8, <2>1, <2>3 DEF RecentOK, Back
<1>9. CASE ~(n + 1 < SEQUENCES)
  <2>1. recent' = Tail(all)
    BY <1>6, <1>9
  <2>2. /\ Tail(all) \in Seq(Nat) /\ Len(Tail(all)) = n
        /\ \A i \in 1 .. n : Tail(all)[i] = all[i + 1]
    <3>1. /\ Tail(all) \in Seq(Nat) /\ Len(Tail(all)) = Len(all) - 1
          /\ \A i \in 1 .. Len(Tail(all)) : Tail(all)[i] = all[i + 1]
      BY <1>3, HeadTailProperties
    <3>2. Len(Tail(all)) = n
      BY <1>2, <1>3, <3>1
    <3>3. QED
      BY <3>1, <3>2
  <2>3. ASSUME NEW i \in 1 .. n PROVE recent'[i] = Back(s, n - i)
    <3>1. i + 1 \in 1 .. n + 1 /\ (n + 1) - (i + 1) = n - i /\ n - i < SEQUENCES - 1
      BY <1>2
    <3>2. all[i + 1] = Back(s, n - i)
      BY <1>5, <3>1
    <3>3. QED
      BY <2>1, <2>2, <3>2
  <2>4. QED
    BY <1>2, <1>6, <1>7, <2>1, <2>2, <2>3 DEF RecentOK, Back
<1>10. QED
  BY <1>7, <1>8, <1>9


-----------------------------------------------------------------------------
(***************************************************************************)
(* The kernel's steps.                                                     *)
(***************************************************************************)

\* A framed datagram, whoever sends it, is one that the socket can hold.
LEMMA DatagramsFact ==
  ASSUME NEW messages \in Seq(Messages)
  PROVE  /\ Datagram(messages) \in Datagrams
         /\ [bytes |-> Framed(messages), from_kernel |-> FALSE] \in Datagrams
BY DEF Datagrams

\* A datagram reaches the socket.
LEMMA DeliverInv ==
  ASSUME StreamInv, dump # None,
         UNCHANGED <<sequence, dump, inventory, recent>>,
         ReplyOK', ~reply.ended \/ reply' = reply, reply.sent <= reply'.sent,
         NEW d \in Datagrams, wire' = Append(wire, d),
         Goes(d, dump.sequence, reply', reply.sent, reply'.sent)
  PROVE  StreamInv'
<1> DEFINE n == Len(wire)
<1>1. PICK at : Answers(dump.links, dump.sequence, reply, wire, at)
  BY DEF StreamInv, DumpOK
<1>2. wire \in Seq(Datagrams) /\ n \in Nat
  BY LenProperties DEF StreamInv
<1>3. /\ wire' \in Seq(Datagrams) /\ Len(wire') = n + 1
      /\ \A i \in 1 .. n : wire'[i] = wire[i]
      /\ wire'[n + 1] = d
  BY <1>2, AppendProperties
<1> DEFINE to == [i \in 1 .. n + 2 |-> IF i = n + 2 THEN reply'.sent ELSE at[i]]
<1>4. /\ \A i \in 1 .. n + 1 : to[i] = at[i]
      /\ to[n + 2] = reply'.sent /\ (n + 1) + 1 = n + 2 /\ to[1] = at[1]
  BY <1>2
<1>5. at[n + 1] = reply.sent
  BY <1>1 DEF Answers
<1> HIDE DEF to
<1>6. \A i \in 1 .. (n + 1) + 1 : to[i] \in Nat
  <2>1. reply'.sent \in Nat
    BY DEF ReplyOK
  <2>2. \A i \in 1 .. (n + 1) + 1 : i \in 1 .. n + 1 \/ i = n + 2
    BY <1>2
  <2>3. \A i \in 1 .. n + 1 : at[i] \in Nat
    BY <1>1 DEF Answers
  <2>4. QED
    BY <1>4, <2>1, <2>2, <2>3
<1>7. ASSUME NEW i \in 1 .. n + 1
      PROVE  to[i] <= to[i + 1] /\ Goes(wire'[i], dump.sequence, reply', to[i], to[i + 1])
  <2>1. CASE i = n + 1
    <3>1. to[i] = reply.sent /\ to[i + 1] = reply'.sent /\ wire'[i] = d
      BY <1>2, <1>3, <1>4, <1>5, <2>1
    <3>2. QED
      BY <3>1
  <2>2. CASE i # n + 1
    <3>1. i \in 1 .. n /\ to[i] = at[i] /\ to[i + 1] = at[i + 1] /\ wire'[i] = wire[i]
      BY <1>2, <1>3, <1>4, <2>2
    <3>2. at[i] <= at[i + 1] /\ Goes(wire[i], dump.sequence, reply, at[i], at[i + 1])
      BY <1>1, <3>1 DEF Answers
    <3>3. Goes(wire[i], dump.sequence, reply', at[i], at[i + 1])
      BY <3>2 DEF Goes, End
    <3>4. QED
      BY <3>1, <3>2, <3>3
  <2>3. QED
    BY <2>1, <2>2
<1>8. Answers(dump.links, dump.sequence, reply', wire', to)
  BY <1>1, <1>3, <1>4, <1>6, <1>7 DEF Answers
<1>9. DumpOK'
  BY <1>8 DEF StreamInv, DumpOK
<1>10. RecentOK'
  BY DEF StreamInv, RecentOK
<1>11. CompleteIsWhole'
  BY DEF StreamInv, DumpOK, CompleteIsWhole
<1>12. QED
  BY <1>3, <1>9, <1>10, <1>11 DEF StreamInv

\* The numbers that messages carry.
LEMMA NumbersFact ==
  ASSUME StreamInv
  PROVE  /\ dump # None => dump.sequence \in Nat /\ dump.sequence # 0
         /\ reply.sent \in Nat /\ reply.all \in Nat /\ reply.all - reply.sent \in Nat
         /\ \A i \in DOMAIN recent : recent[i] \in Nat
<1>1. dump # None => dump.sequence \in Nat /\ dump.sequence # 0
  BY SequencesAssumption DEF StreamInv, DumpOK, RecentOK
<1>2. reply.sent \in Nat /\ reply.all \in Nat /\ reply.all - reply.sent \in Nat
  BY DEF StreamInv, ReplyOK
<1>3. recent \in Seq(Nat)
  BY DEF StreamInv, RecentOK
<1>4. QED
  BY <1>1, <1>2, <1>3, LenProperties, ElementOfSeq

\* The next datagram of the kernel continues where the socket's last one ended.
LEMMA KernelReplyInv ==
  ASSUME StreamInv, KernelReply
  PROVE  StreamInv'
<1>1. /\ dump # None /\ ~reply.ended
      /\ UNCHANGED <<sequence, dump, inventory, recent>>
  BY DEF KernelReply
<1>2. PICK count \in 0 .. reply.all - reply.sent, ended \in BOOLEAN :
        /\ ended => reply.sent + count = reply.all
        /\ Deliver(Datagram(LinkMessages(count, FALSE) \o
             IF ended THEN <<Message(dump.sequence, FALSE, "done", None)>> ELSE << >>))
        /\ reply' = [reply EXCEPT !.sent = @ + count, !.ended = ended]
  BY DEF KernelReply
<1> DEFINE number == dump.sequence
           links == Links(number, reply.sent, count, FALSE)
           messages == links \o IF ended THEN <<DoneMessage(number)>> ELSE << >>
           d == Datagram(messages)
<1>3. number \in Nat /\ reply.sent \in Nat /\ count \in Nat /\ reply.all \in Nat
      /\ reply.sent + count <= reply.all
  BY <1>1, NumbersFact
<1>4. wire' = Append(wire, d)
  BY <1>2 DEF Deliver, LinkMessages, Links, DoneMessage
<1>5. /\ ReplyOK' /\ reply'.sent = reply.sent + count
      /\ reply'.ended = ended /\ ~reply'.faulty /\ reply'.all = reply.all
  <2>1. reply \in [all : Nat, sent : Nat, ended : BOOLEAN, faulty : BOOLEAN] /\ ~reply.faulty
    BY <1>1 DEF StreamInv, ReplyOK
  <2>2. reply.sent + count \in Nat
    BY <1>3
  <2>3. /\ reply' \in [all : Nat, sent : Nat, ended : BOOLEAN, faulty : BOOLEAN]
        /\ reply'.sent = reply.sent + count
        /\ reply'.ended = ended /\ reply'.faulty = reply.faulty /\ reply'.all = reply.all
    BY <1>2, <2>1, <2>2, Zenon
  <2>4. QED
    BY <1>3, <2>1, <2>3 DEF ReplyOK
<1>6. links \in Seq(Messages)
  BY <1>3, LinksFact
<1>7. DoneMessage(number) \in Messages
  BY <1>3, MessageFact DEF DoneMessage
<1>8. reply'.sent - reply.sent = count /\ reply.sent <= reply'.sent
  BY <1>3, <1>5
<1> HIDE DEF links, number
<1>9. messages \in Seq(Messages)
  BY <1>6, <1>7, ConcatProperties, EmptySeq
<1>10. d \in Datagrams
  BY <1>9, DatagramsFact
<1>11. CASE ended
  <2>1. End(d, number, reply', reply.sent, reply'.sent)
    BY <1>2, <1>5, <1>8, <1>11 DEF End, links
  <2>2. Goes(d, number, reply', reply.sent, reply'.sent)
    BY <2>1 DEF Goes
  <2>3. QED
    BY <1>1, <1>4, <1>5, <1>8, <1>10, <2>2, DeliverInv DEF number
<1>12. CASE ~ended
  <2>1. messages = links
    BY <1>6, <1>12, ConcatEmptySeq
  <2>2. Part(d, number, reply.sent, reply'.sent)
    BY <1>8, <2>1 DEF Part, links
  <2>3. Goes(d, number, reply', reply.sent, reply'.sent)
    BY <2>2 DEF Goes
  <2>4. QED
    BY <1>1, <1>4, <1>5, <1>8, <1>10, <2>3, DeliverInv DEF number
<1>13. QED
  BY <1>11, <1>12

\* The first element of a concatenation.
LEMMA FirstFact ==
  ASSUME NEW S, NEW s \in Seq(S), NEW t \in Seq(S), Len(s) >= 1
  PROVE  s \o t \in Seq(S) /\ Len(s \o t) = Len(s) + Len(t) /\ (s \o t)[1] = s[1]
<1>1. Len(s) \in Nat /\ Len(t) \in Nat
  BY LenProperties
<1>2. 1 \in 1 .. Len(s) + Len(t)
  BY <1>1
<1>3. QED
  BY <1>2, ConcatProperties

\* A message that consume_dump refuses makes a datagram bad.
LEMMA BadFact ==
  ASSUME NEW messages \in Seq(Messages), NEW number, NEW i \in 1 .. Len(messages),
         ~DumpMessageOk(messages[i], number, i = Len(messages))
  PROVE  Bad(Datagram(messages), number) /\ Datagram(messages) \in Datagrams
BY Refused, DatagramsFact DEF Bad, Datagram

\* So does a last message that is refused, whatever is before it.
LEMMA BadLast ==
  ASSUME NEW messages \in Seq(Messages), NEW number, NEW last \in Messages,
         ~DumpMessageOk(last, number, TRUE)
  PROVE  /\ Bad(Datagram(messages \o <<last>>), number)
         /\ Datagram(messages \o <<last>>) \in Datagrams
<1> DEFINE all == messages \o <<last>>
           n == Len(messages)
<1>1. n \in Nat /\ <<last>> \in Seq(Messages) /\ Len(<<last>>) = 1 /\ <<last>>[1] = last
  BY LenProperties
<1>2. /\ all \in Seq(Messages) /\ Len(all) = n + 1
      /\ \A i \in 1 .. n + 1 : all[i] = IF i <= n THEN messages[i] ELSE <<last>>[i - n]
  BY <1>1, ConcatProperties
<1>3. n + 1 \in 1 .. Len(all) /\ all[n + 1] = last
  BY <1>1, <1>2
<1> HIDE DEF all
<1>4. QED
  BY <1>2, <1>3, BadFact DEF all


\* Every way in which the kernel's datagram goes wrong is noticed.
LEMMA FaultIsBad ==
  ASSUME NEW number \in Nat, NEW before \in Nat, NEW count \in Nat,
         NEW messages \in Faulty(Links(number, before, count, FALSE), number)
                          \cup {Links(number, before, count, TRUE)}
  PROVE  Bad(Datagram(messages), number) /\ Datagram(messages) \in Datagrams
<1> DEFINE links == Links(number, before, count, FALSE)
           Other == {"failed", "error", "overrun", "noop"}
           nameless == [Named(1) EXCEPT !.attributes = << >>]
<1>1. links \in Seq(Messages) /\ Len(links) = count
  BY LinksFact
<1>2. nameless \in Contents /\ nameless.attributes = << >> /\ Named(1) \in Contents
  BY NamedFact DEF Named, Contents
<1> HIDE DEF links, nameless
<1>3. CASE messages = links \o <<Message(number, TRUE, "done", None)>>
  <2>1. Message(number, TRUE, "done", None) \in Messages
    BY MessageFact
  <2>2. ~DumpMessageOk(Message(number, TRUE, "done", None), number, TRUE)
    BY DEF DumpMessageOk, Message
  <2>3. QED
    BY <1>1, <1>3, <2>1, <2>2, BadLast
<1>4. CASE messages = << >>
  <2>1. << >> \in Seq(Messages)
    BY EmptySeq
  <2>2. BytesOK(Framed(<< >>)) /\ ~(Framed(<< >>).size > 0)
    BY <2>1, FramedFact
  <2>3. Framed(<< >>).size = 0
    BY <2>2 DEF BytesOK
  <2>4. QED
    BY <1>4, <2>1, <2>3, DatagramsFact DEF Bad, Datagram
<1>5. ASSUME NEW payload \in Other,
             messages = links \o <<Message(number, FALSE, payload, None)>>
      PROVE  Bad(Datagram(messages), number) /\ Datagram(messages) \in Datagrams
  <2>1. Message(number, FALSE, payload, None) \in Messages
    BY MessageFact
  <2>2. ~DumpMessageOk(Message(number, FALSE, payload, None), number, TRUE)
    BY DEF DumpMessageOk, Message
  <2>3. QED
    BY <1>1, <1>5, <2>1, <2>2, BadLast
<1>6. CASE messages = links \o <<Message(number, FALSE, "newlink", nameless)>>
  <2>1. Message(number, FALSE, "newlink", nameless) \in Messages
    BY <1>2, MessageFact
  <2>2. DecodeLink(nameless) = None
    BY <1>2, Nameless
  <2>3. ~DumpMessageOk(Message(number, FALSE, "newlink", nameless), number, TRUE)
    BY <2>2 DEF DumpMessageOk, Message
  <2>4. QED
    BY <1>1, <1>6, <2>1, <2>3, BadLast
<1>7. CASE messages = <<DoneMessage(number)>> \o links
                        \o <<Message(number, FALSE, "newlink", Named(1))>>
  <2> DEFINE first == <<DoneMessage(number)>>
             last == <<Message(number, FALSE, "newlink", Named(1))>>
  <2>1. /\ first \in Seq(Messages) /\ Len(first) = 1 /\ first[1] = DoneMessage(number)
        /\ last \in Seq(Messages) /\ Len(last) = 1
    <3>1. DoneMessage(number) \in Messages
      BY MessageFact DEF DoneMessage
    <3>2. Message(number, FALSE, "newlink", Named(1)) \in Messages
      BY <1>2, MessageFact
    <3>3. QED
      BY <3>1, <3>2, OneFact
  <2> HIDE DEF first, last
  <2>2. /\ first \o links \in Seq(Messages) /\ Len(first \o links) = 1 + count
        /\ (first \o links)[1] = DoneMessage(number)
    <3>1. Len(first) >= 1
      BY <2>1
    <3>2. /\ first \o links \in Seq(Messages) /\ Len(first \o links) = Len(first) + Len(links)
          /\ (first \o links)[1] = first[1]
      BY <1>1, <2>1, <3>1, FirstFact
    <3>3. QED
      BY <1>1, <2>1, <3>2
  <2>3. /\ messages \in Seq(Messages) /\ Len(messages) = 1 + count + 1
        /\ messages[1] = DoneMessage(number)
    <3>1. messages = (first \o links) \o last
      BY <1>7 DEF first, last
    <3>2. Len(first \o links) >= 1
      BY <2>2
    <3> DEFINE head == first \o links
    <3> HIDE DEF head
    <3>3. /\ head \o last \in Seq(Messages) /\ Len(head \o last) = Len(head) + Len(last)
          /\ (head \o last)[1] = head[1]
      <4>1. head \in Seq(Messages) /\ Len(head) >= 1
        BY <2>2, <3>2 DEF head
      <4>2. QED
        BY <2>1, <4>1, FirstFact
    <3>4. messages = head \o last /\ Len(head) = 1 + count /\ head[1] = DoneMessage(number)
      BY <2>2, <3>1 DEF head
    <3>5. QED
      BY <2>1, <3>3, <3>4
  <2>4. 1 \in 1 .. Len(messages) /\ 1 # Len(messages)
    BY <2>3
  <2>5. ~DumpMessageOk(DoneMessage(number), number, FALSE)
    BY DEF DumpMessageOk, DoneMessage, Message
  <2>6. QED
    BY <2>3, <2>4, <2>5, BadFact
<1>8. CASE messages = Links(number, before, count, TRUE)
  <2>1. /\ messages \in Seq(Messages) /\ Len(messages) = count
        /\ \A i \in 1 .. count :
             messages[i] = Message(number, TRUE, "newlink", Named(before + i))
    BY <1>8, LinksFact
  <2>2. CASE count = 0
    BY <1>4, <2>1, <2>2, EmptySeq
  <2>3. CASE count # 0
    <3>1. 1 \in 1 .. count /\ 1 \in 1 .. Len(messages)
          /\ messages[1] = Message(number, TRUE, "newlink", Named(before + 1))
      <4>1. 1 \in 1 .. count
        BY <2>3
      <4>2. QED
        BY <2>1, <4>1
    <3>2. ~DumpMessageOk(messages[1], number, 1 = Len(messages))
      BY <3>1 DEF DumpMessageOk, Message
    <3>3. QED
      BY <2>1, <3>1, <3>2, BadFact
  <2>4. QED
    BY <2>2, <2>3
<1>9. \/ messages = links \o <<Message(number, TRUE, "done", None)>>
      \/ messages = << >>
      \/ \E payload \in Other : messages = links \o <<Message(number, FALSE, payload, None)>>
      \/ messages = links \o <<Message(number, FALSE, "newlink", nameless)>>
      \/ messages = <<DoneMessage(number)>> \o links
                      \o <<Message(number, FALSE, "newlink", Named(1))>>
      \/ messages = Links(number, before, count, TRUE)
  BY DEF Faulty, DoneMessage, links, nameless
<1>10. QED
  BY <1>3, <1>4, <1>5, <1>6, <1>7, <1>8, <1>9

\* A datagram that went wrong is refused, wherever it lies in the socket.
LEMMA KernelFaultInv ==
  ASSUME StreamInv, KernelFault
  PROVE  StreamInv'
<1>1. /\ dump # None /\ ~reply.ended
      /\ UNCHANGED <<sequence, dump, inventory, recent>>
      /\ reply' = [reply EXCEPT !.ended = TRUE, !.faulty = TRUE]
  BY DEF KernelFault
<1> DEFINE number == dump.sequence
           count == reply.all - reply.sent
<1>2. number \in Nat /\ reply.sent \in Nat /\ count \in Nat
  BY <1>1, NumbersFact
<1>3. \A interrupted : LinkMessages(count, interrupted) = Links(number, reply.sent, count, interrupted)
  BY DEF LinkMessages, Links
<1>4. PICK messages \in Faulty(Links(number, reply.sent, count, FALSE), number)
                        \cup {Links(number, reply.sent, count, TRUE)} :
        wire' = Append(wire, Datagram(messages))
  BY <1>3 DEF KernelFault, Deliver
<1>5. Bad(Datagram(messages), number) /\ Datagram(messages) \in Datagrams
  BY <1>2, <1>4, FaultIsBad
<1>6. ReplyOK' /\ reply'.sent = reply.sent
  <2>1. reply \in [all : Nat, sent : Nat, ended : BOOLEAN, faulty : BOOLEAN]
        /\ reply.sent <= reply.all
    BY DEF StreamInv, ReplyOK
  <2>2. /\ reply' \in [all : Nat, sent : Nat, ended : BOOLEAN, faulty : BOOLEAN]
        /\ reply'.sent = reply.sent /\ reply'.all = reply.all /\ reply'.ended = TRUE
    BY <1>1, <2>1, Zenon
  <2>3. QED
    BY <2>1, <2>2 DEF ReplyOK
<1>7. reply.sent <= reply'.sent
  BY <1>2, <1>6
<1>8. Goes(Datagram(messages), number, reply', reply.sent, reply'.sent)
  BY <1>5 DEF Goes
<1>9. QED
  BY <1>1, <1>4, <1>5, <1>6, <1>7, <1>8, DeliverInv

\* So is one with a foreign sequence number, or of a foreign sender.
LEMMA StrayInv ==
  ASSUME StreamInv, Stray
  PROVE  StreamInv'
<1>1. dump # None /\ UNCHANGED <<sequence, dump, inventory, reply, recent>>
  BY DEF Stray
<1>2. PICK number \in ({recent[i] : i \in DOMAIN recent} \ {dump.sequence}) \cup {0},
           payload \in {"newlink", "done"} :
        LET link == IF payload = "newlink" THEN Named(1) ELSE None
        IN \/ Deliver(Datagram(<<Message(number, FALSE, payload, link)>>))
           \/ Deliver([bytes |-> Framed(<<Message(dump.sequence, FALSE, payload, link)>>),
                       from_kernel |-> FALSE])
  BY DEF Stray
<1> DEFINE link == IF payload = "newlink" THEN Named(1) ELSE None
<1>3. number \in Nat /\ number # dump.sequence /\ dump.sequence \in Nat /\ reply.sent \in Nat
  BY <1>1, NumbersFact
<1>4. link \in Contents \cup {None}
  BY NamedFact
<1> HIDE DEF link
<1>5. /\ Message(number, FALSE, payload, link) \in Messages
      /\ Message(dump.sequence, FALSE, payload, link) \in Messages
  BY <1>3, <1>4, MessageFact
<1>6. PICK d \in Datagrams : Bad(d, dump.sequence) /\ wire' = Append(wire, d)
  <2>1. CASE Deliver(Datagram(<<Message(number, FALSE, payload, link)>>))
    <3> DEFINE messages == <<Message(number, FALSE, payload, link)>>
    <3>1. /\ messages \in Seq(Messages) /\ 1 \in 1 .. Len(messages)
          /\ messages[1] = Message(number, FALSE, payload, link)
      <4>1. /\ messages \in Seq(Messages) /\ Len(messages) = 1
            /\ messages[1] = Message(number, FALSE, payload, link)
        BY <1>5, OneFact
      <4> HIDE DEF messages
      <4>2. QED
        BY <4>1
    <3> HIDE DEF messages
    <3>2. ~DumpMessageOk(messages[1], dump.sequence, 1 = Len(messages))
      BY <1>3, <3>1 DEF DumpMessageOk, Message
    <3>3. Bad(Datagram(messages), dump.sequence) /\ Datagram(messages) \in Datagrams
      BY <3>1, <3>2, BadFact
    <3>4. wire' = Append(wire, Datagram(messages))
      BY <2>1 DEF Deliver, messages
    <3>5. QED
      BY <3>3, <3>4
  <2>2. CASE Deliver([bytes |-> Framed(<<Message(dump.sequence, FALSE, payload, link)>>),
                      from_kernel |-> FALSE])
    <3> DEFINE messages == <<Message(dump.sequence, FALSE, payload, link)>>
               d == [bytes |-> Framed(messages), from_kernel |-> FALSE]
    <3>1. messages \in Seq(Messages)
      BY <1>5, OneFact
    <3>2. wire' = Append(wire, d)
      BY <2>2 DEF Deliver
    <3> HIDE DEF messages
    <3>3. d \in Datagrams
      BY <3>1, DatagramsFact
    <3>4. Bad(d, dump.sequence)
      BY DEF Bad
    <3>5. QED
      BY <3>2, <3>3, <3>4
  <2>3. QED
    BY <1>2, <2>1, <2>2 DEF link
<1>7. ReplyOK' /\ reply.sent <= reply'.sent
  BY <1>1, <1>3 DEF StreamInv, ReplyOK
<1>8. Goes(d, dump.sequence, reply', reply.sent, reply'.sent)
  BY <1>6 DEF Goes
<1>9. QED
  BY <1>1, <1>6, <1>7, <1>8, DeliverInv


-----------------------------------------------------------------------------
(***************************************************************************)
(* The steps of inventory().                                               *)
(***************************************************************************)

\* The initial state.
LEMMA InitStream == Init => StreamInv
<1> SUFFICES ASSUME Init PROVE StreamInv
  OBVIOUS
<1>1. /\ sequence = 0 /\ recent = << >> /\ dump = None /\ inventory = None /\ wire = << >>
      /\ reply = [all |-> 0, sent |-> 0, ended |-> TRUE, faulty |-> FALSE]
  BY DEF Init
<1>2. RecentOK
  <2>1. << >> \in Seq(Nat) /\ Len(<< >>) = 0
    BY EmptySeq
  <2>2. QED
    BY <1>1, <2>1, SequencesAssumption DEF RecentOK
<1>3. ReplyOK
  BY <1>1 DEF ReplyOK
<1>4. wire \in Seq(Datagrams)
  BY <1>1, EmptySeq
<1>5. QED
  BY <1>1, <1>2, <1>3, <1>4 DEF StreamInv, CompleteIsWhole

\* A dump socket that cannot be opened ends inventory() before a request.
LEMMA OpenErrInv ==
  ASSUME StreamInv, OpenErr
  PROVE  StreamInv'
<1>1. dump' = None /\ inventory' = None /\ UNCHANGED <<sequence, reply, wire, recent>>
  BY DEF OpenErr
<1>2. RecentOK' /\ ReplyOK'
  BY <1>1 DEF StreamInv, RecentOK, ReplyOK
<1>3. QED
  BY <1>1, <1>2 DEF StreamInv, CompleteIsWhole

\* A request that is not sent has used up its sequence number.
LEMMA SendErrInv ==
  ASSUME StreamInv, SendErr
  PROVE  StreamInv'
<1>1. /\ dump' = None /\ inventory' = None /\ UNCHANGED <<reply, wire>>
      /\ sequence' = NextSequence(sequence) /\ recent' = Remember(sequence')
  BY DEF SendErr
<1>2. RecentOK'
  BY <1>1, RememberOK DEF StreamInv
<1>3. ReplyOK'
  BY <1>1 DEF StreamInv, ReplyOK
<1>4. QED
  BY <1>1, <1>2, <1>3 DEF StreamInv, CompleteIsWhole

\* A request opens a socket of its own, with an empty prefix.
LEMMA RequestInv ==
  ASSUME StreamInv, Request
  PROVE  StreamInv'
<1>1. /\ inventory' = None /\ wire' = << >>
      /\ sequence' = NextSequence(sequence) /\ recent' = Remember(sequence')
      /\ dump' = [sequence |-> sequence', links |-> << >>, total |-> 0]
  BY DEF Request
<1>2. PICK all \in 0 .. MaxLinks :
        reply' = [all |-> all, sent |-> 0, ended |-> FALSE, faulty |-> FALSE]
  BY DEF Request
<1>3. RecentOK' /\ sequence' # 0
  BY <1>1, RememberOK DEF StreamInv
<1>4. ReplyOK' /\ reply'.sent = 0
  BY <1>2, LimitsAssumption DEF ReplyOK
<1>5. wire' \in Seq(Datagrams) /\ Len(wire') = 0
  BY <1>1, EmptySeq
<1> DEFINE at == [i \in 1 .. 1 |-> 0]
<1>6. at[1] = 0 /\ 0 + 1 = 1 /\ \A i \in 1 .. 1 : at[i] \in Nat
  OBVIOUS
<1>7. Whole(0) = << >>
  <2>1. Whole(0) = [i \in {} |-> DecodeLink(Named(i))]
    BY DEF Whole
  <2>2. Whole(0) \in Seq({DecodeLink(Named(i)) : i \in Nat}) /\ Len(Whole(0)) = 0
    BY DEF Whole
  <2>3. QED
    BY <2>2, EmptySeq
<1> HIDE DEF at
<1>8. dump'.links = Whole(0)
  BY <1>1, <1>7
<1>9. Answers(dump'.links, dump'.sequence, reply', wire', at)
  BY <1>4, <1>5, <1>6, <1>8 DEF Answers
<1>10. dump' = [sequence |-> dump'.sequence, links |-> dump'.links, total |-> dump'.total]
       /\ dump'.sequence = sequence'
  BY <1>1
<1>11. DumpOK'
  BY <1>1, <1>3, <1>9, <1>10 DEF DumpOK
<1>12. QED
  BY <1>1, <1>3, <1>4, <1>5, <1>11 DEF StreamInv, CompleteIsWhole

\* inventory() returns an error, or the whole table of an answer that ended.
LEMMA ReturnInv ==
  ASSUME StreamInv, NEW result, Return(result),
         result # None => /\ reply.ended /\ ~reply.faulty
                          /\ result = Whole(reply.all)
  PROVE  StreamInv'
<1>1. /\ dump' = None /\ inventory' = result /\ wire' = << >>
      /\ UNCHANGED <<sequence, reply, recent>>
  BY DEF Return
<1>2. RecentOK' /\ ReplyOK'
  BY <1>1 DEF StreamInv, RecentOK, ReplyOK
<1>3. wire' \in Seq(Datagrams)
  BY <1>1, EmptySeq
<1>4. CompleteIsWhole'
  BY <1>1 DEF CompleteIsWhole, Whole
<1>5. QED
  BY <1>1, <1>2, <1>3, <1>4 DEF StreamInv

\* An inventory() that gives up forgets what it read.
LEMMA ReceiveErrInv ==
  ASSUME StreamInv, GiveUp \/ ReceiveErr
  PROVE  StreamInv'
<1>1. Return(None)
  BY DEF GiveUp, ReceiveErr
<1>2. QED
  BY <1>1, ReturnInv

\* An accepted datagram extends the prefix; only NLMSG_DONE after the last link
\* returns it.
LEMMA ReceiveOkInv ==
  ASSUME StreamInv, ReceiveOk
  PROVE  StreamInv'
<1> DEFINE n == Len(wire)
           d == wire[1]
           number == dump.sequence
           links == dump.links \o Consumed.links
<1>1. dump # None /\ wire # << >> /\ Acceptable /\ Consumed # None
  BY DEF ReceiveOk
<1>2. wire \in Seq(Datagrams) /\ n \in Nat \ {0} /\ d \in Datagrams /\ 1 \in 1 .. n
  <2>1. wire \in Seq(Datagrams) /\ n \in Nat \ {0}
    BY <1>1, EmptySeq DEF StreamInv
  <2>2. 1 \in 1 .. n
    BY <2>1
  <2>3. QED
    BY <2>1, <2>2, ElementOfSeq
<1>3. PICK at : Answers(dump.links, number, reply, wire, at)
  BY <1>1 DEF StreamInv, DumpOK
<1>4. number \in Nat /\ reply.sent \in Nat /\ reply.all \in Nat
  BY <1>1, NumbersFact
<1>5. PICK sent \in Seq(Messages) : d.bytes = Framed(sent)
  BY <1>2 DEF Datagrams, Datagram
\* What was received is the datagram.
<1>6. Received = d.bytes
  <2>1. BytesOK(d.bytes) /\ d.bytes.size \in Nat
    BY <1>5, FramedFact DEF BytesOK
  <2>2. d.bytes.size <= MAX_DATAGRAM
    BY <1>1 DEF Acceptable
  <2>3. Min({d.bytes.size, MAX_DATAGRAM}) = d.bytes.size
    BY <2>1, <2>2, LimitsAssumption, MinFact
  <2>4. QED
    BY <2>1, <2>3, CutFull DEF Received
<1>7. Consumed = ConsumeDump(d.bytes, number)
  BY <1>6 DEF Consumed
<1>8. ~Bad(d, number)
  <2>1. d.from_kernel /\ d.bytes.size > 0
    BY <1>1, <1>6 DEF Acceptable
  <2>2. QED
    BY <1>1, <1>7, <2>1 DEF Bad
<1> DEFINE before == at[1]
           upto == at[2]
           count == upto - before
           part == Links(number, before, count, FALSE)
<1>9. /\ before \in Nat /\ upto \in Nat /\ before <= upto /\ dump.links = Whole(before)
      /\ Goes(d, number, reply, before, upto)
  <2>1. 1 \in 1 .. n + 1 /\ 2 \in 1 .. n + 1 /\ 1 + 1 = 2
    BY <1>2
  <2>2. QED
    BY <1>2, <1>3, <2>1 DEF Answers
<1>10. count \in Nat /\ before + count = upto
  BY <1>9
<1> HIDE DEF before, upto, count, d, number
<1>11. /\ part \in Seq(Messages) /\ Len(part) = count
       /\ \A i \in 1 .. count : part[i] = Message(number, FALSE, "newlink", Named(before + i))
  <2>1. number \in Nat /\ before \in Nat /\ count \in Nat
    BY <1>4, <1>9, <1>10
  <2>2. QED
    BY <2>1, LinksFact
<1>12. Whole(before) \o [i \in 1 .. count |-> DecodeLink(Named(before + i))] = Whole(upto)
  BY <1>9, <1>10, WholeConcat
<1> HIDE DEF part
\* A datagram of links only.
<1>13. ASSUME Part(d, number, before, upto)
       PROVE  ~Consumed.done /\ links = Whole(upto)
  <2>1. d.bytes = Framed(part)
    BY <1>13 DEF Part, Datagram, part, count
  <2>2. ConsumeDump(Framed(part), number) # None /\ Consumed = ConsumeDump(Framed(part), number)
    BY <1>1, <1>7, <2>1
  <2>3. ~(part # << >> /\ part[Len(part)].payload = "done")
    <3>1. CASE count = 0
      BY <1>11, <3>1, EmptySeq
    <3>2. CASE count # 0
      <4>1. count \in 1 .. count
        BY <1>10, <3>2
      <4>2. part[Len(part)].payload = "newlink"
        BY <1>11, <4>1 DEF Message
      <4>3. QED
        BY <4>2
    <3>3. QED
      BY <3>1, <3>2
  <2>4. /\ ~Consumed.done
        /\ Consumed.links = [i \in 1 .. count |-> DecodeLink(part[i].link)]
    BY <1>11, <2>2, <2>3, Accepted
  <2>5. \A i \in 1 .. count : part[i].link = Named(before + i)
    BY <1>11 DEF Message
  <2>6. Consumed.links = [i \in 1 .. count |-> DecodeLink(Named(before + i))]
    BY <2>4, <2>5
  <2>7. QED
    BY <1>9, <1>12, <2>4, <2>6
\* The datagram with the end of the dump.
<1>14. ASSUME End(d, number, reply, before, upto)
       PROVE  Consumed.done /\ links = Whole(reply.all) /\ reply.ended /\ ~reply.faulty
  <2> DEFINE all == part \o <<DoneMessage(number)>>
  <2>1. /\ d.bytes = Framed(all)
        /\ reply.ended /\ ~reply.faulty /\ upto = reply.all
    BY <1>14 DEF End, Datagram, part, count
  <2>2. DoneMessage(number) \in Messages
    BY <1>4, MessageFact DEF DoneMessage, number
  <2>3. /\ <<DoneMessage(number)>> \in Seq(Messages) /\ Len(<<DoneMessage(number)>>) = 1
        /\ <<DoneMessage(number)>>[1] = DoneMessage(number)
    BY <2>2, OneFact
  <2>4. /\ all \in Seq(Messages) /\ Len(all) = count + 1
        /\ \A i \in 1 .. count + 1 :
             all[i] = IF i <= count THEN part[i] ELSE <<DoneMessage(number)>>[i - count]
    BY <1>11, <2>3, ConcatProperties
  <2>5. all[count + 1] = DoneMessage(number) /\ \A i \in 1 .. count : all[i] = part[i]
    <3>1. count + 1 \in 1 .. count + 1 /\ ~(count + 1 <= count) /\ (count + 1) - count = 1
      BY <1>10
    <3>2. \A i \in 1 .. count : i \in 1 .. count + 1 /\ i <= count
      BY <1>10
    <3>3. QED
      BY <2>3, <2>4, <3>1, <3>2
  <2> HIDE DEF all
  <2>6. ConsumeDump(Framed(all), number) # None /\ Consumed = ConsumeDump(Framed(all), number)
    BY <1>1, <1>7, <2>1
  <2>7. all # << >> /\ all[Len(all)].payload = "done" /\ Len(all) - 1 = count
    <3>1. all # << >> /\ Len(all) - 1 = count
      BY <1>10, <2>4, EmptySeq
    <3>2. QED
      BY <2>4, <2>5, <3>1 DEF DoneMessage, Message
  <2>8. /\ Consumed.done
        /\ Consumed.links = [i \in 1 .. count |-> DecodeLink(all[i].link)]
    BY <2>4, <2>6, <2>7, Accepted
  <2>9. \A i \in 1 .. count : all[i].link = Named(before + i)
    BY <1>11, <2>5 DEF Message
  <2>10. Consumed.links = [i \in 1 .. count |-> DecodeLink(Named(before + i))]
    BY <2>8, <2>9
  <2>11. QED
    BY <1>9, <1>12, <2>1, <2>8, <2>10
<1>15. CASE End(d, number, reply, before, upto)
  <2>1. Return(links)
    BY <1>14, <1>15 DEF ReceiveOk
  <2>2. QED
    BY <1>14, <1>15, <2>1, ReturnInv
<1>16. CASE Part(d, number, before, upto)
  <2>1. /\ dump' = [dump EXCEPT !.links = links, !.total = Total]
        /\ wire' = Tail(wire)
        /\ UNCHANGED <<sequence, inventory, reply, recent>>
    BY <1>13, <1>16 DEF ReceiveOk
  <2>2. /\ wire' \in Seq(Datagrams) /\ Len(wire') = n - 1
        /\ \A i \in 1 .. n - 1 : wire'[i] = wire[i + 1]
    <3>1. /\ wire' \in Seq(Datagrams) /\ Len(wire') = n - 1
          /\ \A i \in 1 .. Len(wire') : wire'[i] = wire[i + 1]
      BY <1>1, <1>2, <2>1, HeadTailProperties
    <3>2. QED
      BY <3>1
  <2>3. /\ dump'.sequence = dump.sequence /\ dump'.links = Whole(upto)
        /\ dump' = [sequence |-> dump'.sequence, links |-> dump'.links, total |-> dump'.total]
    BY <1>1, <1>13, <1>16, <2>1 DEF StreamInv, DumpOK
  <2> DEFINE to == [i \in 1 .. n |-> at[i + 1]]
  <2>4. Answers(dump'.links, dump'.sequence, reply', wire', to)
    <3>1. to[1] = upto /\ (n - 1) + 1 = n /\ to[n] = reply.sent
      BY <1>2, <1>3 DEF Answers, upto
    <3>2. \A i \in 1 .. n : to[i] \in Nat
      <4>1. \A i \in 1 .. n : i + 1 \in 1 .. n + 1
        BY <1>2
      <4>2. QED
        BY <1>3, <4>1 DEF Answers
    <3>3. ASSUME NEW i \in 1 .. n - 1
          PROVE  /\ to[i] <= to[i + 1]
                 /\ Goes(wire'[i], dump.sequence, reply, to[i], to[i + 1])
      <4>1. /\ i + 1 \in 1 .. n /\ i \in 1 .. n /\ to[i] = at[i + 1]
            /\ to[i + 1] = at[(i + 1) + 1] /\ wire'[i] = wire[i + 1]
        BY <1>2, <2>2
      <4>2. /\ at[i + 1] <= at[(i + 1) + 1]
            /\ Goes(wire[i + 1], dump.sequence, reply, at[i + 1], at[(i + 1) + 1])
        BY <1>3, <4>1 DEF Answers, number
      <4>3. QED
        BY <4>1, <4>2
    <3> HIDE DEF to
    <3>4. QED
      BY <2>1, <2>2, <2>3, <3>1, <3>2, <3>3 DEF Answers
  <2>5. DumpOK'
    BY <1>1, <2>1, <2>3, <2>4 DEF StreamInv, DumpOK
  <2>6. RecentOK' /\ ReplyOK'
    BY <2>1 DEF StreamInv, RecentOK, ReplyOK
  <2>7. CompleteIsWhole'
    BY <2>1 DEF StreamInv, CompleteIsWhole
  <2>8. QED
    BY <2>2, <2>5, <2>6, <2>7 DEF StreamInv
<1>17. QED
  BY <1>8, <1>9, <1>15, <1>16 DEF Goes

\* A stutter.
LEMMA UnchangedStream ==
  ASSUME StreamInv, UNCHANGED vars
  PROVE  StreamInv'
<1>1. RecentOK' /\ ReplyOK'
  BY DEF vars, StreamInv, RecentOK, ReplyOK
<1>2. dump' # None => DumpOK'
  BY DEF vars, StreamInv, DumpOK
<1>3. QED
  BY <1>1, <1>2 DEF vars, StreamInv, CompleteIsWhole

\* The invariant holds in every state of every run of inventory().
THEOREM StreamInvariance == Spec => []StreamInv
<1>1. StreamInv /\ [Next]_vars => StreamInv'
  <2> SUFFICES ASSUME StreamInv, [Next]_vars PROVE StreamInv'
    OBVIOUS
  <2>1. CASE OpenErr
    BY <2>1, OpenErrInv
  <2>2. CASE SendErr
    BY <2>2, SendErrInv
  <2>3. CASE Request
    BY <2>3, RequestInv
  <2>4. CASE GiveUp \/ ReceiveErr
    BY <2>4, ReceiveErrInv
  <2>5. CASE ReceiveOk
    BY <2>5, ReceiveOkInv
  <2>6. CASE KernelReply
    BY <2>6, KernelReplyInv
  <2>7. CASE KernelFault
    BY <2>7, KernelFaultInv
  <2>8. CASE Stray
    BY <2>8, StrayInv
  <2>9. CASE UNCHANGED vars
    BY <2>9, UnchangedStream
  <2>10. QED
    BY <2>1, <2>2, <2>3, <2>4, <2>5, <2>6, <2>7, <2>8, <2>9 DEF Next
<1>2. QED
  BY <1>1, InitStream, PTL DEF Spec

\* An inventory that is returned is the whole answer to its own request: every
\* link of the kernel's table once and in order, whatever strays into the
\* socket and however the kernel's answer goes wrong.
THEOREM WholeTheorem == Spec => []CompleteIsWhole
<1>1. StreamInv => CompleteIsWhole
  BY DEF StreamInv
<1>2. QED
  BY <1>1, StreamInvariance, PTL

\* The sequence numbers of the last SEQUENCES - 1 requests differ, and no
\* datagram is acceptable as a part of a dump and as a notification.
THEOREM ToldTheorem == Spec => []RequestsAreTold
<1>1. StreamInv => RequestsAreTold
  <2> SUFFICES ASSUME StreamInv PROVE RequestsAreTold
    OBVIOUS
  <2>1. ASSUME NEW i \in DOMAIN recent, NEW j \in DOMAIN recent, i # j
        PROVE  recent[i] # recent[j]
    <3> DEFINE n == Len(recent)
    <3>1. /\ recent \in Seq(Nat) /\ n \in Nat /\ n < SEQUENCES /\ DOMAIN recent = 1 .. n
          /\ sequence \in 0 .. SEQUENCES - 1 /\ SEQUENCES \in Nat
      BY SequencesAssumption, LenProperties DEF StreamInv, RecentOK
    <3>2. sequence # 0
      <4>1. n > 0
        BY <3>1
      <4>2. QED
        BY <4>1, EmptySeq DEF StreamInv, RecentOK
    <3>3. /\ sequence \in 1 .. SEQUENCES - 1
          /\ n - i \in 0 .. SEQUENCES - 2 /\ n - j \in 0 .. SEQUENCES - 2 /\ n - i # n - j
      BY <2>1, <3>1, <3>2
    <3>4. recent[i] = Back(sequence, n - i) /\ recent[j] = Back(sequence, n - j)
      BY <3>1 DEF StreamInv, RecentOK
    <3>5. QED
      BY <3>3, <3>4, BackDistinct
  <2>2. ASSUME dump # None, NEW i \in DOMAIN wire, wire[i].bytes.size > 0
        PROVE  \/ ConsumeDump(wire[i].bytes, dump.sequence) = None
               \/ ReceiveNotification(wire[i].bytes) = None
    <3>1. wire[i] \in Datagrams
      BY LenProperties, ElementOfSeq DEF StreamInv
    <3>2. PICK messages \in Seq(Messages) : wire[i].bytes = Framed(messages)
      BY <3>1 DEF Datagrams, Datagram
    <3>3. messages # << >>
      BY <2>2, <3>2, FramedFact
    <3>4. 1 \in 1 .. Len(messages)
      BY <3>3, EmptySeq
    <3>5. CASE messages[1].sequence # 0
      BY <3>2, <3>4, <3>5, NotNotified
    <3>6. CASE messages[1].sequence = 0
      <4>1. dump.sequence # 0
        BY <2>2, NumbersFact
      <4>2. ~DumpMessageOk(messages[1], dump.sequence, 1 = Len(messages))
        BY <3>6, <4>1 DEF DumpMessageOk
      <4>3. QED
        BY <3>2, <3>4, <4>2, Refused
    <3>7. QED
      BY <3>5, <3>6
  <2>3. QED
    BY <2>1, <2>2 DEF RequestsAreTold
<1>2. QED
  BY <1>1, StreamInvariance, PTL

-----------------------------------------------------------------------------
(***************************************************************************)
(* SocketIo::wait, for every resolution of the clock, every width of       *)
(* poll()'s argument and every timeout.  First that argument.              *)
(***************************************************************************)

\* Rounding up never loses a part of a millisecond.
LEMMA WholeMillisFacts ==
  ASSUME NEW r \in Nat
  PROVE  WholeMillis(r) \in Nat /\ WholeMillis(r) * MILLI >= r
<1> DEFINE q == r \div MILLI
           rest == r % MILLI
<1>1. q \in Nat /\ rest \in 0 .. MILLI - 1 /\ MILLI \in Nat \ {0}
  BY PollAssumption
<1>2. r = (MILLI * q) + rest
  BY PollAssumption
<1>3. WholeMillis(r) = q + IF rest = 0 THEN 0 ELSE 1
  BY DEF WholeMillis
<1> HIDE DEF q, rest
<1>4. (q + 1) * MILLI = (MILLI * q) + MILLI /\ q * MILLI = MILLI * q
  BY <1>1
<1>5. CASE rest = 0
  BY <1>1, <1>2, <1>3, <1>4, <1>5
<1>6. CASE rest # 0
  <2>1. WholeMillis(r) = q + 1
    BY <1>3, <1>6
  <2>2. MILLI * q \in Nat
    BY <1>1
  <2>3. QED
    BY <1>1, <1>2, <1>4, <2>1, <2>2
<1>7. QED
  BY <1>5, <1>6

\* The cast to i32 keeps what fits.
LEMMA CastFacts ==
  ASSUME NEW n \in 0 .. I32_MAX
  PROVE  AsI32(n) = n
<1> DEFINE size == 2 * (I32_MAX + 1)
<1>1. size \in Nat \ {0} /\ n \in Nat /\ n < size /\ n <= I32_MAX
  BY PollAssumption
<1>2. AsI32(n) = IF n % size > I32_MAX THEN (n % size) - size ELSE n % size
  BY DEF AsI32
<1> HIDE DEF size
<1>3. n % size = n
  BY <1>1
<1>4. QED
  BY <1>1, <1>2, <1>3, PollAssumption

\* poll() is never asked to wait for ever, nor less than what is left, up to
\* the longest it can wait.
LEMMA MillisFacts ==
  ASSUME NEW r \in Nat
  PROVE  /\ Millis(r) \in Nat /\ Millis(r) * MILLI \in Nat
         /\ Millis(r) * MILLI >= r \/ Millis(r) * MILLI >= I32_MAX * MILLI
<1>1. WholeMillis(r) \in Nat /\ WholeMillis(r) * MILLI >= r
  BY WholeMillisFacts
<1>2. CASE WholeMillis(r) < I32_MAX
  <2>1. Millis(r) = WholeMillis(r)
    BY <1>1, <1>2, CastFacts, PollAssumption DEF Millis
  <2>2. QED
    BY <1>1, <2>1, PollAssumption
<1>3. CASE ~(WholeMillis(r) < I32_MAX)
  <2>1. Millis(r) = I32_MAX
    BY <1>1, <1>3, CastFacts, PollAssumption DEF Millis
  <2>2. QED
    BY <2>1, PollAssumption
<1>4. QED
  BY <1>2, <1>3

-----------------------------------------------------------------------------
(***************************************************************************)
(* The inductive invariant of wait().                                      *)
(***************************************************************************)

\* What wait() owes its caller.
Owed == Smaller(timeout, I32_MAX * MILLI)

\* The types of wait()'s locals.
WaitFields ==
  /\ pc \in {"idle", "top", "poll", "returned"}
  /\ timeout \in Nat
  /\ elapsed \in 0 .. timeout
  /\ left \in Nat \cup {Never}

\* When poll() gives up, the caller has waited long enough: a signal that
\* interrupts poll() does not make it start from the whole timeout again, and
\* one that never gives up is never started.
GivesUpLate == left # Never => elapsed + left >= Owed

\* The inductive invariant.
WaitInv == WaitFields /\ GivesUpLate /\ NoEarlyDeadline /\ (pc = "poll" => left # Never)

\* The initial state.
LEMMA WaitInitInv == PollInit => WaitInv
BY DEF PollInit, WaitInv, WaitFields, GivesUpLate, NoEarlyDeadline

\* The most wait() owes is a number of ticks, at most the timeout.
LEMMA OwedFacts ==
  ASSUME WaitFields
  PROVE  Owed \in Nat /\ Owed <= timeout
<1>1. I32_MAX * MILLI \in Nat /\ timeout \in Nat
  BY PollAssumption DEF WaitFields
<1>2. QED
  BY <1>1 DEF Owed, Smaller

\* wait() is called, and computes its deadline.
LEMMA CallInv == WaitInv /\ Call => WaitInv'
<1> SUFFICES ASSUME WaitInv, Call PROVE WaitInv'
  OBVIOUS
<1>1. timeout' \in Nat
  BY PollAssumption DEF Call
<1>2. QED
  BY <1>1 DEF Call, WaitInv, WaitFields, GivesUpLate, NoEarlyDeadline

\* The top of the loop: a timeout of poll(2) never ends before the deadline, as
\* far as its width allows.
LEMMA StartPollInv == WaitInv /\ StartPoll => WaitInv'
<1> SUFFICES ASSUME WaitInv, StartPoll PROVE WaitInv'
  OBVIOUS
<1> DEFINE r == timeout - elapsed
           wait == Millis(r) * MILLI
<1>1. r \in Nat /\ elapsed \in Nat /\ timeout \in Nat /\ elapsed + r = timeout
  BY DEF WaitInv, WaitFields
<1>2. Millis(r) \in Nat /\ wait \in Nat /\ (wait >= r \/ wait >= I32_MAX * MILLI)
  BY <1>1, MillisFacts
<1>3. left' = wait
  BY <1>2 DEF StartPoll, Remaining
<1>4. UNCHANGED <<timeout, elapsed, ready>> /\ pc' = "poll"
  BY DEF StartPoll
<1>5. Owed' = Owed /\ Owed \in Nat /\ Owed <= timeout
  BY <1>4, OwedFacts DEF WaitInv, Owed
<1>6. I32_MAX * MILLI \in Nat /\ (Owed <= I32_MAX * MILLI)
  BY PollAssumption, <1>1 DEF Owed, Smaller
<1> HIDE DEF r, wait
<1>7. elapsed + wait >= Owed
  BY <1>1, <1>2, <1>5, <1>6
<1>8. QED
  BY <1>1, <1>2, <1>3, <1>4, <1>5, <1>7, PollAssumption, NeverAssumption
  DEF WaitInv, WaitFields, GivesUpLate, NoEarlyDeadline

\* One tick is taken from what poll() has left and added to what has passed.
LEMMA TickInv == WaitInv /\ Tick => WaitInv'
<1> SUFFICES ASSUME WaitInv, Tick PROVE WaitInv'
  OBVIOUS
<1>1. UNCHANGED <<pc, timeout, ready>>
  BY DEF Tick
<1>2. Owed' = Owed /\ Owed \in Nat /\ Owed <= timeout
  BY <1>1, OwedFacts DEF WaitInv, Owed
<1>3. elapsed \in Nat /\ timeout \in Nat /\ elapsed <= timeout /\ left \in Nat \cup {Never}
  BY DEF WaitInv, WaitFields
<1>4. elapsed' = (IF elapsed < timeout THEN elapsed + 1 ELSE elapsed)
      /\ left' = (IF left \in {Never, 0} THEN left ELSE left - 1)
  BY DEF Tick
<1>5. left' \in Nat \cup {Never} /\ (left' = Never <=> left = Never)
      /\ elapsed' \in 0 .. timeout
  BY <1>3, <1>4, NeverAssumption
<1>6. GivesUpLate'
  BY <1>2, <1>3, <1>4, <1>5, NeverAssumption DEF WaitInv, GivesUpLate
<1>7. QED
  BY <1>1, <1>5, <1>6 DEF WaitInv, WaitFields, NoEarlyDeadline, Tick

\* poll(2) fails or is interrupted.
LEMMA EndInv == WaitInv /\ (Interrupted \/ PollErr) => WaitInv'
BY DEF WaitInv, Interrupted, PollErr, WaitFields, GivesUpLate, NoEarlyDeadline

\* Only the absence of events makes an empty result.
LEMMA PollOkInv ==
  ASSUME WaitInv, NEW found \in [Sockets -> SUBSET Flags], PollOk(found)
  PROVE  WaitInv'
<1>1. UNCHANGED <<timeout, elapsed>> /\ pc' = "returned" /\ left' = Never
      /\ ready' = Result(found) /\ pc = "poll"
  BY DEF PollOk
<1>2. CASE found = NoEvents
  <2>1. left = 0 /\ left # Never
    BY <1>1, <1>2 DEF PollOk, WaitInv
  <2>2. elapsed >= Owed
    BY <2>1, OwedFacts DEF WaitInv, GivesUpLate, WaitFields
  <2>3. QED
    BY <1>1, <2>2 DEF WaitInv, WaitFields, GivesUpLate, NoEarlyDeadline, Owed
<1>3. CASE found # NoEvents
  <2>1. PICK s \in Sockets : found[s] # {}
    BY <1>3 DEF NoEvents
  <2>2. PICK flag \in Flags : flag \in found[s]
    BY <2>1
  <2>3. s \in Result(found).readable \/ s \in Result(found).failed
    BY <2>1, <2>2 DEF Result, Flags
  <2>4. ready' # NotReady
    BY <1>1, <2>3 DEF NotReady
  <2>5. QED
    BY <1>1, <2>4 DEF WaitInv, WaitFields, GivesUpLate, NoEarlyDeadline
<1>4. QED
  BY <1>2, <1>3

-----------------------------------------------------------------------------

\* SocketIo::wait never reports a timeout before its caller's, or the longest
\* that poll() can wait, has passed: for every clock, timeout and sequence of
\* signals.
THEOREM DeadlineTheorem == PollSpec => []NoEarlyDeadline
<1>1. WaitInv /\ [PollNext]_pollVars => WaitInv'
  <2> SUFFICES ASSUME WaitInv, [PollNext]_pollVars PROVE WaitInv'
    OBVIOUS
  <2>1. CASE UNCHANGED pollVars
    BY <2>1 DEF pollVars, WaitInv, WaitFields, GivesUpLate, NoEarlyDeadline, Owed
  <2>2. QED
    BY <2>1, CallInv, StartPollInv, TickInv, EndInv, PollOkInv DEF PollNext
<1>2. WaitInv => NoEarlyDeadline
  BY DEF WaitInv
<1>3. QED
  BY <1>1, <1>2, WaitInitInv, PTL DEF PollSpec

-----------------------------------------------------------------------------
(***************************************************************************)
(* The safety part of WaitEnds: poll() always has a timeout, and a near    *)
(* one.                                                                    *)
(***************************************************************************)

\* Rounding up adds less than a millisecond.
LEMMA WholeMillisBound ==
  ASSUME NEW r \in Nat
  PROVE  WholeMillis(r) * MILLI < r + MILLI
<1> DEFINE q == r \div MILLI
           rest == r % MILLI
<1>1. q \in Nat /\ rest \in 0 .. MILLI - 1 /\ MILLI \in Nat \ {0}
  BY PollAssumption
<1>2. r = (MILLI * q) + rest
  BY PollAssumption
<1>3. WholeMillis(r) = q + IF rest = 0 THEN 0 ELSE 1
  BY DEF WholeMillis
<1> HIDE DEF q, rest
<1>4. (q + 1) * MILLI = (MILLI * q) + MILLI /\ q * MILLI = MILLI * q /\ MILLI * q \in Nat
  BY <1>1
<1>5. CASE rest = 0
  <2>1. WholeMillis(r) = q
    BY <1>1, <1>3, <1>5
  <2>2. QED
    BY <1>1, <1>2, <1>4, <2>1
<1>6. CASE rest # 0
  <2>1. WholeMillis(r) = q + 1
    BY <1>3, <1>6
  <2>2. QED
    BY <1>1, <1>2, <1>4, <1>6, <2>1
<1>7. QED
  BY <1>5, <1>6

\* So does the argument of poll().
LEMMA MillisBound ==
  ASSUME NEW r \in Nat
  PROVE  Millis(r) * MILLI < r + MILLI
<1>1. WholeMillis(r) \in Nat /\ WholeMillis(r) * MILLI < r + MILLI
  BY WholeMillisFacts, WholeMillisBound
<1>2. CASE WholeMillis(r) < I32_MAX
  <2>1. Millis(r) = WholeMillis(r)
    BY <1>1, <1>2, CastFacts, PollAssumption DEF Millis
  <2>2. QED
    BY <1>1, <2>1
<1>3. CASE ~(WholeMillis(r) < I32_MAX)
  <2>1. Millis(r) = I32_MAX
    BY <1>1, <1>3, CastFacts, PollAssumption DEF Millis
  <2> DEFINE whole == WholeMillis(r)
  <2> HIDE DEF whole
  <2>2. whole \in Nat /\ I32_MAX <= whole /\ MILLI \in Nat /\ I32_MAX \in Nat
    BY <1>1, <1>3, PollAssumption DEF whole
  <2>3. I32_MAX * MILLI <= whole * MILLI
    <3>1. \A d \in Nat : (I32_MAX + d) * MILLI = I32_MAX * MILLI + d * MILLI
      BY <2>2
    <3>2. PICK d \in Nat : whole = I32_MAX + d
      <4>1. whole - I32_MAX \in Nat /\ whole = I32_MAX + (whole - I32_MAX)
        BY <2>2
      <4>2. QED
        BY <4>1
    <3>3. d * MILLI \in Nat /\ I32_MAX * MILLI \in Nat
      BY <2>2
    <3>4. QED
      BY <3>1, <3>2, <3>3
  <2>4. I32_MAX * MILLI \in Nat /\ whole * MILLI \in Nat
    BY <2>2
  <2>5. whole * MILLI < r + MILLI
    BY <1>1 DEF whole
  <2>6. QED
    BY <2>1, <2>2, <2>3, <2>4, <2>5
<1>4. QED
  BY <1>2, <1>3

\* What is left to a poll() that runs ends less than a millisecond after the
\* caller's timeout.
Near == left # Never => elapsed + left < timeout + MILLI

\* A poll() that is started is near its timeout.
LEMMA StartPollNear == WaitInv /\ StartPoll => Near'
<1> SUFFICES ASSUME WaitInv, StartPoll PROVE Near'
  OBVIOUS
<1> DEFINE r == timeout - elapsed
           wait == Millis(r) * MILLI
<1>1. r \in Nat /\ elapsed \in Nat /\ timeout \in Nat /\ elapsed + r = timeout
  BY DEF WaitInv, WaitFields
<1>2. Millis(r) \in Nat /\ wait \in Nat /\ wait < r + MILLI
  BY <1>1, MillisFacts, MillisBound
<1>3. left' = wait /\ UNCHANGED <<timeout, elapsed>>
  BY <1>2 DEF StartPoll, Remaining
<1> HIDE DEF r, wait
<1>4. QED
  BY <1>1, <1>2, <1>3, PollAssumption DEF Near

\* Time brings it nearer.
LEMMA TickNear == WaitInv /\ Near /\ Tick => Near'
<1> SUFFICES ASSUME WaitInv, Near, Tick PROVE Near'
  OBVIOUS
<1>1. elapsed \in Nat /\ timeout \in Nat /\ elapsed <= timeout /\ left \in Nat \cup {Never}
  BY DEF WaitInv, WaitFields
<1>2. /\ elapsed' = (IF elapsed < timeout THEN elapsed + 1 ELSE elapsed)
      /\ left' = (IF left \in {Never, 0} THEN left ELSE left - 1)
      /\ timeout' = timeout
  BY DEF Tick
<1>3. QED
  BY <1>1, <1>2, NeverAssumption, PollAssumption DEF Near

\* poll() is never started without a timeout, whatever the caller's timeout and
\* the width of an i32, and gives up less than a millisecond after the
\* caller's: together with fairness this is why wait() ends.
THEOREM NearTheorem ==
  PollSpec => [](pc = "poll" => left # Never /\ elapsed + left < timeout + MILLI)
<1> DEFINE Both == WaitInv /\ Near
<1>1. PollInit => Both
  BY WaitInitInv DEF PollInit, Near
<1>2. Both /\ [PollNext]_pollVars => Both'
  <2> SUFFICES ASSUME Both, [PollNext]_pollVars PROVE Both'
    OBVIOUS
  <2>1. CASE UNCHANGED pollVars
    BY <2>1 DEF pollVars, WaitInv, WaitFields, GivesUpLate, NoEarlyDeadline, Owed, Near
  <2>2. CASE Call
    BY <2>2, CallInv DEF Call, Near
  <2>3. CASE StartPoll
    BY <2>3, StartPollInv, StartPollNear
  <2>4. CASE Tick
    BY <2>4, TickInv, TickNear
  <2>5. CASE Interrupted \/ PollErr
    BY <2>5, EndInv DEF Interrupted, PollErr, Near
  <2>6. CASE \E found \in [Sockets -> SUBSET Flags] : PollOk(found)
    BY <2>6, PollOkInv DEF PollOk, Near
  <2>7. QED
    BY <2>1, <2>2, <2>3, <2>4, <2>5, <2>6 DEF PollNext
<1>3. Both => (pc = "poll" => left # Never /\ elapsed + left < timeout + MILLI)
  BY DEF WaitInv, Near
<1>4. QED
  BY <1>1, <1>2, <1>3, PTL DEF PollSpec

=============================================================================
