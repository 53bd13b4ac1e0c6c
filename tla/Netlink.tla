------------------------------ MODULE Netlink ------------------------------
(***************************************************************************)
(* The decoders of src/netlink.rs: a datagram becomes messages             *)
(* (decode_datagram), the messages of a dump become links (consume_dump,   *)
(* decode_link), those of the notification socket a change or nothing      *)
(* (receive_notification).  Which of several faults is reported is left    *)
(* out: an error is None.                                                  *)
(*                                                                         *)
(* The bytes of a datagram are their number and, at every offset a message *)
(* can start, the header a reader finds there: the length it declares and  *)
(* the message that NetlinkMessage::deserialize makes of that many bytes   *)
(* (None if it refuses them).                                              *)
(***************************************************************************)
EXTENDS Integers, SequencesExt

CONSTANTS
  NETLINK_HEADER_LENGTH, \* bytes of a message header (16)
  SEQUENCES,             \* sequence numbers: a u32 wraps here (2^32)
  Duplicate,             \* the error of set_once
  None                   \* Rust's Option::None, and an error

ASSUME HeaderAssumption == NETLINK_HEADER_LENGTH \in Nat \ {0} /\ NETLINK_HEADER_LENGTH % 4 = 0

ASSUME SequencesAssumption == SEQUENCES \in Nat /\ SEQUENCES >= 3

-----------------------------------------------------------------------------
(***************************************************************************)
(* The request sequence.  0 is left to notifications.                      *)
(***************************************************************************)
NextSequencePlain(sequence) == (sequence + 1) % SEQUENCES

NextSequence(sequence) ==
  IF sequence + 1 = SEQUENCES THEN 1 ELSE sequence + 1

-----------------------------------------------------------------------------
(***************************************************************************)
(* decode_datagram.                                                        *)
(***************************************************************************)
Aligned(length) == ((length + 3) \div 4) * 4

LengthOkBelow(length, remaining) == length <= remaining

\* A message has at least its header and at most the bytes that are left.
LengthOk(length, remaining) == length \in NETLINK_HEADER_LENGTH .. remaining

PaddingOkAlways(length, remaining) == TRUE

\* The padding of the last message may be missing, but not a part of it.
PaddingOk(length, remaining) == Aligned(length) <= remaining \/ length = remaining

\* One iteration of the loop: the message at an offset and the offset of the
\* next.
MessageAt(bytes, offset) ==
  LET remaining == bytes.size - offset
      header    == bytes.at[offset]
      aligned   == Aligned(header.length)
  IN IF \/ remaining < NETLINK_HEADER_LENGTH \/ ~LengthOk(header.length, remaining)
        \/ header.message = None \/ ~PaddingOk(header.length, remaining)
     THEN None
     ELSE [message |-> header.message,
           next |-> IF aligned > remaining THEN bytes.size ELSE offset + aligned]

\* The sender's side: the next message starts at the next multiple of four,
\* and a reader that starts inside a message finds zeros.
NoBytes == [size |-> 0, at |-> << >>]

Zeros == [length |-> 0, message |-> None]

Starts(size) == {offset \in 0 .. size - 1 : offset % 4 = 0}

Put(bytes, length, message) ==
  LET start == Aligned(bytes.size)
  IN [size |-> start + length,
      at |-> [offset \in Starts(start + length) |->
                IF offset < start THEN bytes.at[offset]
                ELSE IF offset = start
                     THEN [length |-> length, message |-> message] ELSE Zeros]]

\* A datagram of messages, from the first to every one of them.
FrameTo(messages, lengths) ==
  LET to[i \in 0 .. Len(messages)] ==
        IF i = 0 THEN NoBytes ELSE Put(to[i - 1], lengths[i], messages[i])
  IN to

Frame(messages, lengths) == FrameTo(messages, lengths)[Len(messages)]

\* The first bytes only.
CutAt(bytes, size) ==
  [size |-> size, at |-> [offset \in Starts(size) |-> bytes.at[offset]]]

\* The messages from every offset on, None if one of them is refused.
DecodeFrom(bytes) ==
  LET from[offset \in 0 .. bytes.size] ==
        IF offset = bytes.size THEN << >>
        ELSE LET found == MessageAt(bytes, offset)
                 rest  == from[found.next]
             IN IF found = None \/ rest = None THEN None
                ELSE <<found.message>> \o rest
  IN from

DecodeDatagram(bytes) == DecodeFrom(bytes)[0]

-----------------------------------------------------------------------------
(***************************************************************************)
(* decode_link.  An attribute is a type and a value.  The value of a       *)
(* LinkInfo is a list of infos, the value of a Data info the kind whose     *)
(* format it has and the attributes in it.                                 *)
(***************************************************************************)
Kind(info) ==
  IF info \in {"Bond", "Bridge", "Vlan", "MacVlan", "IpVlan", "MacVtap",
               "Vxlan", "Veth"}
  THEN info ELSE "Other"

\* set_once: a slot that is filled already is an error, and stays one.
SetOnce(slots, type, value) ==
  [slots EXCEPT ![type] = IF @ = None THEN value ELSE Duplicate]

\* One attribute; the types that no slot is for are skipped.
Absorb(slots, attribute) ==
  IF attribute.type \in DOMAIN slots
  THEN SetOnce(slots, attribute.type, attribute.value) ELSE slots

HasDuplicate(slots) == \E type \in DOMAIN slots : slots[type] = Duplicate

\* The slots after every attribute of a list.
SlotsTo(types, attributes) ==
  LET to[i \in 0 .. Len(attributes)] ==
        IF i = 0 THEN [type \in types |-> None] ELSE Absorb(to[i - 1], attributes[i])
  IN to

Slots(types, attributes) == SlotsTo(types, attributes)[Len(attributes)]

LinkSlots == {"IfName", "Controller", "Link", "LinkNetNsId"}

InfoSlots == {"Kind", "Data"}

InfosFirstOnly(attributes) ==
  LET infos == SelectSeq(attributes, LAMBDA a : a.type = "LinkInfo")
  IN IF infos = << >> THEN << >> ELSE infos[1].value

\* The infos of all LinkInfo attributes.
Infos(attributes) ==
  FlattenSeq([i \in DOMAIN attributes |->
                IF attributes[i].type = "LinkInfo" THEN attributes[i].value ELSE << >>])

DecodeLink(message) ==
  LET link  == Slots(LinkSlots, message.attributes)
      info  == Slots(InfoSlots, Infos(message.attributes))
      vxlan == info.Data \notin {None, Duplicate} /\ info.Data.kind = "Vxlan"
      under == Slots({"Link"}, IF vxlan THEN info.Data.attributes ELSE << >>)
  IN IF \/ link.IfName = None
        \/ HasDuplicate(link) \/ HasDuplicate(info) \/ HasDuplicate(under)
     THEN None
     ELSE [index |-> message.index, name |-> link.IfName, kind |-> Kind(info.Kind),
           controller |-> link.Controller, lower |-> link.Link,
           lower_netnsid |-> link.LinkNetNsId, vxlan_lower |-> under.Link]

-----------------------------------------------------------------------------
(***************************************************************************)
(* consume_dump: None, or the links of the datagram and whether it ends    *)
(* the dump.  A message has a sequence number, the flag NLM_F_DUMP_INTR, a *)
(* payload type and, for a link, its content.                              *)
(***************************************************************************)
DumpMessageOk(message, sequence, last) ==
  /\ message.sequence = sequence
  /\ ~message.interrupted
  /\ \/ message.payload = "newlink" /\ DecodeLink(message.link) # None
     \/ message.payload = "done" /\ last

ConsumeDump(bytes, sequence) ==
  LET messages == DecodeDatagram(bytes)
      done  == messages # << >> /\ Last(messages).payload = "done"
      count == IF done THEN Len(messages) - 1 ELSE Len(messages)
  IN IF \/ messages = None
        \/ \E i \in DOMAIN messages :
             ~DumpMessageOk(messages[i], sequence, i = Len(messages))
     THEN None
     ELSE [done  |-> done,
           links |-> [i \in 1 .. count |-> DecodeLink(messages[i].link)]]

(***************************************************************************)
(* receive_notification, after the checks of the datagram itself: None, or *)
(* whether a link changed.                                                 *)
(***************************************************************************)
ReceiveNotification(bytes) ==
  LET messages == DecodeDatagram(bytes)
      Link(m) == m.payload \in {"newlink", "dellink"}
  IN IF \/ messages = None
        \/ \E i \in DOMAIN messages :
             \/ messages[i].sequence # 0
             \/ ~Link(messages[i]) /\ messages[i].payload # "noop"
     THEN None
     ELSE [changed |-> \E i \in DOMAIN messages : Link(messages[i])]

=============================================================================
