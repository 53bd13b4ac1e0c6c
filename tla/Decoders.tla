------------------------------ MODULE Decoders ------------------------------
(***************************************************************************)
(* The decoders of module Netlink on every bounded input.  Either a         *)
(* datagram is written, message by message, and then perhaps damaged: cut   *)
(* at any byte, or with any length in one header.  Or the attributes of one *)
(* RTM_NEWLINK message are written, in every order.                         *)
(***************************************************************************)
EXTENDS Netlink, FiniteSets

CONSTANTS
  MaxMessages,   \* bound on the messages of a datagram
  Payloads,      \* payload lengths in bytes
  MaxAttributes, \* bound on the attributes of a link message
  Indexes,       \* interface indexes that attributes carry
  KindsSent      \* names of link kinds, known and unknown

ASSUME PayloadsAssumption == Payloads \subseteq Nat

\* A message is its place in the datagram and its length.
Messages == [id : Nat, length : Nat]

ASSUME NoneAssumption ==
  /\ None \notin {"cut", "length"} /\ None \notin Messages /\ None \notin Seq(Messages)
  /\ None \notin [message : Messages, next : Nat]

VARIABLES
  sent,      \* the messages written, each with its length
  bytes,     \* the datagram
  damage,    \* None, "cut" or "length"
  attributes \* the attributes of the link message

vars == <<sent, bytes, damage, attributes>>

Init == sent = << >> /\ bytes = NoBytes /\ damage = None /\ attributes = << >>

-----------------------------------------------------------------------------

Write(payload) ==
  LET message == [id |-> Len(sent) + 1, length |-> NETLINK_HEADER_LENGTH + payload]
  IN /\ damage = None /\ attributes = << >> /\ Len(sent) < MaxMessages
     /\ sent' = Append(sent, message)
     /\ bytes' = Put(bytes, message.length, message)
     /\ UNCHANGED <<damage, attributes>>

\* The padding of the last message is optional.
Pad ==
  /\ damage = None /\ bytes.size % 4 # 0
  /\ bytes' = [bytes EXCEPT !.size = Aligned(@)]
  /\ UNCHANGED <<sent, damage, attributes>>

Cut(size) ==
  /\ damage = None /\ size < bytes.size
  /\ bytes' = CutAt(bytes, size)
  /\ damage' = "cut"
  /\ UNCHANGED <<sent, attributes>>

\* deserialize accepts some of the byte strings of a wrong length.
Misdeclare(offset, length) ==
  /\ damage = None /\ offset \in DOMAIN bytes.at
  /\ bytes.at[offset] # Zeros /\ length # bytes.at[offset].length
  /\ \E message \in {None, [id |-> 0, length |-> length]} :
       bytes' = [bytes EXCEPT !.at[offset] = [length |-> length, message |-> message]]
  /\ damage' = "length"
  /\ UNCHANGED <<sent, attributes>>

-----------------------------------------------------------------------------

Attribute(type, value) == [type |-> type, value |-> value]

Data(kind, links) ==
  Attribute("Data", [kind |-> kind,
                     attributes |-> [i \in DOMAIN links |-> Attribute("Link", links[i])]])

\* Infos that the kernel sends, alone, together in both orders, and twice.
InfoLists ==
  (UNION {{<<Attribute("Kind", kind)>>, <<Attribute("Kind", kind), Data(kind, << >>)>>}
            : kind \in KindsSent})
  \cup {<<Data("Vxlan", links)>> : links \in {<<i>> : i \in Indexes} \cup {<<1, 1>>}}
  \cup {<<Data("Vxlan", <<1>>), Attribute("Kind", "Vxlan")>>,
        <<Attribute("Kind", "Vxlan"), Data("Vxlan", <<1>>), Attribute("Statistics", 0)>>,
        <<Attribute("Kind", "Vlan"), Attribute("Kind", "Vlan")>>}

Attributes ==
  {Attribute("IfName", name) : name \in {"a", "b"}}
  \cup {Attribute(type, index) : type \in {"Controller", "Link"}, index \in Indexes}
  \cup {Attribute("LinkNetNsId", 0), Attribute("Mtu", 1500)}
  \cup {Attribute("LinkInfo", infos) : infos \in InfoLists}

\* The kinds that LinkKind tells apart; the others are "Other".
KnownKinds == {"Bond", "Bridge", "Vlan", "MacVlan", "IpVlan", "MacVtap", "Vxlan", "Veth"}

\* The values that fill a slot, and the links that are decoded from them, are
\* neither None nor Duplicate.
ASSUME ValuesAssumption ==
  /\ None # Duplicate /\ {None, Duplicate} \cap (Indexes \cup {1}) = {} /\ Kind(None) = "Other"
  /\ \A attribute \in Attributes : attribute.value \notin {None, Duplicate}
  /\ \A infos \in InfoLists : \A i \in DOMAIN infos : infos[i].value \notin {None, Duplicate}
  /\ None \notin [index : {1}, name : {"a", "b"},
                  kind : KnownKinds \cup {"Other"},
                  controller : Indexes \cup {None}, lower : Indexes \cup {None},
                  lower_netnsid : {0, None}, vxlan_lower : Indexes \cup {1, None}]

Describe(attribute) ==
  /\ bytes = NoBytes /\ damage = None /\ Len(attributes) < MaxAttributes
  /\ attributes' = Append(attributes, attribute)
  /\ UNCHANGED <<sent, bytes, damage>>

Next ==
  \/ \E payload \in Payloads : Write(payload)
  \/ Pad
  \/ \E size \in 0 .. bytes.size : Cut(size)
  \/ \E offset \in DOMAIN bytes.at, length \in 0 .. bytes.size + 4 :
       Misdeclare(offset, length)
  \/ \E attribute \in Attributes : Describe(attribute)

Spec == Init /\ [][Next]_vars

-----------------------------------------------------------------------------

\* The bytes that messages occupy, without the padding of the last.
Occupied(messages) ==
  Frame(messages, [i \in DOMAIN messages |-> messages[i].length]).size

\* decode_datagram returns what a sender framed: no message is lost, repeated,
\* merged or reordered, with or without the last padding.  A datagram that was
\* cut short is refused, unless the cut falls exactly between two messages:
\* then it holds the messages before the cut.
FramingIsExact ==
  LET decoded == DecodeDatagram(bytes)
  IN /\ damage = None => decoded = sent
     /\ damage = "cut" /\ decoded # None =>
          /\ IsPrefix(decoded, sent)
          /\ bytes.size \in {Occupied(decoded), Aligned(Occupied(decoded))}

\* Whatever lengths a datagram declares, the loop of decode_datagram moves on
\* by at least a header and never past the end, so it stops and reads only its
\* own bytes.
DecodeAdvances ==
  \A offset \in DOMAIN bytes.at :
    MessageAt(bytes, offset) # None =>
      MessageAt(bytes, offset).next \in offset + NETLINK_HEADER_LENGTH .. bytes.size

\* The values of one type in a list.
ValuesOf(list, type) == {list[i].value : i \in {j \in DOMAIN list : list[j].type = type}}

Occurrences(list, type) == Cardinality({i \in DOMAIN list : list[i].type = type})

\* decode_link: a link is what its message says, all of it and nothing else,
\* in whatever order.  The index is the header's.  Every other field is the
\* value of the one attribute that carries it, absent if there is none, and a
\* message that carries one twice is refused, not resolved.  Infos count
\* wherever they stand, and only VXLAN data have an underlay.  A known kind is
\* never lost: "Other" is the kind of a link without a kind or with an unknown
\* one, and of no other.
FieldsAreTheAttributes ==
  LET infos == FlattenSeq([i \in DOMAIN attributes |->
                 IF attributes[i].type = "LinkInfo" THEN attributes[i].value ELSE << >>])
      data  == {d \in ValuesOf(infos, "Data") : d.kind = "Vxlan"}
      known == ValuesOf(infos, "Kind") \cap KnownKinds
      unders == UNION {ValuesOf(d.attributes, "Link") : d \in data}
      Is(field, values) == {field} = values \/ (field = None /\ values = {})
      link == DecodeLink([index |-> 1, attributes |-> attributes])
  IN /\ link = None <=>
          \/ Occurrences(attributes, "IfName") # 1
          \/ \E type \in LinkSlots : Occurrences(attributes, type) > 1
          \/ \E type \in InfoSlots : Occurrences(infos, type) > 1
          \/ \E d \in data : Occurrences(d.attributes, "Link") > 1
     /\ link # None =>
          /\ link.index = 1
          /\ {link.name} = ValuesOf(attributes, "IfName")
          /\ Is(link.controller, ValuesOf(attributes, "Controller"))
          /\ Is(link.lower, ValuesOf(attributes, "Link"))
          /\ Is(link.lower_netnsid, ValuesOf(attributes, "LinkNetNsId"))
          /\ Is(link.vxlan_lower, unders)
          /\ {link.kind} = known \/ (link.kind = "Other" /\ known = {})

=============================================================================
