-------------------------------- MODULE Link --------------------------------
(***************************************************************************)
(* Topology::from_observed of src/link.rs: a complete inventory of         *)
(* observed links, in the order of the dump, becomes a topology or is      *)
(* refused.  Which of several faults is reported is left out.              *)
(***************************************************************************)
EXTENDS Integers, Sequences

CONSTANTS
  MAX_INDEX, \* largest interface index (i32::MAX)
  NoName,    \* the empty interface name
  None       \* Rust's Option::None

ASSUME IndexAssumption == MAX_INDEX \in Nat

(***************************************************************************)
(* An observed link is a record with the fields of struct ObservedLink:    *)
(* index, name, kind, controller, lower, lower_netnsid, vxlan_lower.       *)
(***************************************************************************)
Kinds == {"Bond", "Bridge", "Vlan", "MacVlan", "IpVlan", "MacVtap", "Vxlan",
          "Veth", "Other"}

Controllers == {"Bond", "Bridge"}

Layered == {"Vlan", "MacVlan", "IpVlan", "MacVtap"}

IndexesOf(links) == {links[i].index : i \in DOMAIN links}

\* by_index.
ByIndex(links, index) ==
  links[CHOOSE i \in DOMAIN links : links[i].index = index]

\* First loop: every link has an index and a name of its own.
IdentitiesOk(links) ==
  /\ \A i \in DOMAIN links :
       /\ links[i].index \in 1 .. MAX_INDEX
       /\ links[i].name # NoName
  /\ \A i, j \in DOMAIN links :
       i # j => links[i].index # links[j].index /\ links[i].name # links[j].name

\* Second loop: what makes one link's references acceptable ...
ControllerOk(links, link) ==
  link.controller # None =>
    link.controller \in IndexesOf(links) \ {link.index}

LowerOk(links, link) ==
  link.kind \in Layered =>
    /\ link.lower \in IndexesOf(links) \ {link.index}
    /\ link.lower_netnsid = None

\* The underlay of a VXLAN, if it is one of the interfaces of this namespace.
Underlay(links, link) ==
  {link.vxlan_lower} \cap
  (IF link.kind = "Vxlan" /\ link.lower_netnsid = None THEN IndexesOf(links) ELSE {})

UnderlayOk(links, link) == link.index \notin Underlay(links, link)

Relationship(higher, lower) == [higher |-> higher, lower |-> lower]

\* The controller is looked up among the links before this one only.
MembershipsInOnePass(links, i) ==
  {Relationship(links[j].index, links[i].index) :
     j \in {k \in 1 .. i - 1 : links[k].index = links[i].controller
                               /\ links[k].kind \in Controllers}}

\* ... and the relationships it contributes.
Memberships(links, i) ==
  IF links[i].controller # None
     /\ ByIndex(links, links[i].controller).kind \in Controllers
  THEN {Relationship(links[i].controller, links[i].index)}
  ELSE {}

Layers(links, i) ==
  {Relationship(links[i].index, lower) :
     lower \in Underlay(links, links[i])
               \cup IF links[i].kind \in Layered THEN {links[i].lower} ELSE {}}

LinkOkIgnoringSelf(links, link) ==
  /\ link.controller # None => link.controller \in IndexesOf(links)
  /\ LowerOk(links, link)

LinkOk(links, link) ==
  ControllerOk(links, link) /\ LowerOk(links, link) /\ UnderlayOk(links, link)

\* None is the Err.
FromObserved(links) ==
  IF IdentitiesOk(links) /\ \A i \in DOMAIN links : LinkOk(links, links[i])
  THEN [interfaces    |-> IndexesOf(links),
        relationships |->
          UNION {Memberships(links, i) \cup Layers(links, i) : i \in DOMAIN links}]
  ELSE None

=============================================================================
