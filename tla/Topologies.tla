----------------------------- MODULE Topologies -----------------------------
(***************************************************************************)
(* Every inventory up to MaxLinks links, as consume_dump of src/netlink.rs *)
(* accumulates it, with the topology and the table that follow from it.    *)
(***************************************************************************)
EXTENDS Link, Mib, FiniteSets

CONSTANTS
  MaxLinks,      \* bound on the links of one inventory
  MaxReferences, \* bound on the references that they hold together
  Indexes,       \* interface indexes a dump can carry
  Names,         \* names a link can have instead of its own
  KindsSeen      \* and link kinds

ASSUME KindsSeen \subseteq Kinds

VARIABLE links \* the links received so far, in the order of the dump

\* What a link can say of other links.  decode_link takes each field from an
\* attribute of its own: any of them can be there, whatever the others and the
\* kind of the link are.
References ==
  [controller : Indexes \cup {None}, lower : Indexes \cup {None},
   lower_netnsid : {0, None}, vxlan_lower : Indexes \cup {None}]

ReferenceFields == {"controller", "lower", "lower_netnsid", "vxlan_lower"}

\* How many references the links of a list hold.
Held(list) ==
  Cardinality({at \in (DOMAIN list) \X ReferenceFields : list[at[1]][at[2]] # None})

\* The references by the number of fields that are there.
ReferencesHolding == [n \in 0 .. 4 |-> {r \in References : Held(<<r>>) = n}]

ObservedLink(index, name, kind, references) ==
  [index |-> index, name |-> name, kind |-> kind,
   controller |-> references.controller, lower |-> references.lower,
   lower_netnsid |-> references.lower_netnsid, vxlan_lower |-> references.vxlan_lower]

Init == links = << >>

Push(index, name, kind, references) ==
  links' = Append(links, ObservedLink(index, name, kind, references))

\* A link's own name is its index.  An inventory with a duplicate or an
\* invalid identity is refused whatever follows, so it is not extended.
Next ==
  /\ Len(links) < MaxLinks
  /\ IdentitiesOk(links)
  /\ \E n \in {m \in 0 .. 4 : Held(links) + m <= MaxReferences} :
       \E index \in Indexes, kind \in KindsSeen, references \in ReferencesHolding[n] :
         \E name \in Names \cup {index} : Push(index, name, kind, references)

Spec == Init /\ [][Next]_links

-----------------------------------------------------------------------------

topology == FromObserved(links)

\* The kernel may list a link before or after the links it refers to: the
\* order of the dump decides neither whether the inventory is refused nor
\* what the topology is.  Reversal and rotation generate every order.
OrderIndependent ==
  /\ FromObserved(Reverse(links)) = topology
  /\ links # << >> => FromObserved(Append(Tail(links), Head(links))) = topology

\* RFC 2863: every interface is at least once above and at least once below,
\* and 0 stands for "nothing" only where there is really nothing.  No row
\* relates an interface to itself, and 0.0 is not a row.
IsStack(t) ==
  LET rows == FromTopology(t)
      Above(i) == {row[1] : row \in {r \in rows : r[2] = i}}
      Below(i) == {row[2] : row \in {r \in rows : r[1] = i}}
      Neighbours(S) == S # {} /\ (0 \in S => S = {0})
  IN /\ \A i \in t.interfaces : Neighbours(Above(i)) /\ Neighbours(Below(i))
     /\ \A row \in rows : row[1] # row[2]
     /\ \A row \in rows : {row[1], row[2]} \subseteq t.interfaces \cup {0}

\* The table that from_topology makes of an accepted inventory is a stack,
\* also where one link is a member of a controller and above another link.
RowsAreAStack == topology # None => IsStack(topology)

=============================================================================
