------------------------------ MODULE MibProofs ------------------------------
(***************************************************************************)
(* The path from a dump to the answers of src/mib.rs, for inventories and  *)
(* tables of any size.  Topology::from_observed and Mib::from_topology do  *)
(* not depend on the order of the dump, and the table they build is a      *)
(* stack that is well ended.  Mib::get_next and Mib::get_bulk walk any     *)
(* table once, in order and whole, and get_bulk is what a manager gets     *)
(* from as many GetNext requests.                                          *)
(*                                                                         *)
(* The prover cannot instantiate a theorem about every predicate, so       *)
(* induction is used in the form of a least element: a set of numbers that *)
(* is not empty has one, and the least counterexample refutes itself.      *)
(***************************************************************************)
EXTENDS Topologies, TableWalk, FiniteSetTheorems, WellFoundedInduction, SequenceTheorems, TLAPS

-----------------------------------------------------------------------------
(***************************************************************************)
(* The order of the dump.                                                  *)
(***************************************************************************)

\* other lists the links in another order: place says where each one stands.
Reordered(other, list, place) ==
  /\ place \in [DOMAIN other -> DOMAIN list]
  /\ \A i \in DOMAIN other : other[i] = list[place[i]]
  /\ \A i, j \in DOMAIN other : i # j => place[i] # place[j]
  /\ \A k \in DOMAIN list : \E i \in DOMAIN other : place[i] = k

\* A list in another order has the same indexes.
LEMMA SameIndexes ==
  ASSUME NEW list, NEW other, NEW place, Reordered(other, list, place)
  PROVE  IndexesOf(other) = IndexesOf(list)
BY DEF Reordered, IndexesOf

\* ... and its identities are refused for the same reasons.
LEMMA SameIdentities ==
  ASSUME NEW list, NEW other, NEW place, Reordered(other, list, place)
  PROVE  IdentitiesOk(other) <=> IdentitiesOk(list)
<1>1. ASSUME IdentitiesOk(list) PROVE IdentitiesOk(other)
  BY <1>1 DEF Reordered, IdentitiesOk
<1>2. ASSUME IdentitiesOk(other) PROVE IdentitiesOk(list)
  <2>1. ASSUME NEW k \in DOMAIN list
        PROVE  list[k].index \in 1 .. MAX_INDEX /\ list[k].name # NoName
    BY <1>2 DEF Reordered, IdentitiesOk
  <2>2. ASSUME NEW k \in DOMAIN list, NEW l \in DOMAIN list, k # l
        PROVE  list[k].index # list[l].index /\ list[k].name # list[l].name
    <3>1. PICK i \in DOMAIN other : place[i] = k
      BY DEF Reordered
    <3>2. PICK j \in DOMAIN other : place[j] = l
      BY DEF Reordered
    <3>3. i # j /\ other[i] = list[k] /\ other[j] = list[l]
      BY <2>2, <3>1, <3>2 DEF Reordered
    <3>4. QED
      BY <1>2, <3>3 DEF IdentitiesOk
  <2>3. QED
    BY <2>1, <2>2 DEF IdentitiesOk
<1>3. QED
  BY <1>1, <1>2

\* by_index finds the one link with an index.
LEMMA ByIndexFacts ==
  ASSUME NEW list, IdentitiesOk(list), NEW i \in DOMAIN list
  PROVE  ByIndex(list, list[i].index) = list[i]
<1>1. \A j \in DOMAIN list : list[j].index = list[i].index => j = i
  BY DEF IdentitiesOk
<1>2. QED
  BY <1>1 DEF ByIndex

\* A lookup does not depend on the order.
LEMMA SameLookup ==
  ASSUME NEW list, NEW other, NEW place, Reordered(other, list, place),
         IdentitiesOk(list), NEW index \in IndexesOf(list)
  PROVE  ByIndex(other, index) = ByIndex(list, index)
<1>1. PICK i \in DOMAIN other : other[i].index = index
  BY SameIndexes DEF IndexesOf
<1>2. ByIndex(other, index) = other[i]
  BY <1>1, SameIdentities, ByIndexFacts
<1>3. place[i] \in DOMAIN list /\ list[place[i]] = other[i]
  BY DEF Reordered
<1>4. ByIndex(list, index) = list[place[i]]
  BY <1>1, <1>3, ByIndexFacts
<1>5. QED
  BY <1>2, <1>3, <1>4

\* Whether a link is acceptable depends on the others' indexes only.
LEMMA SameVerdict ==
  ASSUME NEW list, NEW other, IndexesOf(other) = IndexesOf(list), NEW link
  PROVE  LinkOk(other, link) <=> LinkOk(list, link)
BY DEF LinkOk, ControllerOk, LowerOk, UnderlayOk, Underlay

\* A link contributes the same relationships wherever it stands.
LEMMA SameContribution ==
  ASSUME NEW list, NEW other, NEW place, Reordered(other, list, place),
         IdentitiesOk(list), NEW i \in DOMAIN other,
         ControllerOk(list, other[i])
  PROVE  Memberships(other, i) \cup Layers(other, i)
         = Memberships(list, place[i]) \cup Layers(list, place[i])
<1>1. other[i] = list[place[i]]
  BY DEF Reordered
<1>2. IndexesOf(other) = IndexesOf(list)
  BY SameIndexes
<1>3. Memberships(other, i) = Memberships(list, place[i])
  <2>1. CASE other[i].controller = None
    BY <1>1, <2>1 DEF Memberships
  <2>2. CASE other[i].controller # None
    <3>1. other[i].controller \in IndexesOf(list)
      BY <2>2 DEF ControllerOk
    <3>2. ByIndex(other, other[i].controller) = ByIndex(list, other[i].controller)
      BY <3>1, SameLookup
    <3>3. QED
      BY <1>1, <3>2 DEF Memberships
  <2>3. QED
    BY <2>1, <2>2
<1>4. Layers(other, i) = Layers(list, place[i])
  BY <1>1, <1>2 DEF Layers, Underlay
<1>5. QED
  BY <1>3, <1>4

\* Topology::from_observed returns the same topology, or refuses, in whatever
\* order the kernel lists the links: the general form of OrderIndependent.
THEOREM AnyOrder ==
  ASSUME NEW list, NEW other, NEW place, Reordered(other, list, place)
  PROVE  FromObserved(other) = FromObserved(list)
<1>1. IndexesOf(other) = IndexesOf(list)
  BY SameIndexes
<1>2. (\A i \in DOMAIN other : LinkOk(other, other[i]))
      <=> (\A k \in DOMAIN list : LinkOk(list, list[k]))
  <2>1. \A link : LinkOk(other, link) <=> LinkOk(list, link)
    BY <1>1, SameVerdict
  <2>2. QED
    BY <2>1 DEF Reordered
<1>3. CASE ~(IdentitiesOk(list) /\ \A k \in DOMAIN list : LinkOk(list, list[k]))
  BY <1>2, <1>3, SameIdentities DEF FromObserved
<1>4. CASE IdentitiesOk(list) /\ \A k \in DOMAIN list : LinkOk(list, list[k])
  <2> DEFINE Of(l, i) == Memberships(l, i) \cup Layers(l, i)
  <2>1. ASSUME NEW i \in DOMAIN other PROVE Of(other, i) = Of(list, place[i])
    <3>1. ControllerOk(list, other[i])
      BY <1>4 DEF Reordered, LinkOk
    <3>2. QED
      BY <1>4, <3>1, SameContribution
  <2> HIDE DEF Of
  <2>2. UNION {Of(other, i) : i \in DOMAIN other} = UNION {Of(list, k) : k \in DOMAIN list}
    BY <2>1 DEF Reordered
  <2>3. IdentitiesOk(other) /\ \A i \in DOMAIN other : LinkOk(other, other[i])
    BY <1>2, <1>4, SameIdentities
  <2>4. QED
    BY <1>1, <1>4, <2>2, <2>3 DEF FromObserved, Of
<1>5. QED
  BY <1>3, <1>4

-----------------------------------------------------------------------------
(***************************************************************************)
(* The inventories that a dump makes are sequences.                        *)
(***************************************************************************)

\* What decode_link can return.
ObservedLinks ==
  [index : Indexes, name : Names \cup Indexes, kind : KindsSeen,
   controller : Indexes \cup {None}, lower : Indexes \cup {None},
   lower_netnsid : {0, None}, vxlan_lower : Indexes \cup {None}]

\* The list is one of observed links.
LinksOK == links \in Seq(ObservedLinks)

\* consume_dump only appends links.
LEMMA Typing == Spec => []LinksOK
<1>1. Init => LinksOK
  BY DEF Init, LinksOK
<1>2. LinksOK /\ [Next]_links => LinksOK'
  <2> SUFFICES ASSUME links \in Seq(ObservedLinks), [Next]_links
               PROVE  links' \in Seq(ObservedLinks)
    BY DEF LinksOK
  <2>1. CASE links' = links
    BY <2>1
  <2>2. CASE Next
    <3>1. PICK index \in Indexes, kind \in KindsSeen, name \in Names \cup Indexes,
               references \in References :
            Push(index, name, kind, references)
      <4>1. \A n \in 0 .. 4 : ReferencesHolding[n] \subseteq References
        BY DEF ReferencesHolding
      <4>2. QED
        BY <2>2, <4>1 DEF Next
    <3>2. references = [controller |-> references.controller, lower |-> references.lower,
                        lower_netnsid |-> references.lower_netnsid,
                        vxlan_lower |-> references.vxlan_lower]
      BY DEF References
    <3>3. PICK link \in ObservedLinks : links' = Append(links, link)
      BY <3>1, <3>2 DEF Push, ObservedLink, ObservedLinks, References
    <3>4. QED
      BY <3>3
  <2>3. QED
    BY <2>1, <2>2
<1>3. QED
  BY <1>1, <1>2, PTL DEF Spec

\* A reversed list is a reordered one.
LEMMA ReverseReorders ==
  ASSUME NEW S, NEW list \in Seq(S)
  PROVE  FromObserved(Reverse(list)) = FromObserved(list)
<1> DEFINE n == Len(list)
           place == [i \in 1 .. n |-> (n - i) + 1]
<1>1. n \in Nat /\ DOMAIN list = 1 .. n
  OBVIOUS
<1>2. DOMAIN Reverse(list) = 1 .. n
      /\ \A i \in 1 .. n : Reverse(list)[i] = list[(n - i) + 1]
  BY DEF Reverse
<1> HIDE DEF n
<1>3. place \in [1 .. n -> 1 .. n]
  BY <1>1
<1>4. \A i, j \in 1 .. n : i # j => place[i] # place[j]
  BY <1>1
<1>5. \A k \in 1 .. n : \E i \in 1 .. n : place[i] = k
  <2> SUFFICES ASSUME NEW k \in 1 .. n PROVE \E i \in 1 .. n : place[i] = k
    OBVIOUS
  <2>1. (n - k) + 1 \in 1 .. n /\ place[(n - k) + 1] = k
    BY <1>1
  <2>2. QED
    BY <2>1
<1>6. \A i \in 1 .. n : Reverse(list)[i] = list[place[i]]
  BY <1>2
<1> HIDE DEF place
<1>7. Reordered(Reverse(list), list, place)
  BY <1>1, <1>2, <1>3, <1>4, <1>5, <1>6 DEF Reordered
<1>8. QED
  BY <1>7, AnyOrder

\* So is a rotated one.
LEMMA RotationReorders ==
  ASSUME NEW S, NEW list \in Seq(S), list # << >>
  PROVE  FromObserved(Append(Tail(list), Head(list))) = FromObserved(list)
<1> DEFINE n == Len(list)
           other == Append(Tail(list), Head(list))
           place == [i \in 1 .. n |-> IF i = n THEN 1 ELSE i + 1]
<1>1. n \in Nat /\ n >= 1 /\ DOMAIN list = 1 .. n
  OBVIOUS
<1>2. DOMAIN other = 1 .. n
  OBVIOUS
<1>3. \A i \in 1 .. n : other[i] = list[IF i = n THEN 1 ELSE i + 1]
  OBVIOUS
<1> HIDE DEF n, other
<1>4. place \in [1 .. n -> 1 .. n]
  BY <1>1
<1>5. \A i, j \in 1 .. n : i # j => place[i] # place[j]
  BY <1>1
<1>6. \A k \in 1 .. n : \E i \in 1 .. n : place[i] = k
  <2> SUFFICES ASSUME NEW k \in 1 .. n PROVE \E i \in 1 .. n : place[i] = k
    OBVIOUS
  <2> DEFINE i == IF k = 1 THEN n ELSE k - 1
  <2>1. i \in 1 .. n /\ place[i] = k
    BY <1>1
  <2>2. QED
    BY <2>1
<1>7. \A i \in 1 .. n : other[i] = list[place[i]]
  BY <1>3
<1> HIDE DEF place
<1>8. Reordered(other, list, place)
  BY <1>1, <1>2, <1>4, <1>5, <1>6, <1>7 DEF Reordered
<1>9. QED
  BY <1>8, AnyOrder DEF other

\* The order of the dump decides nothing.
THEOREM OrderTheorem == Spec => []OrderIndependent
<1>1. LinksOK => OrderIndependent
  BY ReverseReorders, RotationReorders DEF LinksOK, OrderIndependent, topology
<1>2. QED
  BY <1>1, Typing, PTL

-----------------------------------------------------------------------------
(***************************************************************************)
(* The rows of a topology.                                                 *)
(***************************************************************************)

\* What from_observed guarantees of the topologies it returns: 0 is no
\* interface, and a relationship is one between two different interfaces.
SoundTopology(t) ==
  /\ 0 \notin t.interfaces
  /\ \A r \in t.relationships :
       /\ r.higher \in t.interfaces /\ r.lower \in t.interfaces
       /\ r.higher # r.lower

\* Whatever was observed, a topology that is accepted is sound.
LEMMA TopologiesAreSound ==
  ASSUME NEW list, FromObserved(list) # None
  PROVE  SoundTopology(FromObserved(list))
<1> DEFINE t == FromObserved(list)
<1>1. IdentitiesOk(list) /\ \A i \in DOMAIN list : LinkOk(list, list[i])
  BY DEF FromObserved
<1>2. /\ t.interfaces = IndexesOf(list)
      /\ t.relationships =
           UNION {Memberships(list, i) \cup Layers(list, i) : i \in DOMAIN list}
  BY <1>1 DEF FromObserved
<1> HIDE DEF t
<1>3. 0 \notin t.interfaces
  BY <1>1, <1>2, IndexAssumption DEF IdentitiesOk, IndexesOf
<1>4. ASSUME NEW r \in t.relationships
      PROVE  r.higher \in IndexesOf(list) /\ r.lower \in IndexesOf(list)
             /\ r.higher # r.lower
  <2>1. PICK i \in DOMAIN list : r \in Memberships(list, i) \cup Layers(list, i)
    BY <1>2
  <2>2. list[i].index \in IndexesOf(list)
    BY DEF IndexesOf
  <2>3. LinkOk(list, list[i])
    BY <1>1
  <2>4. CASE r \in Memberships(list, i)
    <3>1. r = Relationship(list[i].controller, list[i].index) /\ list[i].controller # None
      BY <2>4 DEF Memberships
    <3>2. list[i].controller \in IndexesOf(list) \ {list[i].index}
      BY <2>3, <3>1 DEF LinkOk, ControllerOk
    <3>3. QED
      BY <2>2, <3>1, <3>2 DEF Relationship
  <2>5. CASE r \in Layers(list, i)
    <3>1. PICK lower : /\ r = Relationship(list[i].index, lower)
                       /\ \/ lower \in Underlay(list, list[i])
                          \/ list[i].kind \in Layered /\ lower = list[i].lower
      BY <2>5 DEF Layers
    <3>2. lower \in IndexesOf(list) \ {list[i].index}
      BY <2>3, <3>1 DEF LinkOk, LowerOk, UnderlayOk, Underlay
    <3>3. QED
      BY <2>2, <3>1, <3>2 DEF Relationship
  <2>6. QED
    BY <2>1, <2>4, <2>5
<1>5. QED
  BY <1>2, <1>3, <1>4 DEF SoundTopology, t

\* The rows of from_topology, by kind.
LEMMA RowFacts ==
  ASSUME NEW t, NEW row \in FromTopology(t)
  PROVE  \/ \E r \in t.relationships : row = <<r.higher, r.lower>>
         \/ \E i \in t.interfaces : row = <<0, i>>
              /\ \A r \in t.relationships : r.lower # i
         \/ \E i \in t.interfaces : row = <<i, 0>>
              /\ \A r \in t.relationships : r.higher # i
BY DEF FromTopology

\* Every interface has something above, 0 only if there is nothing.
LEMMA AboveFacts ==
  ASSUME NEW t, SoundTopology(t), NEW i \in t.interfaces,
         NEW rows, rows = FromTopology(t),
         NEW above, above = {row[1] : row \in {r \in rows : r[2] = i}}
  PROVE  above # {} /\ (0 \in above => above = {0})
<1>1. CASE \E r \in t.relationships : r.lower = i
  <2>1. PICK r \in t.relationships : r.lower = i
    BY <1>1
  <2>2. <<r.higher, i>> \in rows
    BY <2>1 DEF FromTopology
  <2>3. ASSUME NEW row \in rows, row[2] = i PROVE row[1] # 0
    BY <1>1, <2>3, RowFacts DEF SoundTopology
  <2>4. <<r.higher, i>>[1] \in above
    BY <2>2
  <2>5. QED
    BY <2>3, <2>4
<1>2. CASE ~\E r \in t.relationships : r.lower = i
  <2>1. <<0, i>> \in rows
    BY <1>2 DEF FromTopology
  <2>2. ASSUME NEW row \in rows, row[2] = i PROVE row[1] = 0
    BY <1>2, <2>2, RowFacts DEF SoundTopology
  <2>3. <<0, i>>[1] \in above /\ <<0, i>>[1] = 0
    BY <2>1
  <2>4. QED
    BY <2>2, <2>3
<1>3. QED
  BY <1>1, <1>2

\* Every interface has something below, 0 only if there is nothing.
LEMMA BelowFacts ==
  ASSUME NEW t, SoundTopology(t), NEW i \in t.interfaces,
         NEW rows, rows = FromTopology(t),
         NEW below, below = {row[2] : row \in {r \in rows : r[1] = i}}
  PROVE  below # {} /\ (0 \in below => below = {0})
<1>1. CASE \E r \in t.relationships : r.higher = i
  <2>1. PICK r \in t.relationships : r.higher = i
    BY <1>1
  <2>2. <<i, r.lower>> \in rows
    BY <2>1 DEF FromTopology
  <2>3. ASSUME NEW row \in rows, row[1] = i PROVE row[2] # 0
    BY <1>1, <2>3, RowFacts DEF SoundTopology
  <2>4. <<i, r.lower>>[2] \in below
    BY <2>2
  <2>5. QED
    BY <2>3, <2>4
<1>2. CASE ~\E r \in t.relationships : r.higher = i
  <2>1. <<i, 0>> \in rows
    BY <1>2 DEF FromTopology
  <2>2. ASSUME NEW row \in rows, row[1] = i PROVE row[2] = 0
    BY <1>2, <2>2, RowFacts DEF SoundTopology
  <2>3. <<i, 0>>[2] \in below /\ <<i, 0>>[2] = 0
    BY <2>1
  <2>4. QED
    BY <2>2, <2>3
<1>3. QED
  BY <1>1, <1>2

\* Whatever list of links is accepted, its table is a stack in the sense of
\* RFC 2863.
THEOREM AnyStack ==
  ASSUME NEW list, FromObserved(list) # None
  PROVE  IsStack(FromObserved(list))
<1>1. PICK t : t = FromObserved(list)
  OBVIOUS
<1>2. SoundTopology(t)
  BY <1>1, TopologiesAreSound
<1>3. ASSUME NEW row \in FromTopology(t)
      PROVE  row[1] # row[2] /\ {row[1], row[2]} \subseteq t.interfaces \cup {0}
  BY <1>2, RowFacts DEF SoundTopology
<1> DEFINE rows == FromTopology(t)
           Above(i) == {row[1] : row \in {r \in rows : r[2] = i}}
           Below(i) == {row[2] : row \in {r \in rows : r[1] = i}}
<1>4. ASSUME NEW i \in t.interfaces
      PROVE  /\ Above(i) # {} /\ (0 \in Above(i) => Above(i) = {0})
             /\ Below(i) # {} /\ (0 \in Below(i) => Below(i) = {0})
  <2>1. PICK lines : lines = FromTopology(t)
    OBVIOUS
  <2>2. PICK above : above = {row[1] : row \in {r \in lines : r[2] = i}}
    OBVIOUS
  <2>3. PICK below : below = {row[2] : row \in {r \in lines : r[1] = i}}
    OBVIOUS
  <2>4. above # {} /\ (0 \in above => above = {0})
    BY <1>2, <2>1, <2>2, AboveFacts
  <2>5. below # {} /\ (0 \in below => below = {0})
    BY <1>2, <2>1, <2>3, BelowFacts
  <2>6. Above(i) = above /\ Below(i) = below
    BY <2>1, <2>2, <2>3
  <2>7. QED
    BY <2>4, <2>5, <2>6
<1>5. IsStack(t)
  BY <1>3, <1>4 DEF IsStack
<1>6. QED
  BY <1>1, <1>5

\* So is the table of every inventory that a dump builds and from_observed
\* accepts.
THEOREM StackTheorem == Spec => []RowsAreAStack
<1>1. RowsAreAStack
  BY AnyStack DEF RowsAreAStack, topology
<1>2. QED
  BY <1>1, PTL

-----------------------------------------------------------------------------
(***************************************************************************)
(* Induction.                                                              *)
(***************************************************************************)

\* Every set of numbers has a least element, unless it is empty.
LEMMA LeastElement ==
  ASSUME NEW T, T \subseteq Nat, T # {}
  PROVE  \E n \in T : \A m \in T : n <= m
<1>1. PICK n \in T : \A m \in T : ~ (<<m, n>> \in OpToRel(<, Nat))
  BY NatLessThanWellFounded, WFMin, Zenon
<1>2. \A m \in T : ~(m < n)
  BY <1>1 DEF OpToRel
<1>3. n \in Nat /\ \A m \in T : m \in Nat /\ n <= m
  BY <1>2
<1>4. QED
  BY <1>3

\* A set that holds 0 and, with a number below n, the next one, holds all
\* numbers up to n.
LEMMA UpTo ==
  ASSUME NEW n \in Nat, NEW S, 0 \in S, \A k \in 0 .. n - 1 : k \in S => k + 1 \in S
  PROVE  \A k \in 0 .. n : k \in S
<1> DEFINE T == {k \in 0 .. n : k \notin S}
<1>1. SUFFICES ASSUME T # {} PROVE FALSE
  OBVIOUS
<1>2. T \subseteq Nat
  OBVIOUS
<1>3. PICK k \in T : \A m \in T : k <= m
  <2> HIDE DEF T
  <2>1. QED
    BY <1>1, <1>2, LeastElement
<1>4. k \in 0 .. n /\ k \notin S /\ k # 0
  OBVIOUS
<1>5. k - 1 \in 0 .. n - 1
  BY <1>4
<1>6. k - 1 \in S
  BY <1>3, <1>4, <1>5
<1>7. (k - 1) + 1 \in S
  BY <1>5, <1>6
<1>8. QED
  BY <1>4, <1>7

-----------------------------------------------------------------------------
(***************************************************************************)
(* Ord for ID is a total order on object identifiers.                      *)
(***************************************************************************)

\* Object identifiers.
IDs == Seq(Nat)

\* The k-th component decides.
LessAt(a, b, k) ==
  /\ k \in 1 .. Len(b)
  /\ k <= Len(a) + 1
  /\ \A i \in 1 .. k - 1 : a[i] = b[i]
  /\ k <= Len(a) => a[k] < b[k]

\* One component decides.
LEMMA LessIsAt ==
  ASSUME NEW a, NEW b
  PROVE  Less(a, b) <=> \E k : LessAt(a, b, k)
BY DEF Less, LessAt

\* The components of an identifier.
LEMMA IDFacts ==
  ASSUME NEW a \in IDs
  PROVE  Len(a) \in Nat /\ DOMAIN a = 1 .. Len(a) /\ \A i \in 1 .. Len(a) : a[i] \in Nat
BY LenProperties, ElementOfSeq DEF IDs

\* No identifier comes before itself.
LEMMA LessIrreflexive ==
  ASSUME NEW a \in IDs
  PROVE  ~Less(a, a)
<1>1. SUFFICES ASSUME NEW k, LessAt(a, a, k) PROVE FALSE
  BY LessIsAt
<1>2. k \in 1 .. Len(a) /\ k <= Len(a) /\ a[k] < a[k]
  BY <1>1, IDFacts DEF LessAt
<1>3. QED
  BY <1>2, IDFacts

\* The earlier of two deciding components decides.
LEMMA LessTransitive ==
  ASSUME NEW a \in IDs, NEW b \in IDs, NEW c \in IDs, Less(a, b), Less(b, c)
  PROVE  Less(a, c)
<1>1. PICK k : LessAt(a, b, k)
  BY LessIsAt
<1>2. PICK l : LessAt(b, c, l)
  BY LessIsAt
<1>3. /\ Len(a) \in Nat /\ Len(b) \in Nat /\ Len(c) \in Nat
      /\ \A i \in 1 .. Len(a) : a[i] \in Nat
      /\ \A i \in 1 .. Len(b) : b[i] \in Nat
      /\ \A i \in 1 .. Len(c) : c[i] \in Nat
  BY IDFacts
<1>4. CASE k < l
  <2>1. k \in 1 .. Len(c) /\ k <= Len(b) /\ b[k] = c[k]
    BY <1>1, <1>2, <1>3, <1>4 DEF LessAt
  <2>2. LessAt(a, c, k)
    BY <1>1, <1>2, <1>3, <1>4, <2>1 DEF LessAt
  <2>3. QED
    BY <2>2, LessIsAt
<1>5. CASE k = l
  <2>1. LessAt(a, c, k)
    BY <1>1, <1>2, <1>3, <1>5 DEF LessAt
  <2>2. QED
    BY <2>1, LessIsAt
<1>6. CASE l < k
  <2>1. l <= Len(a) /\ a[l] = b[l] /\ l <= Len(b)
    BY <1>1, <1>2, <1>3, <1>6 DEF LessAt
  <2>2. LessAt(a, c, l)
    BY <1>1, <1>2, <1>3, <1>6, <2>1 DEF LessAt
  <2>3. QED
    BY <2>2, LessIsAt
<1>7. k \in Int /\ l \in Int
  BY <1>1, <1>2, <1>3 DEF LessAt
<1>8. QED
  BY <1>4, <1>5, <1>6, <1>7

\* Of two identifiers one comes first: the first difference decides.
LEMMA LessTotal ==
  ASSUME NEW a \in IDs, NEW b \in IDs, a # b
  PROVE  Less(a, b) \/ Less(b, a)
<1> DEFINE Decides(k) == \/ k = Len(a) + 1
                         \/ k = Len(b) + 1
                         \/ a[k] # b[k]
           T == {k \in Nat \ {0} : k <= Len(a) + 1 /\ k <= Len(b) + 1 /\ Decides(k)}
<1>1. /\ Len(a) \in Nat /\ Len(b) \in Nat
      /\ DOMAIN a = 1 .. Len(a) /\ DOMAIN b = 1 .. Len(b)
      /\ \A i \in 1 .. Len(a) : a[i] \in Nat
      /\ \A i \in 1 .. Len(b) : b[i] \in Nat
  BY IDFacts
<1>2. T # {} /\ T \subseteq Nat
  <2>1. CASE Len(a) <= Len(b)
    <3>1. Len(a) + 1 \in T
      BY <1>1, <2>1
    <3>2. QED
      BY <3>1
  <2>2. CASE ~(Len(a) <= Len(b))
    <3>1. Len(b) + 1 \in T
      BY <1>1, <2>2
    <3>2. QED
      BY <3>1
  <2>3. QED
    BY <2>1, <2>2
<1>3. PICK k \in T : \A m \in T : k <= m
  <2> HIDE DEF T
  <2>1. QED
    BY <1>2, LeastElement
<1>4. k \in Nat \ {0} /\ k <= Len(a) + 1 /\ k <= Len(b) + 1 /\ Decides(k)
  OBVIOUS
<1>5. \A i \in 1 .. k - 1 : i \notin T
  BY <1>3, <1>4
<1>6. \A i \in 1 .. k - 1 : a[i] = b[i]
  BY <1>1, <1>4, <1>5
<1> HIDE DEF T
<1>7. CASE k <= Len(b) /\ (k <= Len(a) => a[k] < b[k])
  <2>1. LessAt(a, b, k)
    BY <1>1, <1>4, <1>6, <1>7 DEF LessAt
  <2>2. QED
    BY <2>1, LessIsAt
<1>8. CASE k <= Len(a) /\ (k <= Len(b) => b[k] < a[k])
  <2>1. LessAt(b, a, k)
    BY <1>1, <1>4, <1>6, <1>8 DEF LessAt
  <2>2. QED
    BY <2>1, LessIsAt
<1>9. CASE k = Len(a) + 1 /\ k = Len(b) + 1
  <2>0. Len(a) = Len(b) /\ k - 1 = Len(a)
    <3> HIDE DEF Decides
    <3>1. \A x, y \in Nat : k = x + 1 /\ k = y + 1 => x = y /\ k - 1 = x
      BY <1>4
    <3>2. QED
      BY <1>1, <1>9, <3>1
  <2>1. Len(a) = Len(b) /\ \A i \in 1 .. Len(a) : a[i] = b[i]
    BY <1>6, <2>0
  <2>2. a = b
    BY <2>1, SeqEqual DEF IDs
  <2>3. QED
    BY <2>2
<1>10. CASE k <= Len(a) /\ k <= Len(b)
  <2>1. a[k] # b[k] /\ a[k] \in Nat /\ b[k] \in Nat
    BY <1>1, <1>4, <1>10
  <2>2. a[k] < b[k] \/ b[k] < a[k]
    BY <2>1
  <2>3. QED
    BY <1>7, <1>8, <1>10, <2>2
<1>11. QED
  BY <1>1, <1>4, <1>7, <1>8, <1>9, <1>10

\* A finite set of identifiers has a first one, which BTreeMap::range finds.
LEMMA FirstExists ==
  ASSUME NEW S, S \subseteq IDs, IsFiniteSet(S), S # {}
  PROVE  \E n \in S : \A m \in S \ {n} : Less(n, m)
<1> DEFINE HasFirst(R) == \E n \in R : \A m \in R \ {n} : Less(n, m)
           T == {c \in Nat : \E R \in SUBSET S : R # {} /\ Cardinality(R) = c /\ ~HasFirst(R)}
<1>1. \A R \in SUBSET S : IsFiniteSet(R) /\ Cardinality(R) \in Nat
  BY FS_Subset, FS_CardinalityType
<1>2. SUFFICES ASSUME T # {} PROVE FALSE
  BY <1>1
<1>3. PICK c \in T : \A d \in T : c <= d
  <2> T \subseteq Nat
    OBVIOUS
  <2> HIDE DEF T
  <2>1. QED
    BY <1>2, LeastElement
<1>4. PICK R \in SUBSET S : R # {} /\ Cardinality(R) = c /\ ~HasFirst(R)
  OBVIOUS
<1>5. PICK x \in R : TRUE
  BY <1>4
<1> DEFINE Q == R \ {x}
<1>6. Q \in SUBSET S /\ Cardinality(Q) = c - 1 /\ c \in Nat
  BY <1>1, <1>4, <1>5, FS_RemoveElement
<1>7. HasFirst(Q) \/ Q = {}
  <2>1. Cardinality(Q) \in Nat
    BY <1>1, <1>6
  <2>2. c - 1 \notin T
    BY <1>3, <1>6
  <2>3. QED
    BY <1>6, <2>1, <2>2
<1>8. CASE Q = {}
  BY <1>4, <1>5, <1>8
<1>9. CASE HasFirst(Q)
  <2>1. PICK n \in Q : \A m \in Q \ {n} : Less(n, m)
    BY <1>9
  <2>2. n \in IDs /\ x \in IDs /\ n # x /\ n \in R
    BY <1>4, <1>5, <2>1
  <2>3. CASE Less(n, x)
    <3>1. \A m \in R \ {n} : Less(n, m)
      BY <2>1, <2>3
    <3>2. QED
      BY <1>4, <2>2, <3>1
  <2>4. CASE Less(x, n)
    <3>1. ASSUME NEW m \in R \ {x} PROVE Less(x, m)
      <4>1. m \in IDs /\ (m = n \/ Less(n, m))
        BY <1>4, <2>1, <3>1
      <4>2. QED
        BY <2>2, <2>4, <4>1, LessTransitive
    <3>2. QED
      BY <1>4, <1>5, <3>1
  <2>5. QED
    BY <2>2, <2>3, <2>4, LessTotal
<1>10. QED
  BY <1>7, <1>8, <1>9

-----------------------------------------------------------------------------
(***************************************************************************)
(* get_next.                                                               *)
(***************************************************************************)

\* A table as Mib keeps it.
TableOK(rows) == rows \subseteq IDs /\ IsFiniteSet(rows)

\* A search range of AgentX.
RangeOK(r) ==
  /\ r = [start |-> r.start, include |-> r.include, end |-> r.end]
  /\ r.start \in IDs
  /\ r.end \in IDs \cup {Null}

\* name lies before the end of a range.
Before(r, name) == r.end = Null \/ Less(name, r.end)

\* The answer that repeats a name is one of two kinds.
LEMMA NextKinds ==
  ASSUME NEW rows, NEW r
  PROVE  LET next == GetNext(rows, r)
         IN /\ next = [name |-> next.name, data |-> next.data]
            /\ next.data \in {"active", "endOfMibView"}
BY DEF GetNext, Binding

\* get_next answers the first candidate, if it lies before the end of the
\* range, and otherwise no candidate does.
LEMMA NextFacts ==
  ASSUME NEW rows, TableOK(rows), NEW r, RangeOK(r)
  PROVE  LET next == GetNext(rows, r)
             after == Candidates(rows, r)
         IN \/ /\ next.data = "active"
               /\ next.name \in after /\ Before(r, next.name)
               /\ \A m \in after \ {next.name} : Less(next.name, m)
            \/ /\ next.data = "endOfMibView"
               /\ next.name = r.start
               /\ \A m \in after : ~Before(r, m)
<1> DEFINE after == Candidates(rows, r)
           first == CHOOSE name \in after : \A other \in after \ {name} : Less(name, other)
<1>1. GetNext(rows, r) = IF after # {} /\ Before(r, first)
                         THEN Binding(first, "active")
                         ELSE Binding(r.start, "endOfMibView")
  BY DEF GetNext, Before
<1>2. after \subseteq IDs /\ IsFiniteSet(after) /\ r.end \in IDs \cup {Null}
  BY FS_Subset DEF TableOK, Candidates, RangeOK
<1>3. after # {} => first \in after /\ \A other \in after \ {first} : Less(first, other)
  <2> HIDE DEF after
  <2>1. QED
    BY <1>2, FirstExists
<1> HIDE DEF after, first
<1>4. CASE after # {} /\ Before(r, first)
  BY <1>1, <1>3, <1>4 DEF Binding, after
<1>5. CASE after = {}
  BY <1>1, <1>5 DEF Binding, after
<1>6. CASE after # {} /\ ~Before(r, first)
  <2>1. ASSUME NEW m \in after, Before(r, m) PROVE FALSE
    <3>1. m \in IDs /\ first \in IDs /\ r.end \in IDs /\ r.end # Null /\ Less(m, r.end)
      BY <1>2, <1>3, <1>6, <2>1 DEF Before
    <3>2. m = first \/ Less(first, m)
      BY <1>3, <1>6
    <3>3. Less(first, r.end)
      BY <3>1, <3>2, LessTransitive
    <3>4. QED
      BY <1>6, <3>3 DEF Before
  <2>2. QED
    BY <1>1, <1>6, <2>1 DEF Binding, after
<1>7. QED
  BY <1>4, <1>5, <1>6

\* The published tables, as object identifiers.
LEMMA PublishedOK ==
  ASSUME NEW rows \in PublishedTables
  PROVE  TableOK(rows) /\ \A name \in rows : Less(STATUS, name)
<1>1. PICK pairs \in Tables : rows = FromRows(pairs)
  BY DEF PublishedTables
<1>2. pairs \subseteq Nat \X Nat /\ IsFiniteSet(pairs)
  BY TablesAssumption
<1> DEFINE named == [pair \in pairs |-> STATUS \o pair]
<1>3. rows = {named[pair] : pair \in pairs}
  BY <1>1 DEF FromRows
<1>4. IsFiniteSet(rows)
  <2>1. named \in Surjection(pairs, rows)
    BY <1>3 DEF Surjection
  <2>2. QED
    BY <1>2, <2>1, FS_Surjection
<1>5. ASSUME NEW name \in rows
      PROVE  name \in IDs /\ Less(STATUS, name)
  <2>1. PICK pair \in pairs : name = STATUS \o pair
    BY <1>3
  <2>2. PICK h \in Nat, l \in Nat : pair = <<h, l>>
    BY <1>2
  <2>3. /\ STATUS \in Seq(Nat) /\ Len(STATUS) = 1 /\ STATUS[1] = 3
        /\ pair \in Seq(Nat) /\ Len(pair) = 2
    BY <2>2 DEF STATUS
  <2>4. /\ name \in Seq(Nat) /\ Len(name) = Len(STATUS) + Len(pair)
        /\ \A i \in 1 .. Len(STATUS) + Len(pair) :
             name[i] = IF i <= Len(STATUS) THEN STATUS[i] ELSE pair[i - Len(STATUS)]
    BY <2>1, <2>3, ConcatProperties, Zenon
  <2>5. LessAt(STATUS, name, 2)
    BY <2>3, <2>4 DEF LessAt
  <2>6. QED
    BY <2>4, <2>5, LessIsAt DEF IDs
<1>6. QED
  BY <1>4, <1>5 DEF TableOK

-----------------------------------------------------------------------------
(***************************************************************************)
(* The loops of get_bulk, and the walk it is compared with, are well       *)
(* defined.                                                                *)
(***************************************************************************)

\* The right-hand side of the definition of RangesTo.
Ranging(rows, r, n, to, i) ==
  IF i = 0 THEN r ELSE MoveTo(to[i - 1], GetNext(rows, to[i - 1]).name)

\* The equation has a solution on the first k requests, for every k.
LEMMA RangingExists ==
  ASSUME NEW rows, NEW r, NEW n \in Nat
  PROVE  \E f : f = [i \in 0 .. n |-> Ranging(rows, r, n, f, i)]
<1> DEFINE Solves(f, k) == f = [i \in 0 .. k |-> Ranging(rows, r, n, f, i)]
           S == {k \in 0 .. n : \E f : Solves(f, k)}
<1>1. 0 \in S
  <2> DEFINE f == [i \in 0 .. 0 |-> r]
  <2>1. \A i \in 0 .. 0 : Ranging(rows, r, n, f, i) = r
    BY DEF Ranging
  <2>2. Solves(f, 0)
    BY <2>1
  <2>3. QED
    BY <2>2
<1>2. ASSUME NEW k \in 0 .. n - 1, k \in S PROVE k + 1 \in S
  <2>1. PICK f : Solves(f, k)
    BY <1>2
  <2> DEFINE g == [i \in 0 .. k + 1 |->
                     IF i = k + 1 THEN Ranging(rows, r, n, f, i) ELSE f[i]]
  <2>2. ASSUME NEW i \in 0 .. k + 1 PROVE g[i] = Ranging(rows, r, n, g, i)
    <3>1. i = 0 \/ g[i - 1] = f[i - 1]
      OBVIOUS
    <3>2. Ranging(rows, r, n, f, i) = Ranging(rows, r, n, g, i)
      BY <3>1 DEF Ranging
    <3>3. i # k + 1 => f[i] = Ranging(rows, r, n, f, i)
      BY <2>1
    <3>4. QED
      BY <3>2, <3>3
  <2>3. g = [i \in 0 .. k + 1 |-> g[i]]
    OBVIOUS
  <2> HIDE DEF g
  <2>4. g = [i \in 0 .. k + 1 |-> Ranging(rows, r, n, g, i)]
    BY <2>2, <2>3
  <2>5. QED
    BY <2>4
<1>3. \A k \in 0 .. n : k \in S
  <2> HIDE DEF S
  <2>1. QED
    BY <1>1, <1>2, UpTo
<1>4. QED
  BY <1>3

\* A walk goes on from the name it was answered.
LEMMA RangingEquation ==
  ASSUME NEW rows, NEW r, NEW n \in Nat
  PROVE  LET to == RangesTo(rows, r, n)
         IN /\ to[0] = r
            /\ \A i \in 1 .. n : to[i] = MoveTo(to[i - 1], GetNext(rows, to[i - 1]).name)
<1> DEFINE to == RangesTo(rows, r, n)
<1>1. to = CHOOSE f : f = [i \in 0 .. n |-> Ranging(rows, r, n, f, i)]
  BY DEF RangesTo, Ranging
<1>2. to = [i \in 0 .. n |-> Ranging(rows, r, n, to, i)]
  BY <1>1, RangingExists
<1> HIDE DEF to
<1>3. \A i \in 0 .. n : to[i] = Ranging(rows, r, n, to, i)
  BY <1>2
<1>4. QED
  BY <1>3 DEF Ranging, to

\* The right-hand side of the definition of RepeatersTo.
Repeating(rows, acc, to, i) ==
  IF i = 0 THEN [acc EXCEPT !.exhausted = TRUE] ELSE RepeatRange(rows, to[i - 1], i)

\* The equation has a solution on the first k repeaters, for every k.
LEMMA RepeatingExists ==
  ASSUME NEW rows, NEW acc, Len(acc.ranges) \in Nat
  PROVE  \E f : f = [i \in 0 .. Len(acc.ranges) |-> Repeating(rows, acc, f, i)]
<1> DEFINE n == Len(acc.ranges)
           Solves(f, k) == f = [i \in 0 .. k |-> Repeating(rows, acc, f, i)]
           S == {k \in 0 .. n : \E f : Solves(f, k)}
<1>1. 0 \in S
  <2> DEFINE f == [i \in 0 .. 0 |-> [acc EXCEPT !.exhausted = TRUE]]
  <2>1. \A i \in 0 .. 0 : Repeating(rows, acc, f, i) = [acc EXCEPT !.exhausted = TRUE]
    BY DEF Repeating
  <2>2. Solves(f, 0)
    BY <2>1
  <2>3. QED
    BY <2>2
<1>2. ASSUME NEW k \in 0 .. n - 1, k \in S PROVE k + 1 \in S
  <2>1. PICK f : Solves(f, k)
    BY <1>2
  <2> DEFINE g == [i \in 0 .. k + 1 |->
                     IF i = k + 1 THEN Repeating(rows, acc, f, i) ELSE f[i]]
  <2>2. ASSUME NEW i \in 0 .. k + 1 PROVE g[i] = Repeating(rows, acc, g, i)
    <3>1. i = 0 \/ g[i - 1] = f[i - 1]
      OBVIOUS
    <3>2. Repeating(rows, acc, f, i) = Repeating(rows, acc, g, i)
      BY <3>1 DEF Repeating
    <3>3. i # k + 1 => f[i] = Repeating(rows, acc, f, i)
      BY <2>1
    <3>4. QED
      BY <3>2, <3>3
  <2>3. g = [i \in 0 .. k + 1 |-> g[i]]
    OBVIOUS
  <2> HIDE DEF g
  <2>4. g = [i \in 0 .. k + 1 |-> Repeating(rows, acc, g, i)]
    BY <2>2, <2>3
  <2>5. QED
    BY <2>4
<1>3. \A k \in 0 .. n : k \in S
  <2> HIDE DEF S
  <2>1. QED
    BY <1>1, <1>2, UpTo
<1>4. QED
  BY <1>3

\* A repetition handles one repeater after the other.
LEMMA RepeatingEquation ==
  ASSUME NEW rows, NEW acc, Len(acc.ranges) \in Nat
  PROVE  LET to == RepeatersTo(rows, acc)
         IN /\ to[0] = [acc EXCEPT !.exhausted = TRUE]
            /\ \A i \in 1 .. Len(acc.ranges) : to[i] = RepeatRange(rows, to[i - 1], i)
<1> DEFINE to == RepeatersTo(rows, acc)
<1>1. to = CHOOSE f : f = [i \in 0 .. Len(acc.ranges) |-> Repeating(rows, acc, f, i)]
  BY DEF RepeatersTo, Repeating
<1>2. to = [i \in 0 .. Len(acc.ranges) |-> Repeating(rows, acc, to, i)]
  BY <1>1, RepeatingExists
<1> HIDE DEF to
<1>3. \A i \in 0 .. Len(acc.ranges) : to[i] = Repeating(rows, acc, to, i)
  BY <1>2
<1>4. to[0] = [acc EXCEPT !.exhausted = TRUE]
  <2>1. 0 \in 0 .. Len(acc.ranges)
    OBVIOUS
  <2>2. to[0] = Repeating(rows, acc, to, 0)
    BY <1>3, <2>1
  <2>3. QED
    BY <2>2, Zenon DEF Repeating
<1>5. \A i \in 1 .. Len(acc.ranges) : to[i] = RepeatRange(rows, to[i - 1], i)
  BY <1>3 DEF Repeating
<1>6. QED
  BY <1>4, <1>5 DEF to

\* The right-hand side of the definition of RepetitionsTo.
Iterating(rows, start, n, to, i) ==
  IF i = 0 THEN start ELSE Repetition(rows, to[i - 1])

\* The equation has a solution on the first k repetitions, for every k.
LEMMA IteratingExists ==
  ASSUME NEW rows, NEW start, NEW n \in Nat
  PROVE  \E f : f = [i \in 0 .. n |-> Iterating(rows, start, n, f, i)]
<1> DEFINE Solves(f, k) == f = [i \in 0 .. k |-> Iterating(rows, start, n, f, i)]
           S == {k \in 0 .. n : \E f : Solves(f, k)}
<1>1. 0 \in S
  <2> DEFINE f == [i \in 0 .. 0 |-> start]
  <2>1. \A i \in 0 .. 0 : Iterating(rows, start, n, f, i) = start
    BY DEF Iterating
  <2>2. Solves(f, 0)
    BY <2>1
  <2>3. QED
    BY <2>2
<1>2. ASSUME NEW k \in 0 .. n - 1, k \in S PROVE k + 1 \in S
  <2>1. PICK f : Solves(f, k)
    BY <1>2
  <2> DEFINE g == [i \in 0 .. k + 1 |->
                     IF i = k + 1 THEN Iterating(rows, start, n, f, i) ELSE f[i]]
  <2>2. ASSUME NEW i \in 0 .. k + 1 PROVE g[i] = Iterating(rows, start, n, g, i)
    <3>1. i = 0 \/ g[i - 1] = f[i - 1]
      OBVIOUS
    <3>2. Iterating(rows, start, n, f, i) = Iterating(rows, start, n, g, i)
      BY <3>1 DEF Iterating
    <3>3. i # k + 1 => f[i] = Iterating(rows, start, n, f, i)
      BY <2>1
    <3>4. QED
      BY <3>2, <3>3
  <2>3. g = [i \in 0 .. k + 1 |-> g[i]]
    OBVIOUS
  <2> HIDE DEF g
  <2>4. g = [i \in 0 .. k + 1 |-> Iterating(rows, start, n, g, i)]
    BY <2>2, <2>3
  <2>5. QED
    BY <2>4
<1>3. \A k \in 0 .. n : k \in S
  <2> HIDE DEF S
  <2>1. QED
    BY <1>1, <1>2, UpTo
<1>4. QED
  BY <1>3

\* One repetition follows the other.
LEMMA IteratingEquation ==
  ASSUME NEW rows, NEW start, NEW n \in Nat
  PROVE  LET to == RepetitionsTo(rows, start, n)
         IN /\ to[0] = start
            /\ \A i \in 1 .. n : to[i] = Repetition(rows, to[i - 1])
<1> DEFINE to == RepetitionsTo(rows, start, n)
<1>1. to = CHOOSE f : f = [i \in 0 .. n |-> Iterating(rows, start, n, f, i)]
  BY DEF RepetitionsTo, Iterating
<1>2. to = [i \in 0 .. n |-> Iterating(rows, start, n, to, i)]
  BY <1>1, IteratingExists
<1> HIDE DEF to
<1>3. \A i \in 0 .. n : to[i] = Iterating(rows, start, n, to, i)
  BY <1>2
<1>4. QED
  BY <1>3 DEF Iterating, to

-----------------------------------------------------------------------------
(***************************************************************************)
(* get_bulk.  A request q has n non-repeaters, width repeaters and at most *)
(* times repetitions; once are the answers of the non-repeaters, walk[j]   *)
(* the answers of GetNext asked again and again for the j-th repeater,     *)
(* moved[j] the ranges in between, and answers is a set that holds them    *)
(* all.                                                                    *)
(***************************************************************************)
RequestOK(rows, q) ==
  /\ q.n \in Nat /\ q.width \in Nat /\ q.times \in Nat
  /\ \A i \in 1 .. q.n : q.once[i] \in q.answers
  /\ \A j \in 1 .. q.width, k \in 1 .. q.times :
       /\ q.walk[j][k] = GetNext(rows, q.moved[j][k - 1])
       /\ q.walk[j][k] \in q.answers
       /\ q.moved[j][k] = MoveTo(q.moved[j][k - 1], q.walk[j][k].name)

\* Where the j-th answer of the k-th repetition belongs.
Place(q, k, j) == q.n + q.width * (k - 1) + j

\* The bindings so far are where they belong.
Placed(q, result) ==
  /\ result \in Seq(q.answers)
  /\ Len(result) <= MAX_BULK_BINDINGS
  /\ \A i \in 1 .. q.n : i <= Len(result) => result[i] = q.once[i]
  /\ \A k \in 1 .. q.times, j \in 1 .. q.width :
       Place(q, k, j) <= Len(result) => result[Place(q, k, j)] = q.walk[j][k]

\* size bindings, or as many as are allowed.
Cut(size) == IF size <= MAX_BULK_BINDINGS THEN size ELSE MAX_BULK_BINDINGS

\* The k-th repetition finds nothing for the first j repeaters.
Nothing(q, k, j) == \A i \in 1 .. j : q.walk[i][k].data = "endOfMibView"

\* What the loops hand on.
AccOK(q, acc) ==
  /\ acc = [result |-> acc.result, done |-> acc.done,
            exhausted |-> acc.exhausted, ranges |-> acc.ranges]
  /\ acc.done \in BOOLEAN
  /\ Placed(q, acc.result)

\* In the k-th repetition, after j repeaters.
Within(q, acc, k, j) ==
  /\ AccOK(q, acc)
  /\ ~acc.done =>
       /\ Len(acc.result) = Cut(Place(q, k, j))
       /\ acc.exhausted = Nothing(q, k, j)
       /\ acc.ranges = [i \in 1 .. q.width |-> q.moved[i][IF i <= j THEN k ELSE k - 1]]
  /\ acc.done => Len(acc.result) = MAX_BULK_BINDINGS /\ MAX_BULK_BINDINGS < Place(q, k, j)

\* After k repetitions.
After(q, acc, k) ==
  /\ AccOK(q, acc)
  /\ ~acc.done =>
       /\ Len(acc.result) = Cut(Place(q, k + 1, 0))
       /\ \A i \in 1 .. k : ~Nothing(q, i, q.width)
       /\ acc.ranges = [i \in 1 .. q.width |-> q.moved[i][k]]
  /\ acc.done =>
       \E h \in 1 .. k :
         /\ \A i \in 1 .. h - 1 : ~Nothing(q, i, q.width)
         /\ \/ Nothing(q, h, q.width) /\ Len(acc.result) = Cut(Place(q, h + 1, 0))
            \/ /\ Len(acc.result) = MAX_BULK_BINDINGS
               /\ MAX_BULK_BINDINGS < Place(q, h + 1, 0)

\* A product grows with its factor.
LEMMA ProductGrows ==
  ASSUME NEW w \in Nat, NEW a \in Nat, NEW b \in Nat, a < b
  PROVE  w * b >= w * a + w /\ w * a \in Nat /\ w * b \in Nat
<1> DEFINE d == b - a - 1
<1>1. d \in Nat /\ b = a + 1 + d
  OBVIOUS
<1> HIDE DEF d
<1>2. w * b = w * a + w + w * d
  BY <1>1
<1>3. w * d \in Nat /\ w * a \in Nat /\ w * b \in Nat
  BY <1>1
<1>4. QED
  BY <1>2, <1>3

\* The places are numbers behind the non-repeaters, a repetition's follow each
\* other, and the next repetition's come after them.
LEMMA PlaceFacts ==
  ASSUME NEW rows, NEW q, RequestOK(rows, q), NEW k \in Nat \ {0}, NEW j \in Nat
  PROVE  /\ Place(q, k, j) \in Nat /\ Place(q, k, j) >= q.n + j
         /\ Place(q, k, j + 1) = Place(q, k, j) + 1
         /\ Place(q, k, q.width) = Place(q, k + 1, 0)
<1> DEFINE p == q.width * (k - 1)
<1>1. q.n \in Nat /\ q.width \in Nat /\ k - 1 \in Nat
  BY DEF RequestOK
<1>2. p \in Nat /\ q.width * ((k + 1) - 1) = p + q.width
  BY <1>1
<1> HIDE DEF p
<1>3. Place(q, k, j) = q.n + p + j /\ Place(q, k, j + 1) = q.n + p + (j + 1)
      /\ Place(q, k, q.width) = q.n + p + q.width
      /\ Place(q, k + 1, 0) = q.n + (p + q.width) + 0
  BY <1>2 DEF Place, p
<1>4. Place(q, k, j) \in Nat /\ Place(q, k, j) >= q.n + j
  BY <1>1, <1>2, <1>3
<1>5. Place(q, k, j + 1) = Place(q, k, j) + 1
  BY <1>1, <1>2, <1>3
<1>6. Place(q, k, q.width) = Place(q, k + 1, 0)
  BY <1>1, <1>2, <1>3
<1>7. QED
  BY <1>4, <1>5, <1>6

\* No two answers share a place.
LEMMA PlaceApart ==
  ASSUME NEW rows, NEW q, RequestOK(rows, q),
         NEW k \in Nat \ {0}, NEW j \in 1 .. q.width,
         NEW l \in Nat \ {0}, NEW i \in 1 .. q.width,
         Place(q, k, j) = Place(q, l, i)
  PROVE  k = l /\ j = i
<1>1. q.n \in Nat /\ q.width \in Nat /\ k - 1 \in Nat /\ l - 1 \in Nat
  BY DEF RequestOK
<1> DEFINE a == q.width * (k - 1)
           b == q.width * (l - 1)
<1>2. a \in Nat /\ b \in Nat
  BY <1>1
<1>3. (k < l => b >= a + q.width) /\ (l < k => a >= b + q.width)
  <2>1. k < l => k - 1 < l - 1
    OBVIOUS
  <2>2. l < k => l - 1 < k - 1
    OBVIOUS
  <2>3. QED
    BY <1>1, <2>1, <2>2, ProductGrows
<1>4. k = l => a = b
  OBVIOUS
<1>5. q.n + a + j = q.n + b + i
  BY DEF Place
<1> HIDE DEF a, b
<1>6. QED
  BY <1>1, <1>2, <1>3, <1>4, <1>5

\* An answer appended at its place.
LEMMA AppendPlaced ==
  ASSUME NEW rows, NEW q, RequestOK(rows, q), NEW result, Placed(q, result),
         NEW k \in 1 .. q.times, NEW j \in 1 .. q.width,
         Len(result) + 1 = Place(q, k, j), Len(result) < MAX_BULK_BINDINGS
  PROVE  /\ Placed(q, Append(result, q.walk[j][k]))
         /\ Len(Append(result, q.walk[j][k])) = Place(q, k, j)
<1> DEFINE longer == Append(result, q.walk[j][k])
<1>1. /\ q.walk[j][k] \in q.answers /\ q.n \in Nat /\ q.width \in Nat /\ q.times \in Nat
      /\ result \in Seq(q.answers) /\ Len(result) \in Nat
  BY LenProperties DEF RequestOK, Placed
<1>2. /\ longer \in Seq(q.answers) /\ Len(longer) = Len(result) + 1
      /\ \A i \in 1 .. Len(result) : longer[i] = result[i]
      /\ longer[Len(result) + 1] = q.walk[j][k]
  <2> DEFINE answers == q.answers
             answer == q.walk[j][k]
  <2>1. result \in Seq(answers) /\ answer \in answers
    BY <1>1
  <2> HIDE DEF answers, answer
  <2>2. /\ Append(result, answer) \in Seq(answers)
        /\ Len(Append(result, answer)) = Len(result) + 1
        /\ \A i \in 1 .. Len(result) : Append(result, answer)[i] = result[i]
        /\ Append(result, answer)[Len(result) + 1] = answer
    BY <2>1, AppendProperties
  <2>3. QED
    BY <2>2 DEF answers, answer
<1> HIDE DEF longer
<1>3. Place(q, k, j) >= q.n + j /\ Place(q, k, j) \in Nat
  BY <1>1, PlaceFacts
<1>4. ASSUME NEW i \in 1 .. q.n, i <= Len(longer) PROVE longer[i] = q.once[i]
  <2>1. i \in 1 .. Len(result)
    BY <1>1, <1>2, <1>3, <1>4
  <2>2. QED
    BY <1>1, <1>2, <2>1 DEF Placed
<1>5. ASSUME NEW l \in 1 .. q.times, NEW i \in 1 .. q.width, Place(q, l, i) <= Len(longer)
      PROVE  longer[Place(q, l, i)] = q.walk[i][l]
  <2>0. l \in Nat \ {0} /\ i \in Nat
    BY <1>1
  <2>1. Place(q, l, i) \in Nat /\ Place(q, l, i) >= q.n + i
    BY <2>0, PlaceFacts
  <2>2. CASE Place(q, l, i) <= Len(result)
    <3>1. Place(q, l, i) \in 1 .. Len(result)
      BY <1>1, <2>1, <2>2
    <3>2. QED
      BY <1>2, <2>2, <3>1 DEF Placed
  <2>3. CASE Place(q, l, i) = Len(result) + 1
    <3>1. l = k /\ i = j
      BY <1>1, <2>3, PlaceApart
    <3>2. QED
      BY <1>2, <2>3, <3>1
  <2>4. QED
    BY <1>1, <1>2, <1>5, <2>1, <2>2, <2>3
<1>6. Len(longer) <= MAX_BULK_BINDINGS
  BY <1>1, <1>2, BulkAssumption
<1>7. QED
  BY <1>2, <1>4, <1>5, <1>6 DEF Placed, longer

\* One repeater of the k-th repetition.
LEMMA RepeaterStep ==
  ASSUME NEW rows, NEW q, RequestOK(rows, q), NEW k \in 1 .. q.times,
         NEW j \in 0 .. q.width - 1, NEW acc, Within(q, acc, k, j)
  PROVE  Within(q, RepeatRange(rows, acc, j + 1), k, j + 1)
<1> DEFINE step == RepeatRange(rows, acc, j + 1)
           next == GetNext(rows, acc.ranges[j + 1])
<1>1. /\ q.n \in Nat /\ q.width \in Nat /\ q.times \in Nat
      /\ j + 1 \in 1 .. q.width /\ k \in Nat \ {0} /\ j \in Nat
      /\ MAX_BULK_BINDINGS \in Nat
  BY BulkAssumption DEF RequestOK
<1>2. /\ Place(q, k, j) \in Nat /\ Place(q, k, j + 1) = Place(q, k, j) + 1
  BY <1>1, PlaceFacts
<1>3. CASE acc.done
  <2>1. step = acc
    BY <1>3 DEF RepeatRange
  <2>2. QED
    BY <1>1, <1>2, <1>3, <2>1 DEF Within
<1>4. CASE ~acc.done /\ Len(acc.result) = MAX_BULK_BINDINGS
  <2>1. step = [acc EXCEPT !.done = TRUE]
    BY <1>4 DEF RepeatRange
  <2>2. step = [result |-> acc.result, done |-> TRUE,
                exhausted |-> acc.exhausted, ranges |-> acc.ranges]
    BY <2>1 DEF Within, AccOK
  <2> HIDE DEF step
  <2>3. AccOK(q, step) /\ step.done /\ step.result = acc.result
    <3>1. /\ step.result = acc.result /\ step.done = TRUE
          /\ step = [result |-> step.result, done |-> step.done,
                     exhausted |-> step.exhausted, ranges |-> step.ranges]
      BY <2>2
    <3>2. QED
      BY <3>1 DEF Within, AccOK
  <2>4. MAX_BULK_BINDINGS < Place(q, k, j + 1)
    BY <1>1, <1>2, <1>4 DEF Within, Cut
  <2>5. QED
    BY <1>4, <2>3, <2>4 DEF Within, step
<1>5. CASE ~acc.done /\ Len(acc.result) # MAX_BULK_BINDINGS
  <2>1. /\ Placed(q, acc.result) /\ acc.exhausted = Nothing(q, k, j)
        /\ acc.ranges = [i \in 1 .. q.width |-> q.moved[i][IF i <= j THEN k ELSE k - 1]]
        /\ Len(acc.result) = Cut(Place(q, k, j))
    BY <1>5 DEF Within, AccOK
  <2>2. Len(acc.result) = Place(q, k, j) /\ Len(acc.result) < MAX_BULK_BINDINGS
    BY <1>1, <1>2, <1>5, <2>1 DEF Cut
  <2>3. acc.ranges[j + 1] = q.moved[j + 1][k - 1]
    BY <1>1, <2>1
  <2>4. next = q.walk[j + 1][k] /\ q.moved[j + 1][k] = MoveTo(q.moved[j + 1][k - 1], next.name)
    BY <1>1, <2>3 DEF RequestOK
  <2>5. step = [acc EXCEPT !.exhausted = @ /\ next.data = "endOfMibView",
                           !.ranges[j + 1] = MoveTo(@, next.name),
                           !.result = Append(@, next)]
    BY <1>5 DEF RepeatRange
  <2>6. acc = [result |-> acc.result, done |-> acc.done,
               exhausted |-> acc.exhausted, ranges |-> acc.ranges]
    BY DEF Within, AccOK
  <2> HIDE DEF step, next
  <2>7. step = [result |-> Append(acc.result, next), done |-> acc.done,
                exhausted |-> acc.exhausted /\ next.data = "endOfMibView",
                ranges |-> [acc.ranges EXCEPT ![j + 1] = MoveTo(@, next.name)]]
    BY <2>5, <2>6
  <2>8. Placed(q, step.result) /\ Len(step.result) = Place(q, k, j + 1)
    <3>1. step.result = Append(acc.result, q.walk[j + 1][k])
      BY <2>4, <2>7
    <3>2. Len(acc.result) + 1 = Place(q, k, j + 1)
      BY <1>2, <2>2
    <3>3. Placed(q, acc.result) /\ Len(acc.result) < MAX_BULK_BINDINGS /\ j + 1 \in 1 .. q.width
      BY <1>1, <2>1, <2>2
    <3>4. /\ Placed(q, Append(acc.result, q.walk[j + 1][k]))
          /\ Len(Append(acc.result, q.walk[j + 1][k])) = Place(q, k, j + 1)
      BY <3>2, <3>3, AppendPlaced
    <3>5. QED
      BY <3>1, <3>4
  <2>9. AccOK(q, step) /\ ~step.done
    <3>1. /\ step.done = acc.done
          /\ step = [result |-> step.result, done |-> step.done,
                     exhausted |-> step.exhausted, ranges |-> step.ranges]
      BY <2>7
    <3>2. acc.done = FALSE
      BY <1>5 DEF Within, AccOK
    <3>3. QED
      BY <2>8, <3>1, <3>2 DEF AccOK
  <2>10. step.exhausted = Nothing(q, k, j + 1)
    <3>1. step.exhausted = (Nothing(q, k, j) /\ q.walk[j + 1][k].data = "endOfMibView")
      BY <2>1, <2>4, <2>7
    <3>2. Nothing(q, k, j + 1) = (Nothing(q, k, j) /\ q.walk[j + 1][k].data = "endOfMibView")
      <4>1. \A i : i \in 1 .. j + 1 <=> i \in 1 .. j \/ i = j + 1
        BY <1>1
      <4>2. QED
        BY <4>1 DEF Nothing
    <3>3. QED
      BY <3>1, <3>2
  <2>11. step.ranges = [i \in 1 .. q.width |-> q.moved[i][IF i <= j + 1 THEN k ELSE k - 1]]
    <3>1. step.ranges = [i \in 1 .. q.width |->
                           IF i = j + 1 THEN MoveTo(acc.ranges[i], next.name) ELSE acc.ranges[i]]
      BY <1>1, <2>1, <2>7
    <3>2. ASSUME NEW i \in 1 .. q.width
          PROVE  (IF i = j + 1 THEN MoveTo(acc.ranges[i], next.name) ELSE acc.ranges[i])
                   = q.moved[i][IF i <= j + 1 THEN k ELSE k - 1]
      <4>1. CASE i = j + 1
        BY <1>1, <2>3, <2>4, <4>1
      <4>2. CASE i # j + 1
        BY <1>1, <2>1, <4>2
      <4>3. QED
        BY <4>1, <4>2
    <3>3. QED
      BY <3>1, <3>2
  <2>12. Len(step.result) = Cut(Place(q, k, j + 1))
    BY <1>1, <1>2, <2>2, <2>8 DEF Cut
  <2>13. QED
    BY <2>9, <2>10, <2>11, <2>12 DEF Within, step
<1>6. QED
  BY <1>3, <1>4, <1>5 DEF Within, AccOK

\* A function on 1 .. w is a list of length w.
LEMMA ListLength ==
  ASSUME NEW w \in Nat, NEW f, f = [i \in 1 .. w |-> f[i]]
  PROVE  Len(f) = w /\ f \in Seq({f[i] : i \in 1 .. w})
<1> DEFINE S == {f[i] : i \in 1 .. w}
<1>1. f \in [1 .. w -> S]
  OBVIOUS
<1>2. f \in Seq(S)
  BY <1>1, SeqDef
<1>3. Len(f) \in Nat /\ DOMAIN f = 1 .. Len(f) /\ DOMAIN f = 1 .. w
  BY <1>2, LenProperties
<1> HIDE DEF S
<1>4. 1 .. Len(f) = 1 .. w
  BY <1>3
<1>5. Len(f) = w
  BY <1>3, <1>4
<1>6. QED
  BY <1>2, <1>5 DEF S

\* The k-th repetition, on to the repeaters.
LEMMA RepetitionPass ==
  ASSUME NEW rows, NEW q, RequestOK(rows, q), NEW k \in 1 .. q.times,
         NEW acc, After(q, acc, k - 1), ~acc.done
  PROVE  Len(acc.ranges) = q.width /\ Within(q, RepeatersTo(rows, acc)[q.width], k, q.width)
<1> DEFINE to == RepeatersTo(rows, acc)
<1>1. q.n \in Nat /\ q.width \in Nat /\ q.times \in Nat /\ k \in Nat \ {0}
  BY DEF RequestOK
<1>2. /\ AccOK(q, acc) /\ Len(acc.result) = Cut(Place(q, (k - 1) + 1, 0))
      /\ acc.ranges = [i \in 1 .. q.width |-> q.moved[i][k - 1]]
  BY DEF After
<1>3. Len(acc.ranges) = q.width
  <2> DEFINE f == acc.ranges
  <2>1. f = [i \in 1 .. q.width |-> f[i]]
    BY <1>2
  <2> HIDE DEF f
  <2>2. Len(f) = q.width
    BY <1>1, <2>1, ListLength
  <2>3. QED
    BY <2>2 DEF f
<1>4. /\ to[0] = [acc EXCEPT !.exhausted = TRUE]
      /\ \A j \in 1 .. q.width : to[j] = RepeatRange(rows, to[j - 1], j)
  BY <1>1, <1>3, RepeatingEquation
<1> HIDE DEF to
<1>5. Within(q, to[0], k, 0)
  <2> DEFINE first == to[0]
  <2>1. acc = [result |-> acc.result, done |-> acc.done,
               exhausted |-> acc.exhausted, ranges |-> acc.ranges] /\ acc.done = FALSE
    BY <1>2 DEF AccOK
  <2>2. first = [result |-> acc.result, done |-> FALSE, exhausted |-> TRUE,
                 ranges |-> acc.ranges]
    BY <1>4, <2>1
  <2> HIDE DEF first
  <2>3. /\ first.result = acc.result /\ first.done = FALSE /\ first.exhausted = TRUE
        /\ first.ranges = acc.ranges
        /\ first = [result |-> first.result, done |-> first.done,
                    exhausted |-> first.exhausted, ranges |-> first.ranges]
    BY <2>2
  <2>4. AccOK(q, first)
    BY <1>2, <2>3 DEF AccOK
  <2>5. Nothing(q, k, 0) = TRUE
    BY DEF Nothing
  <2>6. acc.ranges = [i \in 1 .. q.width |-> q.moved[i][IF i <= 0 THEN k ELSE k - 1]]
    BY <1>2
  <2>7. (k - 1) + 1 = k
    BY <1>1
  <2>8. QED
    BY <1>2, <2>3, <2>4, <2>5, <2>6, <2>7 DEF Within, first
<1> DEFINE S == {j \in 0 .. q.width : Within(q, to[j], k, j)}
<1>6. 0 \in S
  BY <1>1, <1>5
<1>7. ASSUME NEW j \in 0 .. q.width - 1, j \in S PROVE j + 1 \in S
  <2>1. to[j + 1] = RepeatRange(rows, to[j], j + 1)
    <3>1. j + 1 \in 1 .. q.width /\ (j + 1) - 1 = j
      BY <1>1
    <3>2. QED
      BY <1>4, <3>1
  <2>2. Within(q, to[j], k, j)
    BY <1>7
  <2>3. Within(q, to[j + 1], k, j + 1)
    BY <2>1, <2>2, RepeaterStep
  <2>4. QED
    BY <1>1, <2>3
<1>8. \A j \in 0 .. q.width : j \in S
  <2> HIDE DEF S
  <2>1. QED
    BY <1>1, <1>6, <1>7, UpTo
<1>9. QED
  BY <1>1, <1>3, <1>8 DEF to

\* One repetition.
LEMMA RepetitionStep ==
  ASSUME NEW rows, NEW q, RequestOK(rows, q), NEW k \in 1 .. q.times,
         NEW acc, After(q, acc, k - 1)
  PROVE  After(q, Repetition(rows, acc), k)
<1> DEFINE step == Repetition(rows, acc)
           pass == RepeatersTo(rows, acc)[Len(acc.ranges)]
<1>1. q.n \in Nat /\ q.width \in Nat /\ q.times \in Nat /\ k \in Nat \ {0}
  BY DEF RequestOK
<1>2. CASE acc.done
  <2>1. step = acc
    BY <1>2 DEF Repetition
  <2>2. \A h \in 1 .. k - 1 : h \in 1 .. k
    BY <1>1
  <2>3. QED
    BY <1>2, <2>1, <2>2 DEF After
<1>3. CASE ~acc.done
  <2>1. Within(q, pass, k, q.width)
    BY <1>3, RepetitionPass
  <2>2. step = [pass EXCEPT !.done = @ \/ pass.exhausted]
    BY <1>3 DEF Repetition
  <2> HIDE DEF step, pass
  <2>3. /\ pass = [result |-> pass.result, done |-> pass.done,
                   exhausted |-> pass.exhausted, ranges |-> pass.ranges]
        /\ pass.done \in BOOLEAN /\ Placed(q, pass.result)
    BY <2>1 DEF Within, AccOK
  <2>4. step = [result |-> pass.result, done |-> pass.done \/ pass.exhausted,
                exhausted |-> pass.exhausted, ranges |-> pass.ranges]
    BY <2>2, <2>3
  <2>5. /\ step.result = pass.result /\ step.done = (pass.done \/ pass.exhausted)
        /\ step.ranges = pass.ranges
        /\ step = [result |-> step.result, done |-> step.done,
                   exhausted |-> step.exhausted, ranges |-> step.ranges]
    BY <2>4
  <2>6. AccOK(q, step)
    BY <2>3, <2>5 DEF AccOK
  <2>7. Place(q, k, q.width) = Place(q, k + 1, 0)
    BY <1>1, PlaceFacts
  <2>8. \A i \in 1 .. k - 1 : ~Nothing(q, i, q.width)
    BY <1>3 DEF After
  <2>9. CASE pass.done
    <3>1. step.done /\ Len(step.result) = MAX_BULK_BINDINGS
          /\ MAX_BULK_BINDINGS < Place(q, k + 1, 0)
      BY <2>1, <2>5, <2>7, <2>9 DEF Within
    <3>2. k \in 1 .. k
      BY <1>1
    <3>3. QED
      BY <2>6, <2>8, <3>1, <3>2 DEF After, step
  <2>10. CASE ~pass.done
    <3>1. /\ Len(step.result) = Cut(Place(q, k + 1, 0))
          /\ pass.exhausted = Nothing(q, k, q.width)
          /\ step.ranges = [i \in 1 .. q.width |-> q.moved[i][IF i <= q.width THEN k ELSE k - 1]]
      BY <2>1, <2>5, <2>7, <2>10 DEF Within
    <3>2. step.ranges = [i \in 1 .. q.width |-> q.moved[i][k]]
      BY <1>1, <3>1
    <3>3. CASE Nothing(q, k, q.width)
      <4>1. step.done
        BY <2>5, <3>1, <3>3, Zenon
      <4>2. k \in 1 .. k
        BY <1>1
      <4>3. QED
        BY <2>6, <2>8, <3>1, <3>3, <4>1, <4>2 DEF After, step
    <3>4. CASE ~Nothing(q, k, q.width)
      <4>1. ~step.done
        BY <2>5, <2>10, <3>1, <3>4
      <4>2. \A i \in 1 .. k : ~Nothing(q, i, q.width)
        <5>1. \A i \in 1 .. k : i = k \/ i \in 1 .. k - 1
          BY <1>1
        <5>2. QED
          BY <2>8, <3>4, <5>1
      <4>3. QED
        BY <2>6, <3>1, <3>2, <4>1, <4>2 DEF After, step
    <3>5. QED
      BY <3>3, <3>4
  <2>11. QED
    BY <2>9, <2>10
<1>4. QED
  BY <1>2, <1>3

\* The request that get_bulk's arguments make.
Request(rows, ranges, nonRepeaters, maxRepetitions) ==
  LET n     == IF nonRepeaters <= Len(ranges) THEN nonRepeaters ELSE Len(ranges)
      width == Len(ranges) - n
      once  == [i \in 1 .. n |-> GetNext(rows, ranges[i])]
      walk  == [j \in 1 .. width |-> RepeatedNext(rows, ranges[n + j], maxRepetitions)]
  IN [n |-> n, width |-> width, times |-> maxRepetitions, once |-> once, walk |-> walk,
      moved |-> [j \in 1 .. width |-> RangesTo(rows, ranges[n + j], maxRepetitions)],
      answers |-> {once[i] : i \in 1 .. n}
                  \cup {walk[j][k] : j \in 1 .. width, k \in 1 .. maxRepetitions}]

\* It starts from these ranges.
Asks(rows, q, ranges) ==
  /\ q.n + q.width = Len(ranges)
  /\ \A i \in 1 .. q.n : q.once[i] = GetNext(rows, ranges[i])
  /\ \A j \in 1 .. q.width : q.moved[j][0] = ranges[q.n + j]

\* It is a request for these ranges.
LEMMA RequestFacts ==
  ASSUME NEW rows, NEW R, NEW ranges \in Seq(R),
         NEW nonRepeaters \in Nat, NEW maxRepetitions \in Nat
  PROVE  LET q == Request(rows, ranges, nonRepeaters, maxRepetitions)
         IN /\ RequestOK(rows, q)
            /\ Asks(rows, q, ranges)
            /\ q.times = maxRepetitions
<1> DEFINE n == IF nonRepeaters <= Len(ranges) THEN nonRepeaters ELSE Len(ranges)
           width == Len(ranges) - n
           once == [i \in 1 .. n |-> GetNext(rows, ranges[i])]
           walk == [j \in 1 .. width |-> RepeatedNext(rows, ranges[n + j], maxRepetitions)]
           moved == [j \in 1 .. width |-> RangesTo(rows, ranges[n + j], maxRepetitions)]
           answers == {once[i] : i \in 1 .. n}
                      \cup {walk[j][k] : j \in 1 .. width, k \in 1 .. maxRepetitions}
           q == Request(rows, ranges, nonRepeaters, maxRepetitions)
<1>1. q = [n |-> n, width |-> width, times |-> maxRepetitions, once |-> once,
           walk |-> walk, moved |-> moved, answers |-> answers]
  BY DEF Request
<1>2. Len(ranges) \in Nat
  BY LenProperties
<1>3. n \in Nat /\ width \in Nat /\ n + width = Len(ranges)
  BY <1>2
<1>4. \A i \in 1 .. n : once[i] \in answers
  OBVIOUS
<1>5. \A j \in 1 .. width, k \in 1 .. maxRepetitions : walk[j][k] \in answers
  OBVIOUS
<1>6. ASSUME NEW j \in 1 .. width
      PROVE  /\ moved[j][0] = ranges[n + j]
             /\ \A k \in 1 .. maxRepetitions :
                  /\ walk[j][k] = GetNext(rows, moved[j][k - 1])
                  /\ moved[j][k] = MoveTo(moved[j][k - 1], walk[j][k].name)
  <2> DEFINE to == RangesTo(rows, ranges[n + j], maxRepetitions)
  <2>1. /\ to[0] = ranges[n + j]
        /\ \A i \in 1 .. maxRepetitions : to[i] = MoveTo(to[i - 1], GetNext(rows, to[i - 1]).name)
    BY RangingEquation
  <2>2. moved[j] = to /\ walk[j] = [k \in 1 .. maxRepetitions |-> GetNext(rows, to[k - 1])]
    BY <1>6 DEF RepeatedNext
  <2> HIDE DEF to, moved, walk
  <2>3. QED
    BY <2>1, <2>2
<1> HIDE DEF n, width, once, walk, moved, answers, q
<1>7. /\ q.n = n /\ q.width = width /\ q.times = maxRepetitions /\ q.once = once
      /\ q.walk = walk /\ q.moved = moved /\ q.answers = answers
  BY <1>1
<1>8. RequestOK(rows, q)
  BY <1>3, <1>4, <1>5, <1>6, <1>7 DEF RequestOK
<1>9. \A i \in 1 .. n : once[i] = GetNext(rows, ranges[i])
  BY DEF once
<1>10. Asks(rows, q, ranges)
  BY <1>3, <1>6, <1>7, <1>9 DEF Asks
<1>11. QED
  BY <1>7, <1>8, <1>10 DEF q

\* Before the repetitions: the answers of the non-repeaters, as many as are
\* allowed.
LEMMA BulkStart ==
  ASSUME NEW rows, NEW q, RequestOK(rows, q), NEW R, NEW ranges \in Seq(R),
         Asks(rows, q, ranges), NEW start,
         start = [result |-> [j \in 1 .. Cut(q.n) |-> GetNext(rows, ranges[j])],
                  done |-> FALSE, exhausted |-> TRUE,
                  ranges |-> SubSeq(ranges, q.n + 1, Len(ranges))]
  PROVE  After(q, start, 0)
<1> DEFINE first == [j \in 1 .. Cut(q.n) |-> GetNext(rows, ranges[j])]
<1>1. /\ q.n + q.width = Len(ranges)
      /\ \A j \in 1 .. q.width : q.moved[j][0] = ranges[q.n + j]
      /\ \A i \in 1 .. q.n : q.once[i] = GetNext(rows, ranges[i])
  BY DEF Asks
<1>3. start = [result |-> first, done |-> FALSE, exhausted |-> TRUE,
               ranges |-> SubSeq(ranges, q.n + 1, Len(ranges))]
  OBVIOUS
<1>4. /\ q.n \in Nat /\ q.width \in Nat /\ q.times \in Nat
      /\ \A i \in 1 .. q.n : q.once[i] \in q.answers
  BY DEF RequestOK
<1>5. Cut(q.n) \in Nat /\ Cut(q.n) <= q.n /\ Cut(q.n) <= MAX_BULK_BINDINGS
  BY <1>4, BulkAssumption DEF Cut
<1>6. \A i \in 1 .. Cut(q.n) : i \in 1 .. q.n /\ first[i] = q.once[i] /\ first[i] \in q.answers
  <2>1. \A i \in 1 .. Cut(q.n) : i \in 1 .. q.n
    BY <1>4, <1>5
  <2>2. \A i \in 1 .. Cut(q.n) : first[i] = GetNext(rows, ranges[i])
    OBVIOUS
  <2>3. QED
    BY <1>1, <1>4, <2>1, <2>2
<1>7. first = [i \in 1 .. Cut(q.n) |-> first[i]]
  OBVIOUS
<1> HIDE DEF first
<1>8. Len(first) = Cut(q.n) /\ first \in Seq(q.answers)
  <2>1. Len(first) = Cut(q.n)
    BY <1>5, <1>7, ListLength
  <2>2. first \in [1 .. Cut(q.n) -> q.answers]
    BY <1>6, <1>7
  <2>3. QED
    BY <1>5, <2>1, <2>2, SeqDef
<1>9. Placed(q, first)
  <2>1. ASSUME NEW k \in 1 .. q.times, NEW j \in 1 .. q.width, Place(q, k, j) <= Len(first)
        PROVE  FALSE
    <3>1. k \in Nat \ {0} /\ j \in Nat /\ j >= 1
      BY <1>4
    <3>2. Place(q, k, j) \in Nat /\ Place(q, k, j) >= q.n + j
      BY <1>1, <3>1, PlaceFacts
    <3>3. QED
      BY <1>4, <1>5, <1>8, <2>1, <3>1, <3>2
  <2>2. \A i \in 1 .. q.n : i <= Len(first) => first[i] = q.once[i]
    BY <1>4, <1>5, <1>6, <1>8
  <2>3. QED
    BY <1>5, <1>8, <2>1, <2>2 DEF Placed
<1>10. Place(q, 0 + 1, 0) = q.n
  <2>1. q.width * ((0 + 1) - 1) = 0
    BY <1>4
  <2>2. QED
    BY <1>4, <2>1 DEF Place
<1>11. start.ranges = [i \in 1 .. q.width |-> q.moved[i][0]]
  <2>1. Len(ranges) \in Nat
    BY LenProperties
  <2>2. Len(ranges) = q.n + q.width /\ \A i \in q.n + 1 .. Len(ranges) : ranges[i] \in R
    BY <1>1, <1>4, <2>1, ElementOfSeq
  <2> DEFINE rest == SubSeq(ranges, q.n + 1, Len(ranges))
  <2>3. /\ rest \in Seq(R)
        /\ Len(rest) = IF q.n + 1 <= Len(ranges) THEN Len(ranges) - (q.n + 1) + 1 ELSE 0
        /\ \A i \in 1 .. Len(ranges) - (q.n + 1) + 1 : rest[i] = ranges[q.n + 1 + i - 1]
    <3>1. q.n + 1 \in Int /\ Len(ranges) \in Int
      BY <1>4, <2>1
    <3>2. QED
      BY <2>2, <3>1, SubSeqProperties
  <2> HIDE DEF rest
  <2>4. Len(rest) = q.width /\ Len(ranges) - (q.n + 1) + 1 = q.width
    BY <1>4, <2>2, <2>3
  <2>5. rest = [i \in 1 .. q.width |-> rest[i]]
    BY <2>3, <2>4, LenProperties
  <2>6. \A i \in 1 .. q.width : rest[i] = q.moved[i][0]
    <3>1. \A i \in 1 .. q.width : q.n + 1 + i - 1 = q.n + i
      BY <1>4
    <3>2. QED
      BY <1>1, <2>3, <2>4, <3>1
  <2>7. start.ranges = rest
    <3>1. start = [result |-> first, done |-> FALSE, exhausted |-> TRUE, ranges |-> rest]
      BY <1>3, Zenon DEF rest
    <3>2. QED
      BY ONLY <3>1
  <2>8. QED
    BY <2>5, <2>6, <2>7
<1>12. /\ start.result = first /\ start.done = FALSE
       /\ start = [result |-> start.result, done |-> start.done,
                   exhausted |-> start.exhausted, ranges |-> start.ranges]
  BY <1>3
<1>13. AccOK(q, start)
  BY <1>9, <1>12 DEF AccOK
<1>14. \A i \in 1 .. 0 : FALSE
  OBVIOUS
<1>15. QED
  BY <1>8, <1>10, <1>11, <1>12, <1>13, <1>14 DEF After

\* The repetitions that get_bulk makes.
Passes(q) == Cardinality({k \in 1 .. q.times :
                            \A earlier \in 1 .. k - 1 : ~Nothing(q, earlier, q.width)})

\* get_bulk puts every answer in its place, as many as the repetitions give and
\* as are allowed.
LEMMA BulkPlaced ==
  ASSUME NEW rows, NEW q, RequestOK(rows, q), NEW start, After(q, start, 0)
  PROVE  LET result == RepetitionsTo(rows, start, q.times)[q.times].result
         IN /\ Placed(q, result)
            /\ Passes(q) \in 0 .. q.times
            /\ Len(result) = Cut(q.n + q.width * Passes(q))
<1> DEFINE to == RepetitionsTo(rows, start, q.times)
           last == to[q.times]
           Made == {k \in 1 .. q.times :
                      \A earlier \in 1 .. k - 1 : ~Nothing(q, earlier, q.width)}
<1>1. q.n \in Nat /\ q.width \in Nat /\ q.times \in Nat
  BY DEF RequestOK
<1>2. to[0] = start /\ \A k \in 1 .. q.times : to[k] = Repetition(rows, to[k - 1])
  <2> DEFINE n == q.times
  <2>1. n \in Nat
    BY <1>1
  <2> HIDE DEF n
  <2>2. /\ RepetitionsTo(rows, start, n)[0] = start
        /\ \A k \in 1 .. n : RepetitionsTo(rows, start, n)[k]
                               = Repetition(rows, RepetitionsTo(rows, start, n)[k - 1])
    BY <2>1, IteratingEquation
  <2>3. QED
    BY <2>2 DEF n
<1> HIDE DEF to
<1> DEFINE S == {k \in 0 .. q.times : After(q, to[k], k)}
<1>3. 0 \in S
  BY <1>1, <1>2
<1>4. ASSUME NEW k \in 0 .. q.times - 1, k \in S PROVE k + 1 \in S
  <2>1. k + 1 \in 1 .. q.times /\ (k + 1) - 1 = k
    BY <1>1
  <2>2. to[k + 1] = Repetition(rows, to[k]) /\ After(q, to[k], (k + 1) - 1)
    BY <1>2, <1>4, <2>1
  <2>3. After(q, to[k + 1], k + 1)
    BY <2>1, <2>2, RepetitionStep
  <2>4. QED
    BY <1>1, <2>3
<1>5. \A k \in 0 .. q.times : k \in S
  <2> HIDE DEF S
  <2>1. QED
    BY <1>1, <1>3, <1>4, UpTo
<1>6. After(q, last, q.times)
  BY <1>1, <1>5
<1> HIDE DEF S, last
<1>7. \A h \in 0 .. q.times : Place(q, h + 1, 0) = q.n + q.width * h
  <2>1. \A h \in 0 .. q.times : (h + 1) - 1 = h /\ q.width * h \in Nat
    BY <1>1
  <2>2. QED
    BY <1>1, <2>1 DEF Place
<1>8. /\ IsFiniteSet(1 .. q.times) /\ Cardinality(1 .. q.times) = q.times
      /\ Made \subseteq 1 .. q.times
  <2> DEFINE t == q.times
  <2>1. t \in Nat
    BY <1>1
  <2> HIDE DEF t
  <2>2. IsFiniteSet(1 .. t) /\ Cardinality(1 .. t) = t
    BY <2>1, FS_Interval
  <2>3. QED
    BY <2>2 DEF t
<1>9. /\ IsFiniteSet(Made) /\ Cardinality(Made) \in Nat /\ Cardinality(Made) <= q.times
      /\ Passes(q) = Cardinality(Made)
  <2>1. Passes(q) = Cardinality(Made)
    BY DEF Passes
  <2> HIDE DEF Made
  <2>2. QED
    BY <1>8, <2>1, FS_Subset, FS_CardinalityType
<1>10. CASE ~last.done
  <2>1. \A k \in 1 .. q.times : ~Nothing(q, k, q.width)
    BY <1>6, <1>10 DEF After
  <2>2. Made = 1 .. q.times
    BY <1>1, <2>1
  <2>3. Passes(q) = q.times
    BY <1>8, <1>9, <2>2
  <2>4. Len(last.result) = Cut(q.n + q.width * q.times) /\ Placed(q, last.result)
    BY <1>1, <1>6, <1>7, <1>10 DEF After, AccOK
  <2>5. QED
    BY <1>1, <2>3, <2>4 DEF last, to
<1>11. CASE last.done
  <2>1. PICK h \in 1 .. q.times :
          /\ \A i \in 1 .. h - 1 : ~Nothing(q, i, q.width)
          /\ \/ Nothing(q, h, q.width) /\ Len(last.result) = Cut(Place(q, h + 1, 0))
             \/ /\ Len(last.result) = MAX_BULK_BINDINGS
                /\ MAX_BULK_BINDINGS < Place(q, h + 1, 0)
    BY <1>6, <1>11 DEF After
  <2>2. 1 .. h \subseteq Made /\ h \in 0 .. q.times /\ h \in Nat
    BY <1>1, <2>1
  <2>3. IsFiniteSet(1 .. h) /\ Cardinality(1 .. h) = h
    BY <2>2, FS_Interval
  <2>4. Placed(q, last.result)
    BY <1>6 DEF After, AccOK
  <2>5. CASE Nothing(q, h, q.width) /\ Len(last.result) = Cut(Place(q, h + 1, 0))
    <3>1. Made = 1 .. h
      <4>1. \A k \in 1 .. q.times : k > h => h \in 1 .. k - 1
        BY <1>1, <2>2
      <4>2. \A k \in Made : k \in 1 .. h
        BY <1>1, <2>1, <2>2, <2>5, <4>1
      <4>3. QED
        BY <2>2, <4>2
    <3>2. Passes(q) = h
      BY <1>9, <2>3, <3>1
    <3>3. Len(last.result) = Cut(q.n + q.width * h)
      BY <1>7, <2>2, <2>5
    <3>4. QED
      BY <2>2, <2>4, <3>2, <3>3 DEF last, to
  <2>6. CASE Len(last.result) = MAX_BULK_BINDINGS /\ MAX_BULK_BINDINGS < Place(q, h + 1, 0)
    <3>1. h <= Cardinality(Made)
      <4> HIDE DEF Made
      <4>1. QED
        BY <1>9, <2>2, <2>3, FS_Subset
    <3>2. Passes(q) \in Nat /\ h <= Passes(q) /\ Passes(q) <= q.times
      BY <1>9, <3>1
    <3>3. q.width * Passes(q) >= q.width * h /\ q.width * Passes(q) \in Nat
          /\ q.width * h \in Nat
      <4> DEFINE p == Passes(q)
                 w == q.width
      <4>1. p \in Nat /\ w \in Nat /\ h \in Nat /\ (h = p \/ h < p)
        BY <1>1, <2>2, <3>2
      <4> HIDE DEF p, w
      <4>2. CASE h = p
        BY <4>1, <4>2 DEF p, w
      <4>3. CASE h < p
        <5>1. w * p >= w * h + w /\ w * h \in Nat /\ w * p \in Nat
          BY <4>1, <4>3, ProductGrows
        <5>2. QED
          BY <4>1, <5>1 DEF p, w
      <4>4. QED
        BY <4>1, <4>2, <4>3
    <3>4. MAX_BULK_BINDINGS < q.n + q.width * h
      BY <1>7, <2>2, <2>6
    <3>5. Cut(q.n + q.width * Passes(q)) = MAX_BULK_BINDINGS
      BY <1>1, <3>3, <3>4, BulkAssumption DEF Cut
    <3>6. QED
      BY <1>1, <2>4, <2>6, <3>2, <3>5 DEF last, to
  <2>7. QED
    BY <2>1, <2>5, <2>6
<1>12. QED
  BY <1>10, <1>11

\* GetBulk as the repetitions of its request.
LEMMA BulkIs ==
  ASSUME NEW rows, NEW R, NEW ranges \in Seq(R),
         NEW nonRepeaters \in Nat, NEW maxRepetitions \in Nat
  PROVE  LET q == Request(rows, ranges, nonRepeaters, maxRepetitions)
             answer == GetBulk(rows, ranges, nonRepeaters, maxRepetitions)
         IN /\ RequestOK(rows, q) /\ Asks(rows, q, ranges) /\ q.times = maxRepetitions
            /\ Placed(q, answer)
            /\ Passes(q) \in 0 .. maxRepetitions
            /\ Len(answer) = Cut(q.n + q.width * Passes(q))
<1> DEFINE q == Request(rows, ranges, nonRepeaters, maxRepetitions)
           answer == GetBulk(rows, ranges, nonRepeaters, maxRepetitions)
           start == [result |-> [j \in 1 .. Cut(q.n) |-> GetNext(rows, ranges[j])],
                     done |-> FALSE, exhausted |-> TRUE,
                     ranges |-> SubSeq(ranges, q.n + 1, Len(ranges))]
<1>1. RequestOK(rows, q) /\ Asks(rows, q, ranges) /\ q.times = maxRepetitions
  BY RequestFacts, Zenon
<1>2. q.n = IF nonRepeaters <= Len(ranges) THEN nonRepeaters ELSE Len(ranges)
  BY DEF Request
<1>3. answer = RepetitionsTo(rows, start, maxRepetitions)[maxRepetitions].result
  <2> DEFINE count == IF nonRepeaters <= Len(ranges) THEN nonRepeaters ELSE Len(ranges)
  <2>1. q.n = count
    BY <1>2
  <2>2. answer = RepetitionsTo(rows,
                   [result |-> [j \in 1 .. Cut(count) |-> GetNext(rows, ranges[j])],
                    done |-> FALSE, exhausted |-> TRUE,
                    ranges |-> SubSeq(ranges, count + 1, Len(ranges))],
                   maxRepetitions)[maxRepetitions].result
    BY Zenon DEF GetBulk, Cut
  <2> HIDE DEF count, q, answer
  <2>3. QED
    BY <2>1, <2>2, Zenon
<1> HIDE DEF q, answer
<1>4. After(q, start, 0)
  <2>1. start = [result |-> [j \in 1 .. Cut(q.n) |-> GetNext(rows, ranges[j])],
                 done |-> FALSE, exhausted |-> TRUE,
                 ranges |-> SubSeq(ranges, q.n + 1, Len(ranges))]
    OBVIOUS
  <2> HIDE DEF start
  <2>2. QED
    BY <1>1, <2>1, BulkStart, Zenon
<1> HIDE DEF start
<1>5. LET result == RepetitionsTo(rows, start, q.times)[q.times].result
      IN /\ Placed(q, result)
         /\ Passes(q) \in 0 .. q.times
         /\ Len(result) = Cut(q.n + q.width * Passes(q))
  BY <1>1, <1>4, BulkPlaced, Zenon
<1>6. QED
  BY <1>1, <1>3, <1>5, Zenon DEF q, answer

\* get_bulk answers what repeated GetNext requests would, interleaved, for
\* every table, every list of ranges and every shape of request: a binding for
\* every non-repeater, then one for every repeater in every repetition up to
\* the first that finds nothing, cut at MAX_BULK_BINDINGS.
THEOREM BulkReference ==
  ASSUME NEW rows, NEW R, NEW ranges \in Seq(R),
         NEW nonRepeaters \in Nat, NEW maxRepetitions \in Nat
  PROVE  IsRepeatedNext(GetBulk(rows, ranges, nonRepeaters, maxRepetitions),
                        rows, ranges, nonRepeaters, maxRepetitions)
<1> DEFINE q == Request(rows, ranges, nonRepeaters, maxRepetitions)
           answer == GetBulk(rows, ranges, nonRepeaters, maxRepetitions)
           n == IF nonRepeaters > Len(ranges) THEN Len(ranges) ELSE nonRepeaters
           width == Len(ranges) - n
           walk == [j \in 1 .. width |-> RepeatedNext(rows, ranges[n + j], maxRepetitions)]
           Silent(k) == \A j \in 1 .. width : walk[j][k].data = "endOfMibView"
           passes == Cardinality({k \in 1 .. maxRepetitions :
                                    \A earlier \in 1 .. k - 1 : ~Silent(earlier)})
           size == n + width * passes
<1>1. /\ RequestOK(rows, q) /\ Asks(rows, q, ranges) /\ q.times = maxRepetitions
      /\ Placed(q, answer) /\ Len(answer) = Cut(q.n + q.width * Passes(q))
  BY BulkIs, Zenon
<1>2. Len(ranges) \in Nat
  BY LenProperties
<1>3. n = IF nonRepeaters <= Len(ranges) THEN nonRepeaters ELSE Len(ranges)
  BY <1>2
<1>4. q.n = n /\ q.width = width /\ q.walk = walk
  <2> DEFINE count == IF nonRepeaters <= Len(ranges) THEN nonRepeaters ELSE Len(ranges)
  <2>1. /\ q.n = count /\ q.width = Len(ranges) - count
        /\ q.walk = [j \in 1 .. Len(ranges) - count |->
                       RepeatedNext(rows, ranges[count + j], maxRepetitions)]
    BY DEF Request
  <2>2. n = count
    BY <1>3
  <2> HIDE DEF count, n, q
  <2>3. QED
    BY <2>1, <2>2
<1> HIDE DEF q, n, width, walk, answer
<1>5. \A k : Silent(k) <=> Nothing(q, k, q.width)
  BY <1>4 DEF Nothing
<1>6. passes = Passes(q)
  <2> HIDE DEF Silent
  <2>1. {k \in 1 .. maxRepetitions : \A earlier \in 1 .. k - 1 : ~Silent(earlier)}
          = {k \in 1 .. q.times : \A earlier \in 1 .. k - 1 : ~Nothing(q, earlier, q.width)}
    BY <1>1, <1>5
  <2>2. QED
    BY <2>1 DEF Passes
<1>7. Len(answer) = IF size <= MAX_BULK_BINDINGS THEN size ELSE MAX_BULK_BINDINGS
  BY <1>1, <1>4, <1>6 DEF Cut
<1>8. \A i \in 1 .. n : i <= Len(answer) => answer[i] = GetNext(rows, ranges[i])
  BY <1>1, <1>4 DEF Placed, Asks
<1>9. \A k \in 1 .. maxRepetitions, j \in 1 .. width :
        n + width * (k - 1) + j <= Len(answer) => answer[n + width * (k - 1) + j] = walk[j][k]
  BY <1>1, <1>4 DEF Placed, Place
<1>10. QED
  BY <1>7, <1>8, <1>9, Zenon DEF IsRepeatedNext, n, width, walk, answer

-----------------------------------------------------------------------------
(***************************************************************************)
(* get.                                                                    *)
(***************************************************************************)

\* get finds what an inclusive get_next from the name finds, and between STATUS
\* and the column after it lie the names that STATUS is a prefix of.
LEMMA GetFacts ==
  ASSUME NEW rows, TableOK(rows), NEW name \in IDs, name # << >>
  PROVE  Get(rows, name).data =
           IF GetNext(rows, SearchRange(name, TRUE, Null)) = Binding(name, "active")
           THEN "active"
           ELSE IF IsPrefix(STATUS, name) THEN "noSuchInstance" ELSE "noSuchObject"
<1> DEFINE r == SearchRange(name, TRUE, Null)
           next == GetNext(rows, r)
           after == Candidates(rows, r)
<1>1. r = [start |-> name, include |-> TRUE, end |-> Null]
  BY DEF SearchRange
<1> HIDE DEF r
<1>2. RangeOK(r) /\ r.start = name /\ r.include = TRUE /\ Before(r, name)
  <2>1. r.start = name /\ r.include = TRUE /\ r.end = Null
    BY <1>1
  <2>2. QED
    BY <1>1, <2>1 DEF RangeOK, Before
<1>3. next = [name |-> next.name, data |-> next.data]
  BY NextKinds
<1>4. \/ /\ next.data = "active" /\ next.name \in after
         /\ \A m \in after \ {next.name} : Less(next.name, m)
      \/ /\ next.data = "endOfMibView" /\ \A m \in after : ~Before(r, m)
  BY <1>2, NextFacts, Zenon
<1>5. \A m \in after : m \in rows /\ (Less(name, m) \/ m = name)
  BY <1>2 DEF Candidates
<1>6. name \in rows => name \in after
  BY <1>2 DEF Candidates
<1> HIDE DEF next, after
<1>7. CASE name \in rows
  <2>1. next.data = "active" /\ next.name \in after
    BY <1>2, <1>4, <1>6, <1>7
  <2>2. next.name = name
    <3>1. SUFFICES ASSUME next.name # name PROVE FALSE
      OBVIOUS
    <3>2. Less(next.name, name) /\ Less(name, next.name)
      BY <1>4, <1>5, <1>6, <1>7, <2>1, <3>1
    <3>3. next.name \in IDs
      BY <1>5, <2>1 DEF TableOK
    <3>4. QED
      BY <3>2, <3>3, LessTransitive, LessIrreflexive
  <2>3. next = Binding(name, "active")
    BY <1>3, <2>1, <2>2 DEF Binding
  <2>4. Get(rows, name).data = "active"
    BY <1>7 DEF Get, Binding
  <2>5. QED
    BY <2>3, <2>4 DEF next, r
<1>8. CASE name \notin rows
  <2>1. next # Binding(name, "active")
    <3>1. SUFFICES ASSUME next = Binding(name, "active") PROVE FALSE
      OBVIOUS
    <3>2. next.name = name /\ next.data = "active"
      BY <3>1 DEF Binding
    <3>3. QED
      BY <1>4, <1>5, <1>8, <3>2
  <2>2. Len(name) \in Nat /\ Len(name) >= 1 /\ name[1] \in Nat
    BY IDFacts, EmptySeq DEF IDs
  <2>3. Less(name, STATUS) <=> name[1] < 3
    <3>1. Len(STATUS) = 1 /\ STATUS[1] = 3
      BY DEF STATUS
    <3>2. \A k : k \in 1 .. 1 <=> k = 1
      OBVIOUS
    <3>3. QED
      BY <2>2, <3>1, <3>2 DEF Less
  <2>4. Less(name, Following) <=> name[1] < 4
    <3>1. Len(Following) = 1 /\ Following[1] = 4
      BY DEF Following
    <3>2. \A k : k \in 1 .. 1 <=> k = 1
      OBVIOUS
    <3>3. QED
      BY <2>2, <3>1, <3>2 DEF Less
  <2>5. IsPrefix(STATUS, name) <=> name[1] = 3
    <3>1. STATUS \in Seq(Nat) /\ Len(STATUS) = 1 /\ STATUS[1] = 3
      BY DEF STATUS
    <3>2. \A i \in 1 .. 1 : STATUS[i] \in Nat /\ name[i] \in Nat
      BY <2>2, <3>1
    <3>3. /\ SubSeq(STATUS, 1, 1) \in Seq(Nat) /\ Len(SubSeq(STATUS, 1, 1)) = 1
          /\ SubSeq(STATUS, 1, 1)[1] = STATUS[1]
      BY <3>2, SubSeqProperties
    <3>4. /\ SubSeq(name, 1, 1) \in Seq(Nat) /\ Len(SubSeq(name, 1, 1)) = 1
          /\ SubSeq(name, 1, 1)[1] = name[1]
      BY <3>2, SubSeqProperties
    <3>5. SubSeq(STATUS, 1, 1) = SubSeq(name, 1, 1) <=> STATUS[1] = name[1]
      <4>1. ASSUME STATUS[1] = name[1] PROVE SubSeq(STATUS, 1, 1) = SubSeq(name, 1, 1)
        <5>1. \A i \in 1 .. 1 : SubSeq(STATUS, 1, 1)[i] = SubSeq(name, 1, 1)[i]
          BY <3>3, <3>4, <4>1
        <5>2. QED
          BY <3>3, <3>4, <5>1, SeqEqual
      <4>2. QED
        BY <3>3, <3>4, <4>1
    <3>6. QED
      BY <2>2, <3>1, <3>5 DEF IsPrefix
  <2>6. Get(rows, name).data = IF ~(name[1] < 3) /\ name[1] < 4
                               THEN "noSuchInstance" ELSE "noSuchObject"
    BY <1>8, <2>3, <2>4 DEF Get, Binding
  <2>7. QED
    BY <2>1, <2>2, <2>5, <2>6 DEF next, r
<1>9. QED
  BY <1>7, <1>8

-----------------------------------------------------------------------------
(***************************************************************************)
(* A walk.                                                                 *)
(***************************************************************************)

\* A range has name still ahead of it.
Ahead(r, name) == Less(r.start, name) \/ (r.include /\ name = r.start)

\* Moving a range keeps its end.
LEMMA MoveIs ==
  ASSUME NEW r, NEW name, r = [start |-> r.start, include |-> r.include, end |-> r.end]
  PROVE  MoveTo(r, name) = [start |-> name, include |-> FALSE, end |-> r.end]
<1>1. MoveTo(r, name) = [r EXCEPT !.start = name, !.include = FALSE]
  BY DEF MoveTo
<1>2. QED
  BY <1>1

\* ... and leaves a range.
LEMMA MoveFacts ==
  ASSUME NEW r, RangeOK(r), NEW name \in IDs
  PROVE  /\ MoveTo(r, name) = [start |-> name, include |-> FALSE, end |-> r.end]
         /\ RangeOK(MoveTo(r, name))
<1>1. r = [start |-> r.start, include |-> r.include, end |-> r.end]
  BY DEF RangeOK
<1> DEFINE there == [start |-> name, include |-> FALSE, end |-> r.end]
<1>2. MoveTo(r, name) = there
  BY <1>1, MoveIs, Zenon
<1>3. there.start = name /\ there.include = FALSE /\ there.end = r.end
  OBVIOUS
<1>4. RangeOK(there)
  BY <1>3 DEF RangeOK
<1>5. QED
  BY <1>2, <1>4

\* answer lists what GetNext answers from r on, moved are the ranges it is
\* asked with.
Chain(rows, r, answer, moved) ==
  /\ Len(answer) \in Nat /\ DOMAIN answer = 1 .. Len(answer)
  /\ moved[0] = r
  /\ \A k \in 1 .. Len(answer) :
       /\ answer[k] = GetNext(rows, moved[k - 1])
       /\ moved[k] = MoveTo(moved[k - 1], answer[k].name)

\* After n rows: they lie in the range, the range has moved to the last of
\* them and never back, and nothing has been left out.
Walked(rows, r, answer, moved, n) ==
  /\ RangeOK(moved[n]) /\ moved[n].end = r.end
  /\ moved[n] = IF n = 0 THEN r ELSE MoveTo(r, answer[n].name)
  /\ \A i \in 1 .. n : Before(r, answer[i].name)
  /\ \A name \in IDs : Ahead(moved[n], name) => Ahead(r, name)
  /\ \A i \in 1 .. n :
       answer[i].name \in IDs /\ Ahead(r, answer[i].name) /\ ~Ahead(moved[n], answer[i].name)
  /\ \A name \in rows : Ahead(r, name) =>
       Ahead(moved[n], name) \/ \E i \in 1 .. n : name = answer[i].name

\* One row more.
LEMMA WalkedStep ==
  ASSUME NEW rows, TableOK(rows), NEW r, RangeOK(r), NEW answer, NEW moved,
         Chain(rows, r, answer, moved),
         NEW n \in 0 .. Len(answer) - 1, Walked(rows, r, answer, moved, n),
         answer[n + 1].data = "active"
  PROVE  Walked(rows, r, answer, moved, n + 1)
<1> DEFINE here == moved[n]
           next == answer[n + 1]
           after == Candidates(rows, here)
<1>1. Len(answer) \in Nat /\ n + 1 \in 1 .. Len(answer) /\ n \in Nat /\ (n + 1) - 1 = n
  BY DEF Chain
<1>2. next = GetNext(rows, here) /\ moved[n + 1] = MoveTo(here, next.name)
  BY <1>1 DEF Chain
<1>3. RangeOK(here) /\ here.end = r.end
  BY DEF Walked
<1> HIDE DEF next, here
<1>4. /\ next.name \in after /\ Before(here, next.name)
      /\ \A m \in after \ {next.name} : Less(next.name, m)
  <2>1. next.data = "active"
    BY DEF next
  <2> HIDE DEF after
  <2>2. QED
    BY <1>2, <1>3, <2>1, NextFacts DEF after
<1>5. next.name \in IDs /\ Before(r, next.name)
  BY <1>3, <1>4 DEF TableOK, Candidates, Before
<1>6. /\ RangeOK(moved[n + 1])
      /\ moved[n + 1] = [start |-> next.name, include |-> FALSE, end |-> here.end]
  BY <1>2, <1>3, <1>5, MoveFacts
<1>7. moved[n + 1] = MoveTo(r, next.name) /\ moved[n + 1].end = r.end
  <2>1. MoveTo(r, next.name) = [start |-> next.name, include |-> FALSE, end |-> r.end]
    BY <1>5, MoveFacts
  <2>2. moved[n + 1] = [start |-> next.name, include |-> FALSE, end |-> r.end]
    BY <1>3, <1>6
  <2>3. QED
    BY <2>1, <2>2
<1>8. \A i \in 1 .. n + 1 : Before(r, answer[i].name)
  <2>1. \A i \in 1 .. n + 1 : i \in 1 .. n \/ i = n + 1
    BY <1>1
  <2>2. QED
    BY <1>5, <2>1 DEF Walked, next
<1>9. ASSUME NEW name \in rows, Ahead(r, name)
      PROVE  Ahead(moved[n + 1], name) \/ \E i \in 1 .. n + 1 : name = answer[i].name
  <2>1. Ahead(here, name) \/ \E i \in 1 .. n : name = answer[i].name
    BY <1>9 DEF Walked, here
  <2>2. CASE \E i \in 1 .. n : name = answer[i].name
    <3>1. \A i \in 1 .. n : i \in 1 .. n + 1
      BY <1>1
    <3>2. QED
      BY <2>2, <3>1
  <2>3. CASE Ahead(here, name)
    <3>1. name \in after
      BY <2>3 DEF Ahead, Candidates
    <3>2. name = next.name \/ Less(next.name, name)
      BY <1>4, <3>1
    <3>3. moved[n + 1].start = next.name
      BY <1>6
    <3>4. n + 1 \in 1 .. n + 1
      BY <1>1
    <3>5. QED
      BY <3>2, <3>3, <3>4 DEF Ahead, next
  <2>4. QED
    BY <2>1, <2>2, <2>3
<1>10. n + 1 # 0
  BY <1>1
<1>11. moved[n + 1] = IF n + 1 = 0 THEN r ELSE MoveTo(r, answer[n + 1].name)
  BY <1>7, <1>10 DEF next
<1>12. Ahead(here, next.name)
  BY <1>4 DEF Candidates, Ahead
<1>13. \A name : Ahead(moved[n + 1], name) <=> Less(next.name, name)
  <2>1. moved[n + 1].start = next.name /\ moved[n + 1].include = FALSE
    BY <1>6
  <2>2. QED
    BY <2>1 DEF Ahead
<1>14. \A name \in IDs : Ahead(moved[n + 1], name) => Ahead(here, name)
  <2>1. here.start \in IDs
    BY <1>3 DEF RangeOK
  <2>2. QED
    BY <1>5, <1>12, <1>13, <2>1, LessTransitive DEF Ahead
<1>15. \A name \in IDs : Ahead(here, name) => Ahead(r, name)
  BY DEF Walked, here
<1>16. ASSUME NEW i \in 1 .. n + 1
       PROVE  /\ answer[i].name \in IDs /\ Ahead(r, answer[i].name)
              /\ ~Ahead(moved[n + 1], answer[i].name)
  <2>1. CASE i = n + 1
    BY <1>5, <1>12, <1>13, <1>15, <2>1, LessIrreflexive DEF next
  <2>2. CASE i \in 1 .. n
    BY <1>14, <2>2 DEF Walked, here
  <2>3. QED
    BY <1>1, <2>1, <2>2
<1>17. \A name \in IDs : Ahead(moved[n + 1], name) => Ahead(r, name)
  BY <1>14, <1>15
<1>18. QED
  BY <1>6, <1>7, <1>8, <1>9, <1>11, <1>16, <1>17 DEF Walked

\* All rows up to the first end.
LEMMA WalkedTo ==
  ASSUME NEW rows, TableOK(rows), NEW r, RangeOK(r), NEW answer, NEW moved,
         Chain(rows, r, answer, moved), NEW n \in 0 .. Len(answer),
         \A i \in 1 .. n : answer[i].data = "active"
  PROVE  Walked(rows, r, answer, moved, n)
<1> DEFINE S == {k \in 0 .. n : Walked(rows, r, answer, moved, k)}
<1>1. Len(answer) \in Nat /\ n \in Nat
  BY DEF Chain
<1>2. 0 \in S
  <2>1. Walked(rows, r, answer, moved, 0)
    BY DEF Walked, Chain
  <2>2. QED
    BY <1>1, <2>1
<1>3. ASSUME NEW k \in 0 .. n - 1, k \in S PROVE k + 1 \in S
  <2>1. k \in 0 .. Len(answer) - 1 /\ k + 1 \in 1 .. n /\ k + 1 \in 0 .. n
    BY <1>1
  <2>2. Walked(rows, r, answer, moved, k + 1)
    BY <1>3, <2>1, WalkedStep
  <2>3. QED
    BY <2>1, <2>2
<1>4. \A k \in 0 .. n : k \in S
  <2> HIDE DEF S
  <2>1. QED
    BY <1>1, <1>2, <1>3, UpTo
<1>5. QED
  BY <1>1, <1>4

\* At the end nothing in the range is left.
LEMMA WalkedEnd ==
  ASSUME NEW rows, TableOK(rows), NEW r, RangeOK(r), NEW answer, NEW moved,
         Chain(rows, r, answer, moved),
         NEW n \in 0 .. Len(answer) - 1, Walked(rows, r, answer, moved, n),
         answer[n + 1].data = "endOfMibView"
  PROVE  \A name \in rows : Ahead(r, name) /\ Before(r, name) =>
           \E i \in 1 .. n : name = answer[i].name
<1>1. Len(answer) \in Nat /\ n + 1 \in 1 .. Len(answer) /\ (n + 1) - 1 = n
  BY DEF Chain
<1>2. answer[n + 1] = GetNext(rows, moved[n]) /\ RangeOK(moved[n]) /\ moved[n].end = r.end
  BY <1>1 DEF Chain, Walked
<1>3. \A m \in Candidates(rows, moved[n]) : ~Before(moved[n], m)
  BY <1>2, NextFacts
<1>4. QED
  BY <1>2, <1>3 DEF Walked, Before, Ahead, Candidates

\* What the station takes from an answer.
LEMMA AbsorbFacts ==
  ASSUME TableOK(table), RangeOK(range), NEW answer, NEW moved,
         Chain(table, range, answer, moved), Absorb(answer)
  PROVE  \E n \in 0 .. Len(answer) :
           /\ Walked(table, range, answer, moved, n)
           /\ reported' = reported \cup {answer[i].name : i \in 1 .. n}
           /\ range' = moved[n]
           /\ stable' = stable \cap table
           /\ table' = table
           /\ done' => n < Len(answer) /\ answer[n + 1].data = "endOfMibView"
           /\ ~done' => n = Len(answer)
<1> DEFINE ends == {i \in DOMAIN answer : answer[i].data = "endOfMibView"}
           names == [i \in DOMAIN answer |-> answer[i].name]
           fresh == IF ends = {} THEN names
                    ELSE SubSeq(names, 1, (CHOOSE i \in ends : \A j \in ends : i <= j) - 1)
<1>1. /\ reported' = reported \cup ToSet(fresh)
      /\ range' = IF fresh = << >> THEN range ELSE MoveTo(range, fresh[Len(fresh)])
      /\ stable' = stable \cap table /\ done' = (ends # {}) /\ table' = table
  BY DEF Absorb
<1>2. Len(answer) \in Nat /\ DOMAIN answer = 1 .. Len(answer)
  BY DEF Chain
<1>3. \A i \in 1 .. Len(answer) : answer[i].data \in {"active", "endOfMibView"}
  BY NextKinds DEF Chain
<1>4. PICK n \in 0 .. Len(answer) :
        /\ \A i \in 1 .. n : answer[i].data = "active"
        /\ fresh = [i \in 1 .. n |-> names[i]]
        /\ done' => n < Len(answer) /\ answer[n + 1].data = "endOfMibView"
        /\ ~done' => n = Len(answer)
  <2>1. CASE ends = {}
    <3>1. fresh = names /\ ~done'
      BY <1>1, <2>1
    <3>2. names = [i \in 1 .. Len(answer) |-> names[i]]
      BY <1>2
    <3>3. Len(answer) \in 0 .. Len(answer)
      BY <1>2
    <3>4. \A i \in 1 .. Len(answer) : answer[i].data = "active"
      BY <1>2, <1>3, <2>1
    <3> HIDE DEF fresh, names
    <3>5. QED
      BY <3>1, <3>2, <3>3, <3>4
  <2>2. CASE ends # {}
    <3> DEFINE first == CHOOSE i \in ends : \A j \in ends : i <= j
    <3>1. ends \subseteq Nat
      BY <1>2
    <3>2. first \in ends /\ \A j \in ends : first <= j
      <4> HIDE DEF ends
      <4>1. QED
        BY <2>2, <3>1, LeastElement
    <3>3. fresh = SubSeq(names, 1, first - 1)
      BY <2>2
    <3> HIDE DEF first
    <3>4. first \in 1 .. Len(answer) /\ answer[first].data = "endOfMibView"
      BY <1>2, <3>2
    <3>5. first - 1 \in 0 .. Len(answer) /\ (first - 1) + 1 = first /\ first - 1 < Len(answer)
      BY <1>2, <3>4
    <3>6. \A i \in 1 .. first - 1 : answer[i].data = "active"
      <4>1. \A i \in 1 .. first - 1 : i \in 1 .. Len(answer) /\ ~(first <= i)
        BY <1>2, <3>4
      <4>2. QED
        BY <1>2, <1>3, <3>2, <4>1
    <3>7. fresh = [i \in 1 .. first - 1 |-> names[i]]
      <4> DEFINE S == {names[i] : i \in 1 .. Len(answer)}
      <4>1. \A i \in 1 .. first - 1 : names[i] \in S
        BY <1>2, <3>4
      <4> HIDE DEF names, S
      <4>2. first - 1 \in Int /\ 1 \in Int
        BY <3>5
      <4>3. /\ SubSeq(names, 1, first - 1) \in Seq(S)
            /\ Len(SubSeq(names, 1, first - 1))
                 = IF 1 <= first - 1 THEN (first - 1) - 1 + 1 ELSE 0
            /\ \A i \in 1 .. (first - 1) - 1 + 1 :
                 SubSeq(names, 1, first - 1)[i] = names[1 + i - 1]
        BY <4>1, <4>2, SubSeqProperties
      <4>4. Len(SubSeq(names, 1, first - 1)) = first - 1 /\ (first - 1) - 1 + 1 = first - 1
        BY <3>4, <4>3
      <4>5. \A i \in 1 .. first - 1 : 1 + i - 1 = i
        BY <3>4
      <4>6. DOMAIN SubSeq(names, 1, first - 1) = 1 .. first - 1
        BY <4>3, <4>4, LenProperties
      <4>7. \A i \in 1 .. first - 1 : SubSeq(names, 1, first - 1)[i] = names[i]
        BY <4>3, <4>4, <4>5
      <4>8. SubSeq(names, 1, first - 1)
              = [i \in DOMAIN SubSeq(names, 1, first - 1) |-> SubSeq(names, 1, first - 1)[i]]
        BY <4>3, SeqDef
      <4>9. QED
        BY <3>3, <4>6, <4>7, <4>8
    <3>8. done'
      BY <1>1, <2>2
    <3> HIDE DEF fresh, names, ends
    <3>9. QED
      BY <3>4, <3>5, <3>6, <3>7, <3>8
  <2>3. QED
    BY <2>1, <2>2
<1>5. Walked(table, range, answer, moved, n)
  BY <1>4, WalkedTo
<1>6. \A i \in 1 .. n : i \in 1 .. Len(answer) /\ names[i] = answer[i].name
  BY <1>2
<1>7. n \in Nat /\ n \in 0 .. Len(answer)
  BY <1>2
<1> HIDE DEF fresh, names, ends
<1>8. fresh = [i \in 1 .. n |-> answer[i].name]
  BY <1>4, <1>6
<1>9. ToSet(fresh) = {answer[i].name : i \in 1 .. n}
  BY <1>8 DEF ToSet
<1>10. Len(fresh) = n /\ (fresh = << >> <=> n = 0)
  <2>1. fresh = [i \in 1 .. n |-> fresh[i]]
    BY <1>8
  <2>2. Len(fresh) = n /\ fresh \in Seq({fresh[i] : i \in 1 .. n})
    BY <1>7, <2>1, ListLength
  <2>3. QED
    BY <1>7, <2>2, EmptySeq
<1>11. range' = moved[n]
  <2>1. CASE n = 0
    BY <1>1, <1>5, <1>10, <2>1 DEF Walked
  <2>2. CASE n # 0
    <3>1. n \in 1 .. n
      BY <1>7, <2>2
    <3>2. fresh[Len(fresh)] = answer[n].name
      BY <1>8, <1>10, <3>1
    <3>3. QED
      BY <1>1, <1>5, <1>10, <2>2, <3>2 DEF Walked
  <2>3. QED
    BY <2>1, <2>2
<1>12. QED
  BY <1>1, <1>4, <1>5, <1>7, <1>9, <1>11

\* The inductive invariant.  A row that was there all the time has been
\* reported or is still ahead, and no row that was reported is.
Walking ==
  /\ table \in PublishedTables \cup {Unavailable}
  /\ RangeOK(range)
  /\ \A name \in reported : InRange(name)
  /\ \A name \in stable : name \in reported \/ Ahead(range, name)
  /\ \A name \in reported : name \in IDs /\ ~Ahead(range, name)
  /\ done => \A name \in stable : InRange(name) => name \in reported

\* A request that is answered keeps it.
LEMMA AbsorbKeeps ==
  ASSUME Walking, ~done, table # Unavailable, NEW answer, NEW moved,
         Chain(table, range, answer, moved), Absorb(answer)
  PROVE  Walking'
<1>1. TableOK(table) /\ RangeOK(range) /\ table \in PublishedTables
  BY PublishedOK DEF Walking
<1>2. PICK n \in 0 .. Len(answer) :
           /\ Walked(table, range, answer, moved, n)
           /\ reported' = reported \cup {answer[i].name : i \in 1 .. n}
           /\ range' = moved[n]
           /\ stable' = stable \cap table
           /\ table' = table
           /\ done' => n < Len(answer) /\ answer[n + 1].data = "endOfMibView"
  BY <1>1, AbsorbFacts
<1>3. RangeOK(range') /\ range'.end = range.end
  BY <1>2 DEF Walked
<1>4. \A name : InRange(name)' <=> InRange(name)
  BY <1>3 DEF InRange
<1>5. \A i \in 1 .. n : InRange(answer[i].name)
  BY <1>2 DEF Walked, InRange, Before
<1>6. \A name \in reported' : InRange(name)'
  BY <1>2, <1>4, <1>5 DEF Walking
<1>7. \A name \in stable' : name \in reported' \/ Ahead(range, name)' 
  BY <1>2 DEF Walked, Walking, Ahead
<1>8. ASSUME done', NEW name \in stable', InRange(name)' PROVE name \in reported'
  <2>1. Len(answer) \in Nat /\ n \in 0 .. Len(answer) - 1
    BY <1>2, <1>8 DEF Chain
  <2>2. Ahead(range, name) /\ Before(range, name) => \E i \in 1 .. n : name = answer[i].name
    BY <1>1, <1>2, <1>8, <2>1, WalkedEnd
  <2>3. QED
    BY <1>2, <1>4, <1>8, <2>2 DEF Walking, InRange, Before
<1>9. \A name \in reported' : name \in IDs /\ ~Ahead(range', name)
  BY <1>2 DEF Walked, Walking
<1>10. \A name \in reported' : name \in IDs /\ ~Ahead(range, name)'
  BY <1>9 DEF Ahead
<1>11. QED
  BY <1>1, <1>2, <1>3, <1>6, <1>7, <1>8, <1>10 DEF Walking

\* ... and reports something new, or ends the walk.
LEMMA AbsorbAdvances ==
  ASSUME Walking, table # Unavailable, NEW answer, NEW moved,
         Chain(table, range, answer, moved), Len(answer) # 0, Absorb(answer)
  PROVE  done' \/ (reported \subseteq reported' /\ \E name \in reported' : name \notin reported)
<1>1. TableOK(table) /\ RangeOK(range)
  BY PublishedOK DEF Walking
<1>2. PICK n \in 0 .. Len(answer) :
           /\ Walked(table, range, answer, moved, n)
           /\ reported' = reported \cup {answer[i].name : i \in 1 .. n}
           /\ ~done' => n = Len(answer)
  BY <1>1, AbsorbFacts
<1>3. SUFFICES ASSUME ~done' PROVE \E name \in reported' : name \notin reported
  BY <1>2
<1>4. 1 \in 1 .. n
  BY <1>2, <1>3 DEF Chain
<1>5. Ahead(range, answer[1].name)
  BY <1>2, <1>4 DEF Walked
<1>6. QED
  BY <1>2, <1>4, <1>5 DEF Walking

\* One GetNext is a chain of one answer.
LEMMA NextChain ==
  ASSUME NEW rows, NEW r
  PROVE  \E moved : Chain(rows, r, <<GetNext(rows, r)>>, moved)
<1> DEFINE next == GetNext(rows, r)
           moved == [k \in 0 .. 1 |-> IF k = 0 THEN r ELSE MoveTo(r, next.name)]
<1>1. moved[0] = r /\ moved[1] = MoveTo(r, next.name)
  OBVIOUS
<1> HIDE DEF next, moved
<1>2. Len(<<next>>) = 1 /\ DOMAIN <<next>> = 1 .. 1 /\ <<next>>[1] = next
  OBVIOUS
<1>3. \A k \in 1 .. 1 : k = 1 /\ k - 1 = 0
  OBVIOUS
<1>4. Chain(rows, r, <<next>>, moved)
  BY <1>1, <1>2, <1>3 DEF Chain, next
<1>5. QED
  BY <1>4 DEF next

\* The first repetition is always made.
LEMMA PassesSome ==
  ASSUME NEW q, q.times \in Nat, q.times # 0
  PROVE  Passes(q) # 0
<1> DEFINE Made == {k \in 1 .. q.times :
                      \A earlier \in 1 .. k - 1 : ~Nothing(q, earlier, q.width)}
<1>1. 1 \in Made
  OBVIOUS
<1>2. IsFiniteSet(1 .. q.times) /\ Made \subseteq 1 .. q.times
  BY FS_Interval
<1>3. Passes(q) = Cardinality(Made)
  BY DEF Passes
<1> HIDE DEF Made
<1>4. IsFiniteSet(Made)
  BY <1>2, FS_Subset
<1>5. QED
  BY <1>1, <1>3, <1>4, FS_EmptySet

\* So is the answer of a GetBulk for one range, of one answer at least.
LEMMA BulkChain ==
  ASSUME NEW rows, NEW r, NEW times \in Nat
  PROVE  \E moved : /\ Chain(rows, r, GetBulk(rows, <<r>>, 0, times), moved)
                    /\ times # 0 => Len(GetBulk(rows, <<r>>, 0, times)) # 0
<1> DEFINE ranges == <<r>>
           q == Request(rows, ranges, 0, times)
           answer == GetBulk(rows, ranges, 0, times)
           moved == q.moved[1]
<1>1. ranges \in Seq({r}) /\ Len(ranges) = 1 /\ ranges[1] = r
  OBVIOUS
<1> HIDE DEF ranges
<1>2. /\ RequestOK(rows, q) /\ Asks(rows, q, ranges) /\ q.times = times
      /\ Placed(q, answer)
      /\ Passes(q) \in 0 .. times
      /\ Len(answer) = Cut(q.n + q.width * Passes(q))
  <2>1. 0 \in Nat
    OBVIOUS
  <2>2. QED
    BY <1>1, <2>1, BulkIs, Zenon
<1>3. q.n = 0
  BY <1>1 DEF Request
<1> HIDE DEF q, answer
<1>4. q.width = 1
  BY <1>1, <1>2, <1>3 DEF Asks, RequestOK
<1>5. q.n + q.width * Passes(q) = Passes(q)
  BY <1>2, <1>3, <1>4
<1>6. Len(answer) \in Nat /\ Len(answer) <= times
  BY <1>2, <1>5, BulkAssumption DEF Cut
<1>7. DOMAIN answer = 1 .. Len(answer)
  BY <1>2, LenProperties DEF Placed
<1>8. times # 0 => Len(answer) # 0
  BY <1>2, <1>5, PassesSome, BulkAssumption DEF Cut
<1>9. moved[0] = r
  <2>1. 1 \in 1 .. q.width /\ q.n + 1 = 1
    BY <1>3, <1>4
  <2>2. QED
    BY <1>1, <1>2, <2>1 DEF Asks
<1>10. ASSUME NEW k \in 1 .. Len(answer)
      PROVE  /\ answer[k] = GetNext(rows, moved[k - 1])
             /\ moved[k] = MoveTo(moved[k - 1], answer[k].name)
  <2>1. k \in 1 .. q.times /\ 1 \in 1 .. q.width
    BY <1>2, <1>4, <1>6
  <2>2. Place(q, k, 1) = k
    <3>1. q.width * (k - 1) = k - 1
      BY <1>4, <1>6
    <3>2. QED
      BY <1>3, <1>6, <3>1 DEF Place
  <2>3. answer[k] = q.walk[1][k]
    BY <1>2, <1>6, <2>1, <2>2 DEF Placed
  <2>4. QED
    BY <1>2, <2>1, <2>3 DEF RequestOK
<1> HIDE DEF moved
<1>11. Chain(rows, r, answer, moved)
  BY <1>6, <1>7, <1>9, <1>10 DEF Chain
<1>12. QED
  BY <1>11, <1>8 DEF answer, ranges

\* It holds of a walk that has not begun: every row lies behind STATUS.
LEMMA WalkingInit == WalkInit => Walking
<1>1. SUFFICES ASSUME WalkInit PROVE Walking
  OBVIOUS
<1>2. PICK include \in BOOLEAN, end \in {Following, Null, STATUS \o <<1, 2>>} :
        range = [start |-> STATUS, include |-> include, end |-> end]
  BY <1>1 DEF WalkInit, SearchRange
<1>3. STATUS \in IDs /\ Following \in IDs /\ <<1, 2>> \in IDs
  BY DEF STATUS, Following, IDs
<1>4. STATUS \o <<1, 2>> \in IDs
  BY <1>3, ConcatProperties DEF IDs
<1>5. range.start = STATUS /\ range.include = include /\ range.end = end
  BY <1>2
<1>6. RangeOK(range)
  BY <1>2, <1>3, <1>4, <1>5 DEF RangeOK
<1>7. \A name \in stable : Ahead(range, name)
  BY <1>1, <1>5, PublishedOK DEF WalkInit, Ahead
<1>8. QED
  BY <1>1, <1>6, <1>7 DEF WalkInit, Walking

\* Every step keeps it.
LEMMA WalkingNext == Walking /\ [WalkNext]_walkVars => Walking'
<1>1. SUFFICES ASSUME Walking, [WalkNext]_walkVars PROVE Walking'
  OBVIOUS
<1>2. CASE UNCHANGED walkVars
  BY <1>1, <1>2 DEF Walking, walkVars, InRange, Ahead
<1>3. CASE Publish
  BY <1>1, <1>3 DEF Walking, Publish, InRange, Ahead
<1>4. CASE NextOne
  <2>1. ~done /\ table # Unavailable /\ Absorb(<<GetNext(table, range)>>)
    BY <1>4 DEF NextOne
  <2>2. PICK moved : Chain(table, range, <<GetNext(table, range)>>, moved)
    BY NextChain
  <2>3. QED
    BY <1>1, <2>1, <2>2, AbsorbKeeps
<1>5. CASE Bulk
  <2>1. PICK n \in 1 .. MaxRepetitions : Absorb(GetBulk(table, <<range>>, 0, n))
    BY <1>5 DEF Bulk
  <2>2. n \in Nat /\ ~done /\ table # Unavailable
    BY <1>5, RepetitionsAssumption DEF Bulk
  <2>3. PICK moved : Chain(table, range, GetBulk(table, <<range>>, 0, n), moved)
    BY <2>2, BulkChain
  <2>4. QED
    BY <1>1, <2>1, <2>2, <2>3, AbsorbKeeps
<1>6. CASE Finished
  BY <1>1, <1>6 DEF Finished, Walking, walkVars, InRange, Ahead
<1>7. QED
  BY <1>1, <1>2, <1>3, <1>4, <1>5, <1>6 DEF WalkNext

\* A walk by GetNext and GetBulk over tables that are replaced between its
\* requests misses no row that was there all the time, and reports nothing
\* outside its range, whatever the tables are.
THEOREM WalkTheorem == WalkSpec => []WalkIsComplete
<1>1. Walking => WalkIsComplete
  BY DEF Walking, WalkIsComplete
<1>2. QED
  BY <1>1, WalkingInit, WalkingNext, PTL DEF WalkSpec

\* Every request makes progress, however the tables change: one that does not
\* end the walk reports a row that was not reported before.
THEOREM ProgressTheorem ==
  WalkSpec => [][packet' # packet =>
                   \/ done'
                   \/ reported \subseteq reported' /\ \E name \in reported' : name \notin reported
                ]_walkVars
<1>1. ASSUME Walking, WalkNext, packet' # packet
      PROVE  \/ done'
             \/ reported \subseteq reported' /\ \E name \in reported' : name \notin reported
  <2>1. CASE NextOne
    <3>1. table # Unavailable /\ Absorb(<<GetNext(table, range)>>)
      BY <2>1 DEF NextOne
    <3>2. PICK moved : Chain(table, range, <<GetNext(table, range)>>, moved)
      BY NextChain
    <3>3. Len(<<GetNext(table, range)>>) # 0
      OBVIOUS
    <3>4. QED
      BY <1>1, <3>1, <3>2, <3>3, AbsorbAdvances
  <2>2. CASE Bulk
    <3>1. PICK n \in 1 .. MaxRepetitions : Absorb(GetBulk(table, <<range>>, 0, n))
      BY <2>2 DEF Bulk
    <3>2. n \in Nat /\ n # 0 /\ table # Unavailable
      BY <2>2, RepetitionsAssumption DEF Bulk
    <3>3. PICK moved : /\ Chain(table, range, GetBulk(table, <<range>>, 0, n), moved)
                       /\ n # 0 => Len(GetBulk(table, <<range>>, 0, n)) # 0
      BY <3>2, BulkChain
    <3>4. QED
      BY <1>1, <3>1, <3>2, <3>3, AbsorbAdvances
  <2>3. CASE Publish \/ Finished
    BY <1>1, <2>3 DEF Publish, Finished, walkVars
  <2>4. QED
    BY <1>1, <2>1, <2>2, <2>3 DEF WalkNext
<1>2. QED
  BY <1>1, WalkingInit, WalkingNext, PTL DEF WalkSpec

\* Get, GetNext and GetBulk agree on every table that is published.
THEOREM LookupTheorem == WalkSpec => []LookupsAgree
<1>1. Walking => LookupsAgree
  <2>1. SUFFICES ASSUME Walking, table # Unavailable PROVE GetAgrees /\ BulkIsRepeatedNext
    BY DEF LookupsAgree, GetAgrees, BulkIsRepeatedNext
  <2>2. TableOK(table)
    BY <2>1, PublishedOK DEF Walking
  <2>3. GetAgrees
    <3>1. SUFFICES ASSUME NEW n \in 1 .. 3, NEW name \in [1 .. n -> {0, 1, 3, 4}]
                   PROVE  name \in IDs /\ name # << >>
      BY <2>2, GetFacts DEF GetAgrees
    <3>2. name \in [1 .. n -> Nat] /\ n \in Nat
      OBVIOUS
    <3>3. name \in Seq(Nat)
      BY <3>2, SeqDef
    <3>4. Len(name) \in Nat /\ 1 .. Len(name) = 1 .. n
      BY <3>2, <3>3, LenProperties
    <3>5. Len(name) # 0
      BY <3>4
    <3>6. QED
      BY <3>3, <3>5, EmptySeq DEF IDs
  <2>4. BulkIsRepeatedNext
    <3>1. SUFFICES ASSUME NEW other, NEW nonRepeaters \in 0 .. 3,
                          NEW maxRepetitions \in 0 .. MaxRepetitions + 1
                   PROVE  IsRepeatedNext(
                            GetBulk(table, <<range, other>>, nonRepeaters, maxRepetitions),
                            table, <<range, other>>, nonRepeaters, maxRepetitions)
      BY DEF BulkIsRepeatedNext
    <3> DEFINE ranges == <<range, other>>
    <3>2. ranges \in Seq({range, other}) /\ nonRepeaters \in Nat /\ maxRepetitions \in Nat
      BY RepetitionsAssumption
    <3> HIDE DEF ranges
    <3>3. IsRepeatedNext(GetBulk(table, ranges, nonRepeaters, maxRepetitions),
                         table, ranges, nonRepeaters, maxRepetitions)
      BY <3>2, BulkReference
    <3>4. QED
      BY <3>3 DEF ranges
  <2>5. QED
    BY <2>3, <2>4
<1>2. QED
  BY <1>1, WalkingInit, WalkingNext, PTL DEF WalkSpec

==============================================================================
