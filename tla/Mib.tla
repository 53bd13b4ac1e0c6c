-------------------------------- MODULE Mib --------------------------------
(***************************************************************************)
(* The ifStackTable of src/mib.rs: the rows derived from a topology, and   *)
(* the three read operations of AgentX over them.                          *)
(*                                                                         *)
(* An object identifier is a sequence of numbers.  STATUS, the column all  *)
(* rows live under, is shortened from eleven components to one; order is   *)
(* the agentx crate's, component by component, a prefix first.             *)
(***************************************************************************)
EXTENDS Integers, Sequences, SequencesExt

CONSTANTS
  MAX_BULK_BINDINGS, \* most bindings in one response (4096)
  Null               \* the null object identifier: a range without end

ASSUME BulkAssumption == MAX_BULK_BINDINGS \in Nat \ {0}

STATUS == <<3>>

\* The column after STATUS.
Following == <<4>>

\* Ord for ID: the first component that differs decides, and an identifier
\* comes after its prefixes.
Less(a, b) ==
  \E k \in 1 .. Len(b) :
    /\ k <= Len(a) + 1
    /\ \A i \in 1 .. k - 1 : a[i] = b[i]
    /\ k <= Len(a) => a[k] < b[k]

\* from_topology: a row for every relationship, and a boundary row for every
\* interface with nothing above or nothing below.
FromTopology(topology) ==
  LET higher == {r.higher : r \in topology.relationships}
      lower  == {r.lower : r \in topology.relationships}
  IN {<<r.higher, r.lower>> : r \in topology.relationships}
     \cup {<<0, index>> : index \in topology.interfaces \ lower}
     \cup {<<index, 0>> : index \in topology.interfaces \ higher}

\* from_rows: the keys of the map; every value is active(1).
FromRows(rows) == {STATUS \o row : row \in rows}

-----------------------------------------------------------------------------

\* A search range: start, whether start itself qualifies, and end.
SearchRange(start, include, end) == [start |-> start, include |-> include, end |-> end]

Binding(name, data) == [name |-> name, data |-> data]

Get(table, name) ==
  Binding(name,
    IF name \in table THEN "active"
    ELSE IF ~Less(name, STATUS) /\ Less(name, Following) THEN "noSuchInstance"
    ELSE "noSuchObject")

Candidates(table, range) ==
  {name \in table : Less(range.start, name) \/ (range.include /\ name = range.start)}

GetNextIgnoresEnd(table, range) ==
  LET after == Candidates(table, range)
  IN IF after # {}
     THEN Binding(CHOOSE n \in after : \A m \in after \ {n} : Less(n, m), "active")
     ELSE Binding(range.start, "endOfMibView")

GetNextNeverEnds(table, range) ==
  LET after == Candidates(table, range)
      first == CHOOSE name \in after : \A other \in after \ {name} : Less(name, other)
  IN IF after # {} /\ (range.end = Null \/ Less(first, range.end))
     THEN Binding(first, "active")
     ELSE Get(table, range.start)

GetNext(table, range) ==
  LET after == Candidates(table, range)
      first == CHOOSE name \in after : \A other \in after \ {name} : Less(name, other)
  IN IF after # {} /\ (range.end = Null \/ Less(first, range.end))
     THEN Binding(first, "active")
     ELSE Binding(range.start, "endOfMibView")

(***************************************************************************)
(* get_bulk, after the non-repeaters: the loop over the repetitions, each  *)
(* over the repeaters.  acc holds the bindings so far, the repeaters and   *)
(* whether the loop has returned or broken off.                            *)
(***************************************************************************)
MoveTo(range, name) == [range EXCEPT !.start = name, !.include = FALSE]

RepeatRangeLastDecides(table, acc, j) ==
  IF acc.done THEN acc
  ELSE IF Len(acc.result) = MAX_BULK_BINDINGS THEN [acc EXCEPT !.done = TRUE]
  ELSE LET next == GetNext(table, acc.ranges[j])
       IN [acc EXCEPT !.exhausted = next.data = "endOfMibView",
                      !.ranges[j] = MoveTo(@, next.name),
                      !.result    = Append(@, next)]

RepeatRange(table, acc, j) ==
  IF acc.done THEN acc
  ELSE IF Len(acc.result) = MAX_BULK_BINDINGS THEN [acc EXCEPT !.done = TRUE]
  ELSE LET next == GetNext(table, acc.ranges[j])
       IN [acc EXCEPT
             !.exhausted = @ /\ next.data = "endOfMibView",
             !.ranges[j] = MoveTo(@, next.name),
             !.result    = Append(@, next)]

\* The repeaters in turn: acc after each of them.
RepeatersTo(table, acc) ==
  LET to[j \in 0 .. Len(acc.ranges)] ==
        IF j = 0 THEN [acc EXCEPT !.exhausted = TRUE] ELSE RepeatRange(table, to[j - 1], j)
  IN to

Repetition(table, acc) ==
  LET pass == RepeatersTo(table, acc)[Len(acc.ranges)]
  IN IF acc.done THEN acc ELSE [pass EXCEPT !.done = @ \/ pass.exhausted]

RepetitionsTo(table, start, maxRepetitions) ==
  LET to[k \in 0 .. maxRepetitions] ==
        IF k = 0 THEN start ELSE Repetition(table, to[k - 1])
  IN to

GetBulk(table, ranges, nonRepeaters, maxRepetitions) ==
  LET count == IF nonRepeaters <= Len(ranges) THEN nonRepeaters ELSE Len(ranges)
      taken == IF count <= MAX_BULK_BINDINGS THEN count ELSE MAX_BULK_BINDINGS
      once  == [j \in 1 .. taken |-> GetNext(table, ranges[j])]
      start == [result |-> once, done |-> FALSE, exhausted |-> TRUE,
                ranges |-> SubSeq(ranges, count + 1, Len(ranges))]
  IN RepetitionsTo(table, start, maxRepetitions)[maxRepetitions].result

=============================================================================
