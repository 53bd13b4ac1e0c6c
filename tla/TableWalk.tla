----------------------------- MODULE TableWalk -----------------------------
(***************************************************************************)
(* A management station walks the table through the AgentX master while    *)
(* the topology monitor replaces it.  dispatch() of src/session.rs takes   *)
(* one snapshot per request and answers the whole request from it.         *)
(***************************************************************************)
EXTENDS Mib, FiniteSets

CONSTANTS
  Tables,        \* sets of rows the monitor can publish
  Unavailable,   \* what snapshot() returns when no table is published
  MaxRepetitions \* of one GetBulk request

ASSUME RepetitionsAssumption == MaxRepetitions \in Nat \ {0}

\* Pairs of interface indexes; a map in memory is finite.
ASSUME TablesAssumption ==
  \A rows \in Tables : rows \subseteq Nat \X Nat /\ IsFiniteSet(rows)

VARIABLES
  table,    \* the published table, as object identifiers, or Unavailable
  range,    \* the next search range of the walk
  reported, \* names reported so far
  stable,   \* names in every table that answered a request of the walk
  done,     \* endOfMibView was reported
  packet    \* packet id of the last request, modulo 2: every request is a step

walkVars == <<table, range, reported, stable, done, packet>>

PublishedTables == {FromRows(rows) : rows \in Tables}

WalkInit ==
  /\ table = Unavailable
  /\ range \in {SearchRange(STATUS, include, end) :
                  include \in BOOLEAN, end \in {Following, Null, STATUS \o <<1, 2>>}}
  /\ reported = {}
  /\ stable = UNION PublishedTables
  /\ done = FALSE
  /\ packet = 0

\* TablePublisher::publish and ::unavailable.
Publish ==
  /\ ~done
  /\ table' \in (PublishedTables \cup {Unavailable}) \ {table}
  /\ UNCHANGED <<range, reported, stable, done, packet>>

\* The station takes the answer's names until endOfMibView, and goes on from
\* the last one.
Absorb(answer) ==
  LET ends  == {i \in DOMAIN answer : answer[i].data = "endOfMibView"}
      names == [i \in DOMAIN answer |-> answer[i].name]
      fresh == IF ends = {} THEN names
               ELSE SubSeq(names, 1, (CHOOSE i \in ends : \A j \in ends : i <= j) - 1)
  IN /\ reported' = reported \cup ToSet(fresh)
     /\ range' = IF fresh = << >> THEN range
                 ELSE MoveTo(range, fresh[Len(fresh)])
     /\ stable' = stable \cap table
     /\ done' = (ends # {})
     /\ packet' = 1 - packet
     /\ UNCHANGED table

\* An unavailable table answers processingError: the walk may try again.
NextOne ==
  /\ ~done
  /\ table # Unavailable
  /\ Absorb(<<GetNext(table, range)>>)

Bulk ==
  /\ ~done
  /\ table # Unavailable
  /\ \E n \in 1 .. MaxRepetitions : Absorb(GetBulk(table, <<range>>, 0, n))

Finished == done /\ UNCHANGED walkVars

WalkNext == Publish \/ NextOne \/ Bulk \/ Finished

\* A station with an unfinished walk sends its next request.
WalkSpec ==
  /\ WalkInit /\ [][WalkNext]_walkVars
  /\ SF_walkVars(NextOne \/ Bulk)

-----------------------------------------------------------------------------

InRange(name) == range.end = Null \/ Less(name, range.end)

\* A walk that ends has reported every row that was there all the time, and
\* nothing outside its range, however often the table was replaced between
\* its requests.
WalkIsComplete ==
  /\ done => {name \in stable : InRange(name)} \subseteq reported
  /\ \A name \in reported : InRange(name)

\* A walk ends however the tables change under it, as long as one is there
\* again and again (TableReturns of module MonitorLive).
WalkEnds == []<>(table # Unavailable) => <>done

\* get() finds exactly what a walk reports, and tells a missing instance from
\* a missing object by the order of names alone: the names between STATUS and
\* the column after it are those that STATUS is a prefix of.
GetAgrees ==
  table # Unavailable =>
    \A name \in UNION {[1 .. n -> {0, 1, 3, 4}] : n \in 1 .. 3} :
      Get(table, name).data =
        IF GetNext(table, SearchRange(name, TRUE, Null)) = Binding(name, "active")
        THEN "active"
        ELSE IF IsPrefix(STATUS, name) THEN "noSuchInstance" ELSE "noSuchObject"

\* The ranges when GetNext is asked again and again, each time from the name
\* it answered before, and its answers.
RangesTo(rows, r, n) ==
  LET to[k \in 0 .. n] ==
        IF k = 0 THEN r
        ELSE LET last == to[k - 1] IN MoveTo(last, GetNext(rows, last).name)
  IN to

RepeatedNext(rows, r, n) == [k \in 1 .. n |-> GetNext(rows, RangesTo(rows, r, n)[k - 1])]

\* The reference for get_bulk: the answer is the interleaving of the walks that
\* repeated GetNext requests would give, after one answer for every
\* non-repeater, cut at MAX_BULK_BINDINGS and after the first repetition that
\* finds nothing.
IsRepeatedNext(answer, rows, ranges, nonRepeaters, maxRepetitions) ==
  LET n         == IF nonRepeaters > Len(ranges) THEN Len(ranges) ELSE nonRepeaters
      width     == Len(ranges) - n
      walk      == [j \in 1 .. width |-> RepeatedNext(rows, ranges[n + j], maxRepetitions)]
      Silent(k) == \A j \in 1 .. width : walk[j][k].data = "endOfMibView"
      passes    == Cardinality({k \in 1 .. maxRepetitions :
                                  \A earlier \in 1 .. k - 1 : ~Silent(earlier)})
      size      == n + width * passes
  IN /\ Len(answer) = IF size <= MAX_BULK_BINDINGS THEN size ELSE MAX_BULK_BINDINGS
     /\ \A i \in 1 .. n : i <= Len(answer) => answer[i] = GetNext(rows, ranges[i])
     /\ \A k \in 1 .. maxRepetitions, j \in 1 .. width :
          LET i == n + width * (k - 1) + j
          IN i <= Len(answer) => answer[i] = walk[j][k]

\* get_bulk on every table, with the walk's range beside an unbounded and an
\* empty one, and every shape of request.
BulkIsRepeatedNext ==
  table # Unavailable =>
    \A other \in {SearchRange(STATUS, FALSE, Null), SearchRange(Following, FALSE, Null)} :
    \A nonRepeaters \in 0 .. 3, maxRepetitions \in 0 .. MaxRepetitions + 1 :
      IsRepeatedNext(GetBulk(table, <<range, other>>, nonRepeaters, maxRepetitions),
                     table, <<range, other>>, nonRepeaters, maxRepetitions)

\* get, get_next and get_bulk are three views of one table.
LookupsAgree == GetAgrees /\ BulkIsRepeatedNext

=============================================================================
