---------------------------- MODULE MCTableWalk ----------------------------
(***************************************************************************)
(* Module TableWalk for TLC: the tables of six topologies on up to three   *)
(* interfaces, among them a VLAN added, moved and removed.                 *)
(***************************************************************************)
EXTENDS TableWalk

Stack(interfaces, pairs) ==
  FromTopology([interfaces |-> interfaces,
                relationships |-> {[higher |-> p[1], lower |-> p[2]] : p \in pairs}])

MCTables ==
  {Stack({}, {}),
   Stack({1}, {}),
   Stack({1, 2}, {}),
   Stack({1, 2}, {<<2, 1>>}),
   Stack({1, 2, 3}, {<<3, 1>>, <<3, 2>>}),
   Stack({1, 2, 3}, {<<2, 1>>, <<3, 1>>})}

=============================================================================
