------------------------- MODULE MCSemainoPipeline -------------------------
(***************************************************************************)
(* Instances of SemainoPipeline.  Signals rf1 and rf2 are of one domain at *)
(* different times, so that a domain slot is overwritten and an alert can  *)
(* be repeated; mesh and net are two more domains in the same cell.        *)
(***************************************************************************)
EXTENDS SemainoPipeline, TLC

CONSTANTS rf1, rf2, mesh, net, here

Domains == {"rf", "mesh", "net"}

Four == {rf1, rf2, mesh, net}

MCCell == {here}

MCKindOf == rf1 :> "rf" @@ rf2 :> "rf" @@ mesh :> "mesh" @@ net :> "net"

MCLocationOf == [s \in Four |-> {here}]

MCTimeOf == rf1 :> 0 @@ rf2 :> 2 @@ mesh :> 1 @@ net :> 2

=============================================================================
