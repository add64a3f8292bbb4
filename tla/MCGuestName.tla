--------------------------- MODULE MCGuestName ---------------------------
(* Small instances of GuestName for TLC. *)
EXTENDS GuestName, TLC

CONSTANTS vmA, vmB, tplA, web, Web, db

TwoVMs == vmA :> "VirtualMachine" @@ vmB :> "VirtualMachine"
VMAndTemplate == vmA :> "VirtualMachine" @@ tplA :> "VirtualMachineTemplate"

\* The lexical order of kind, namespace and name.
Order == vmA :> 0 @@ vmB :> 1 @@ tplA :> 2
RankOf(S) == [r \in S |-> Order[r]]
RankTwoVMs == RankOf({vmA, vmB})
RankVMAndTemplate == RankOf({vmA, tplA})

FoldOne == web :> web
FoldCase == web :> web @@ Web :> web
FoldTwo == web :> web @@ db :> db
=============================================================================
