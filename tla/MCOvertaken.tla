---------------------------- MODULE MCOvertaken ----------------------------
(* Allocator of three items, where a member joins and another is lost      *)
(* while the leader's transactions, of which there are three, are issued.  *)
EXTENDS Allocator, TLC

MCItemLimit == (1 :> 2 @@ 2 :> 2 @@ 3 :> 1)
MCAnnounced == <<1, 2>>
MCReplication == (1 :> 1 @@ 2 :> 1 @@ 3 :> 1)
MCAssigned == {<<1, 1, 0>>, <<2, 1, 0>>, <<3, 2, 0>>}
MCChanges == {{<<"announce", 3>>, <<"expire", 2>>}}
=============================================================================
