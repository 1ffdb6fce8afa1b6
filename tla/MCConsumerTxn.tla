--------------------------- MODULE MCConsumerTxn ---------------------------
(* ConsumerTxn over few replicas and messages.                             *)
EXTENDS ConsumerTxn

MCMinOffset == [s \in Source |-> 0]
MCApps == {<<"json", FALSE>>, <<"rocks", TRUE>>}
=============================================================================
