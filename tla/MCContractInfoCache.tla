------------------------- MODULE MCContractInfoCache ------------------------
(* Four lookups next to a batch with a request for a block.                *)
EXTENDS ContractInfoCache

MCLookup == 1 .. 4
MCRequest == 1 .. 5
MCBatchCalls == {<<5>>}
=============================================================================
