---------------------------- MODULE MCWriteProxy ----------------------------
(***************************************************************************)
(* Instances of WriteProxy.  Batches hold two units; writes have sizes     *)
(* below, at and above that, so that a batch is filled, a write shelved    *)
(* and an oversized write sent alone.                                      *)
(***************************************************************************)
EXTENDS WriteProxy

CONSTANTS text, binary, replaced

MCAt == <<2, 2, 2>>
MCSize == <<1, 1, 3>>
MCPayload == <<text, binary, text>>
MCText == {text, replaced}
=============================================================================
