---------------------------- MODULE MCSenderSlots ----------------------------
(* An instance of SenderSlots for TLC: the main thread, the heartbeat and    *)
(* two workers compete for one slot; one key is uploaded and asked for once. *)
EXTENDS SenderSlots

MCKeys == {<<"a">>}
MCWire == {<<"a", "n">>}
=============================================================================
