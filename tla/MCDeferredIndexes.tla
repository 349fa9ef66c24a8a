------------------------- MODULE MCDeferredIndexes --------------------------
(***************************************************************************)
(* Two handlers for DeferredIndexes: the migrations of the first create    *)
(* both of its indexes, the second leaves its index to defer_index.        *)
(***************************************************************************)
EXTENDS DeferredIndexes

TwoHandlersCreate == <<{"block_height_idx", "owner_idx"}, {}>>
TwoHandlersDefer == <<{"block_height_idx", "owner_idx"}, {"asset_idx"}>>
AllIndexes == {"block_height_idx", "owner_idx", "asset_idx"}
=============================================================================
