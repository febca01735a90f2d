-------------------------- MODULE MCStoreLifecycle --------------------------
(***************************************************************************)
(* StoreLifecycle for TLC: one operation that evacuates, and one of any    *)
(* kind beside it.                                                         *)
(***************************************************************************)
EXTENDS StoreLifecycle, TLC

CONSTANTS o1, o2

EvacuationAndAny ==
    o1 :> {"evacuate"} @@ o2 :> {"place", "evacuate", "repair", "salvage"}
=============================================================================
