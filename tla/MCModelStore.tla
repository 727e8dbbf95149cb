---------------------------- MODULE MCModelStore ----------------------------
(* A small instance of ModelStore; ids, images and handlers are symmetric.  *)
EXTENDS ModelStore, TLC

StoreSymmetry == Permutations(Models) \cup Permutations(Images)
                   \cup Permutations(Handlers)
=============================================================================
