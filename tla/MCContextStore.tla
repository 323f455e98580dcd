---------------------------- MODULE MCContextStore ----------------------------
(* Instances of the content stores for TLC: the store whose operations are    *)
(* serial transactions, and both stores as concurrent clients see them.  A    *)
(* behaviour belongs to one of the two and leaves the variables of the other. *)
EXTENDS ContextStore, CachedStore

CONSTANTS u1, u2, t1, c1, c2

OneTenant == u1 :> t1 @@ u2 :> t1
(* No action tells the URIs of one tenant apart, nor the clients. *)
Symmetry == Permutations({u1, u2}) \cup Permutations({c1, c2})

VARIABLE part

vars == <<part, storeVars, cachedStoreVars>>

Init ==
  /\ part \in {"rows", "clients"}
  /\ StoreInit /\ CachedStoreInit
  /\ part # "clients" => backend = "sqlite"

Next ==
  /\ UNCHANGED part
  /\ \/ part = "rows" /\ StoreNext /\ UNCHANGED cachedStoreVars
     \/ part = "clients" /\ CachedStoreNext /\ UNCHANGED storeVars

Spec == Init /\ [][Next]_vars
=============================================================================
