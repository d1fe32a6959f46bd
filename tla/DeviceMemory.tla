---------------------------- MODULE DeviceMemory ----------------------------
(***************************************************************************)
(* What a memory manager promises to the tensor library, whatever it       *)
(* caches or splits: a pointer returned by alloc stands for a region that  *)
(* overlaps no other region handed out, the region stays as it is while    *)
(* somebody holds a lock on it, and it goes away exactly when its last     *)
(* lock is released.                                                       *)
(***************************************************************************)
EXTENDS Naturals

CONSTANTS Addresses,   \* addresses of the device
          Sizes,       \* sizes of regions
          Locks        \* who may hold a lock on a region

VARIABLE held          \* address -> [size, locks] of the regions handed out

Init == held = [p \in {} |-> [size |-> 0, locks |-> {}]]

Disjoint(p, s, q, t) == p + s <= q \/ q + t <= p

Alloc(who) ==
  \E p \in (Addresses \cap DOMAIN held') \ DOMAIN held, s \in Sizes :
    /\ held'[p].size = s
    /\ \A q \in DOMAIN held : Disjoint(p, s, q, held[q].size)
    /\ held' = [q \in DOMAIN held \cup {p} |->
                  IF q = p THEN [size |-> s, locks |-> {who}] ELSE held[q]]

Lock(p, who) ==
  held' = [held EXCEPT ![p].locks = @ \cup {who}]

Unlock(p, who) ==
  IF held[p].locks \ {who} # {}
  THEN held' = [held EXCEPT ![p].locks = @ \ {who}]
  ELSE held' = [q \in DOMAIN held \ {p} |-> held[q]]

Next ==
  \/ \E who \in Locks : Alloc(who)
  \/ \E p \in DOMAIN held, who \in Locks : Lock(p, who) \/ Unlock(p, who)

Spec == Init /\ [][Next]_held
==============================================================================
