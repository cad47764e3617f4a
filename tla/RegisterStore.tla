--------------------------- MODULE RegisterStore ---------------------------
(***************************************************************************)
(* What a Modbus server promises: areas of values, each at its addresses.  *)
(* A request writes and then reads values of one area, at once and as a    *)
(* whole, or is refused and changes nothing.  A value is the set of its    *)
(* bits that are on.  A write keeps the bits of `and' and takes the others *)
(* from `or'.                                                              *)
(***************************************************************************)
CONSTANTS
    Requests,   \* records of area, reads, writes and broadcast
    Sampled     \* areas that change by themselves

VARIABLES
    store,      \* area -> address -> value
    answer      \* the last answer given

Silent == [status |-> "silent", values |-> <<>>]
Refused == [status |-> "refused", values |-> <<>>]

Masked(old, w) == (old \cap w.and) \union (w.or \ w.and)

Written(area, r) ==
    [a \in DOMAIN area |-> IF a \in DOMAIN r.writes THEN Masked(area[a], r.writes[a]) ELSE area[a]]

Access(r) ==
    /\ r.reads \union DOMAIN r.writes \subseteq DOMAIN store[r.area]
    /\ store' = [store EXCEPT ![r.area] = Written(store[r.area], r)]
    /\ \/ answer' = Silent
       \/ /\ ~r.broadcast
          /\ answer' = [status |-> "ok", values |-> [a \in r.reads |-> store'[r.area][a]]]

Refuse == answer' \in {Silent, Refused} /\ UNCHANGED store

Sample ==
    /\ \A area \in DOMAIN store \ Sampled : store'[area] = store[area]
    /\ DOMAIN store' = DOMAIN store
    /\ UNCHANGED answer

Next == (\E r \in Requests : Access(r)) \/ Refuse \/ Sample

vars == <<store, answer>>
=============================================================================
