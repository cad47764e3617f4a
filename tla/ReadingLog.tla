----------------------------- MODULE ReadingLog -----------------------------
(***************************************************************************)
(* What the collector promises of the readings it keeps: a log that only   *)
(* grows, filled in rounds.  A round carries one stamp, is due one gap     *)
(* after the round before it, and offers every table in turn at most one   *)
(* entry, at working time only.  A new process forgets the round.          *)
(***************************************************************************)
EXTENDS Integers

CONSTANTS Tables, Serials, AtWork(_)

VARIABLES
    log,     \* entries [table, ts, serial]
    gap,     \* distance of rounds
    due,     \* when the next round may begin
    stamp,   \* stamp of the round
    turn     \* first table the round has not come to

logVars == <<log, gap, due, stamp, turn>>

Init ==
    /\ log = {}
    /\ gap \in Nat
    /\ due = 0 /\ stamp = 0 /\ turn = 0

Begin ==
    /\ gap' \in Nat
    /\ due' = 0 /\ stamp' = 0 /\ turn' = 0
    /\ UNCHANGED log

Round ==
    /\ stamp' \in Nat
    /\ stamp' >= due
    /\ due' = stamp' + gap
    /\ turn' = 0
    /\ UNCHANGED <<log, gap>>

Record(serial) ==
    LET entry == [table |-> turn, ts |-> stamp, serial |-> serial] IN
    /\ turn \in Tables
    /\ AtWork(stamp)
    /\ entry \notin log
    /\ log' = log \union {entry}
    /\ turn' = turn + 1
    /\ UNCHANGED <<gap, due, stamp>>

Skip ==
    /\ turn' = turn + 1
    /\ UNCHANGED <<log, gap, due, stamp>>

Next ==
    \/ Begin
    \/ Round
    \/ \E serial \in Serials : Record(serial)
    \/ Skip

Spec == Init /\ [][Next]_logVars
=============================================================================
