------------------------------ MODULE EventLog ------------------------------
(***************************************************************************)
(* What the event bus promises (openspec relay-event-stream): events are   *)
(* numbered 1, 2, 3...; exactly the most recent Capacity of them are       *)
(* retained, oldest first; and what each page shows is a log that only     *)
(* grows, by events that were published, each later than the one before.   *)
(***************************************************************************)
EXTENDS Integers, Sequences

CONSTANTS Capacity, Tabs

VARIABLES
    published,      \* the number of the last event
    window,         \* the retained events, oldest first
    shown           \* what each page has shown

logVars == <<published, window, shown>>

LogInit ==
    /\ published = 0
    /\ window = <<>>
    /\ shown = [t \in Tabs |-> <<>>]

Record ==
    /\ published' = published + 1
    /\ LET all == Append(window, published + 1)
       IN  window' = IF Len(all) > Capacity THEN Tail(all) ELSE all
    /\ UNCHANGED shown

Show(t, e) ==
    /\ e \in 1..published
    /\ \A i \in DOMAIN shown[t] : shown[t][i] < e
    /\ shown' = [shown EXCEPT ![t] = Append(@, e)]
    /\ UNCHANGED <<published, window>>

LogNext == Record \/ \E t \in Tabs : \E e \in 1..published : Show(t, e)

LogSpec == LogInit /\ [][LogNext]_logVars
=============================================================================
