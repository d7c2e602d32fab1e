------------------------------ MODULE TrunkLog ------------------------------
(***************************************************************************)
(* What the write queue promises its callers ("queue order is main's       *)
(* advance order ... concurrent pushes land one by one in enqueue order",  *)
(* docs/architecture.md section 4), without claims, locks, reaper or       *)
(* crashes: operations draw numbered tickets, an operation has at most one *)
(* open ticket and none once it has landed, tickets may be closed without  *)
(* landing, and only the lowest open ticket may land.                      *)
(***************************************************************************)
EXTENDS Naturals, Sequences

CONSTANTS Ops

VARIABLES
  tickets,   \* tickets[t]: the operation ticket t was drawn for
  open,      \* tickets that may still land
  log        \* tickets that landed, in landing order

tvars == <<tickets, open, log>>

Init ==
  /\ tickets = <<>>
  /\ open = {}
  /\ log = <<>>

\* Some tickets are closed without landing.
Close ==
  /\ \E S \in SUBSET open : open' = open \ S
  /\ UNCHANGED <<tickets, log>>

\* Some tickets are closed and one is drawn for an operation that then has no
\* other: an admission, or a requeue at the tail.
Draw(o) ==
  \E S \in SUBSET open :
    /\ \A t \in open \ S : tickets[t] # o
    /\ \A n \in DOMAIN log : tickets[log[n]] # o
    /\ tickets' = Append(tickets, o)
    /\ open' = (open \ S) \cup {Len(tickets) + 1}
    /\ UNCHANGED log

Land(t) ==
  /\ t \in open
  /\ \A u \in open : t <= u
  /\ log' = Append(log, t)
  /\ open' = open \ {t}
  /\ UNCHANGED tickets

Next ==
  \/ Close
  \/ \E o \in Ops : Draw(o)
  \/ \E t \in open : Land(t)

Spec == Init /\ [][Next]_tvars
=============================================================================
