----------------------------- MODULE AccessControl -----------------------------
(***************************************************************************)
(* What the gateways of a lab promise together, whatever a request says:   *)
(* a ticket (an access token) opens a door (a gateway that enforces) at    *)
(* most once, while it is live and its holder is not withdrawn.  What the  *)
(* door remembers is the mark on the ticket, which several tickets may     *)
(* bear, and which it does not see on a ticket marked 0.  Tickets stop     *)
(* being live for any reason and never become live again; how scores,      *)
(* cards, grants and clocks decide is left open.                           *)
(***************************************************************************)
EXTENDS Integers, Sequences

CONSTANTS Agents, Doors, MaxTickets, Marks

VARIABLES holder,          \* the agent of each ticket
          mark,            \* the mark on each ticket
          live,            \* the tickets that may still be accepted
          withdrawn,       \* agents whose standing was taken away
          spent,           \* the marks each door has taken
          permits          \* how often a door permitted the ticket's holder

vars == <<holder, mark, live, withdrawn, spent, permits>>

Init == /\ holder = <<>>
        /\ mark = <<>>
        /\ live = {}
        /\ withdrawn = {}
        /\ spent = [d \in Doors |-> {}]
        /\ permits = [d \in Doors |-> [k \in 1..MaxTickets |-> 0]]

Issue(a, m) ==
  /\ Len(holder) < MaxTickets
  /\ holder' = Append(holder, a)
  /\ mark' = Append(mark, m)
  /\ live' \in SUBSET (live \cup {Len(holder) + 1})
  /\ UNCHANGED <<withdrawn, spent, permits>>

\* Time passes, or the provider's key is replaced.
Lapse == live' \in SUBSET live /\ UNCHANGED <<holder, mark, withdrawn, spent, permits>>

Withdraw(a) ==
  /\ withdrawn' = withdrawn \cup {a}
  /\ UNCHANGED <<holder, mark, live, spent, permits>>

Reinstate(a) ==
  /\ withdrawn' = withdrawn \ {a}
  /\ UNCHANGED <<holder, mark, live, spent, permits>>

\* The door takes the ticket, and then permits its holder or does not.
Use(d, k) ==
  /\ k \in live
  /\ mark[k] \notin spent[d]
  /\ holder[k] \notin withdrawn
  /\ spent' = [spent EXCEPT ![d] = @ \cup ({mark[k]} \ {0})]
  /\ permits' \in {permits, [permits EXCEPT ![d][k] = @ + 1]}
  /\ live' \in SUBSET live
  /\ UNCHANGED <<holder, mark, withdrawn>>

Next == \/ \E a \in Agents, m \in Marks : Issue(a, m)
        \/ \E a \in Agents : Withdraw(a) \/ Reinstate(a)
        \/ \E d \in Doors, k \in DOMAIN holder : Use(d, k)
        \/ Lapse

Spec == Init /\ [][Next]_vars

=============================================================================
