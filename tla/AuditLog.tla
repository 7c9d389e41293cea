------------------------------- MODULE AuditLog -------------------------------
(***************************************************************************)
(* The audit log as behavior_score reads it.  audit.events only grows, and *)
(* events[-8:] is all that is ever read back, so the log is modelled by    *)
(* its last Window events, and an event by the two facts that are read.    *)
(***************************************************************************)
EXTENDS TrustScore, Sequences

CONSTANT Window      \* how many events behavior_score looks back on: 8

ASSUME WindowAssumption == Window \in Nat \ {0}

Event(agents) == [agent : agents, withheld : BOOLEAN]

Log(agents) == {log \in Seq(Event(agents)) : Len(log) <= Window}

\* Seeded fault: the whole log stays visible.
FaultPushKeepsAll(log, e) == Append(log, e)

\* AuditLog.record, forgetting the event no score can read any more.
Push(log, e) == IF Len(log) < Window THEN Append(log, e)
                ELSE Append(Tail(log), e)

\* The visible events of one agent, and those of them that were withheld.
Own(log, a) == {i \in DOMAIN log : log[i].agent = a}

OwnWithheld(log, a) == {i \in Own(log, a) : log[i].withheld}

\* behavior_score for a request without an injected deviation.
Behavior(log, a, onPurpose) ==
  HistoryBehavior(onPurpose, Cardinality(Own(log, a)),
                  Cardinality(OwnWithheld(log, a)))

=============================================================================
