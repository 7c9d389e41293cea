---------------------------- MODULE TrustFeedback ----------------------------
(***************************************************************************)
(* The decision loop of one TrustAgent gateway, seen from its audit log:   *)
(* behavior_score reads the last events of the log, the decision it leads  *)
(* to is appended to the same log, and the next score reads that.          *)
(*                                                                         *)
(* An authorization is here either refused by a hard check, whichever it   *)
(* is, or scored.  What the hard checks are is the subject of TrustAgent,  *)
(* which implements this specification.  An audit event keeps the two      *)
(* facts the score reads, and the log keeps the events it can still read.  *)
(***************************************************************************)
EXTENDS AuditLog

CONSTANTS Agents,      \* the agent ids that call the gateway
          Modes,       \* the scoring modes a gateway may be built with
          Deviations,  \* injected behavior_deviation, in percent
          Risks        \* context_risk, in percent

ASSUME ModesAssumption == Modes \subseteq ScoringModes
ASSUME PercentAssumption == Deviations \subseteq Int /\ Risks \subseteq Int

VARIABLES mode,        \* the EnforcementMode of the gateway
          events       \* the last Window events of audit.events

vars == <<mode, events>>

TypeOK == /\ mode \in Modes
          /\ events \in Seq(Event(Agents))
          /\ Len(events) <= Window

\* The scores a token that passed decode() with its audience can earn.
CredentialScores == {85, 90, 100}

-----------------------------------------------------------------------------
(* Deciding *)

Decide(credential, behavior, risk) ==
  Band(Ats(DefaultWeights, mode, credential, behavior, risk),
       DefaultThresholds)

Record(a, outcome) ==
  events' = Push(events, [agent |-> a, withheld |-> outcome \in Withheld])

-----------------------------------------------------------------------------
Init == mode \in Modes /\ events = <<>>

\* Any of the checks before the score refused the request.
HardDeny(a) == Record(a, "DENY") /\ UNCHANGED mode

\* The score read the agent's history.
ScoreOnHistory(a, credential, onPurpose, risk) ==
  /\ Record(a, Decide(credential, Behavior(events, a, onPurpose), risk))
  /\ UNCHANGED mode

\* The caller's context carried behavior_deviation: the log is not read.
ScoreInjected(a, credential, deviation, risk) ==
  /\ Record(a, Decide(credential, DeviationBehavior(deviation), risk))
  /\ UNCHANGED mode

Next ==
  \E a \in Agents :
    \/ HardDeny(a)
    \/ \E c \in CredentialScores, p \in BOOLEAN, x \in Risks :
         ScoreOnHistory(a, c, p, x)
    \/ \E c \in CredentialScores, d \in Deviations, x \in Risks :
         ScoreInjected(a, c, d, x)

Spec == Init /\ [][Next]_vars

-----------------------------------------------------------------------------
(* Properties *)

\* Every event of the agent that the score can see was withheld.
Held(log, a) == Own(log, a) # {} /\ Own(log, a) = OwnWithheld(log, a)

\* Modes whose score gives behaviour some weight.
BehaviorCounts == mode # "B3_NO_BEHAVIOR"

\* Any authorization but one of a's with an injected deviation.
Uninjected(a) ==
  \E b \in Agents :
    \/ HardDeny(b)
    \/ \E c \in CredentialScores, p \in BOOLEAN, x \in Risks :
         ScoreOnHistory(b, c, p, x)
    \/ /\ b # a
       /\ \E c \in CredentialScores, d \in Deviations, x \in Risks :
            ScoreInjected(b, c, d, x)

\* The feedback loop closes on itself: an agent whose visible events were all
\* withheld stays so whatever it asks for next, because each refusal is itself
\* counted.  The hold ends in two ways only: its events are aged out of the
\* window by other agents' events, or its caller supplies the deviation.
HoldFeedsItself ==
  [][\A a \in Agents :
       BehaviorCounts /\ Held(events, a) /\ Uninjected(a)
         => Held(events', a) \/ Own(events', a) = {}]_vars

\* The share of an agent's visible events that may be withheld before its best
\* request (on purpose, fresh token, no risk) is refused as well.
Tolerance(m) == IF m = "B3" THEN [num |-> 4, den |-> 5]
                ELSE IF m = "B3_NO_RESOURCE" THEN [num |-> 12, den |-> 17]
                ELSE [num |-> 1, den |-> 1]

\* Whatever the past of the gateway, an agent's best request is permitted
\* exactly when the share of its own visible events that were withheld is
\* within the tolerance; events of other agents do not count for or against it.
BestRequestFollowsShare ==
  \A a \in Agents :
    LET own == Cardinality(Own(events, a))
        withheld == Cardinality(OwnWithheld(events, a))
        t == Tolerance(mode)
    IN  Decide(100, Behavior(events, a, TRUE), 0) \in AutonomouslyPermitted
          <=> t.den * withheld <= t.num * own

\* Work outside the declared purpose is never permitted on history, however
\* clean the record and fresh the token, in a mode that counts behaviour.
OffPurposeNeverPermitted ==
  BehaviorCounts =>
    \A a \in Agents, c \in CredentialScores, x \in Risks :
      Decide(c, Behavior(events, a, FALSE), x) \notin AutonomouslyPermitted

=============================================================================
