------------------------------- MODULE Campaign -------------------------------
(***************************************************************************)
(* The evaluation campaign: evaluation/scenarios.py and run_campaign of    *)
(* evaluation/run.py, over the gateways of TrustAgent.  Every trial builds *)
(* a LabWorld of its own, so times are counted from the start of a trial   *)
(* and every token and grant has position 1.  Between the calls of a trial *)
(* the clock moves.                                                        *)
(*                                                                         *)
(* Outcomes are booked twice: in the cells of the tables, and in the lists *)
(* `labels' and `blocked', which are matched by position.                  *)
(***************************************************************************)
EXTENDS TrustAgent, Functions

CONSTANTS Attacks,         \* the ids of SCENARIOS that run, in order
          Controls,        \* the ids of LEGITIMATE that run, in order
          Repeats,         \* --repeats
          TTL,             \* ttl_seconds of the lab's tokens and grants
          Slow             \* bound: the ids whose trials may outlast TTL

ASSUME CampaignAssumption == Repeats \in Nat \ {0} /\ TTL \in Nat \ {0}
ASSUME PlanAssumption ==
         /\ Attacks \in Seq({"A1", "A2", "A3", "A4", "A5", "A6", "A7", "A8", "A9", "A10"})
         /\ Controls \in Seq({"L1", "L2"})

\* There is one gateway for each of the modes, and the tools of the lab are trusted.
ASSUME LabAssumption ==
         /\ \A m \in TrustAgentModes \cup {"B1", "B2"} :
              /\ m \in Gateways
              /\ Mode[m] = m
              /\ WeightsOf[m] = DefaultWeights
              /\ ThresholdsOf[m] = DefaultThresholds
         /\ {"tool.read", "tool.delete", "tool.search"} \subseteq TrustedResources

VARIABLES row,             \* the cell of the tables that is being filled
          rep,             \* trials of it that were decided
          stage,           \* how far the trial has come
          allowed,         \* per cell, how many trials were permitted
          labels,          \* whether the i-th trial should be blocked
          blocked          \* per mode, whether the i-th trial was

campaignVars == <<row, rep, stage, allowed, labels, blocked>>

-----------------------------------------------------------------------------
(* The laboratory and the fixtures                                           *)

\* The agents that LabWorld registers.
LabWorldRecords ==
  [a \in {"security", "helper"} |->
     [status |-> "active",
      capabilities |-> IF a = "security"
                       THEN {"incident.read", "incident.analyze", "threat.search"}
                       ELSE {"incident.read"},
      purpose |-> IF a = "security"
                  THEN {"incident.read", "incident.analyze", "incident.delete",
                        "threat.search"}
                  ELSE {"incident.read", "incident.analyze", "incident.delete"},
      expiresAt |-> {}]]

Mcp(agent, resource, capability) ==
  [agent |-> agent, resource |-> resource, capability |-> capability,
   channel |-> "mcp", audience |-> "tools", token |-> 1, card |-> {}, grant |-> {},
   deviation |-> {}, risk |-> 0, malformed |-> FALSE]

\* The security agent calls the helper, with a card over some capabilities.
A2a(capabilities, key) ==
  [Mcp("security", "helper", "incident.read") EXCEPT
     !.channel = "a2a",
     !.card = {[agent |-> "security", capabilities |-> capabilities,
                wellFormed |-> TRUE, key |-> key]}]

LabKey(agent) == [owner |-> agent, gen |-> 1]

\* The request that a builder of evaluation/scenarios.py returns.
Fixture(id) ==
  CASE id = "A1" -> A2a({"incident.read", "incident.analyze"}, LabKey("rogue"))
    [] id = "A2" -> A2a({"incident.read", "incident.delete"}, LabKey("security"))
    [] id = "A3" -> A2a({"incident.read", "incident.delete"},
                        Altered(LabKey("security")))
    [] id \in {"A4", "A5", "A9", "L1"} ->
         Mcp("security", "tool.read", "incident.read")
    [] id = "A6" -> Mcp("security", "tool.delete", "incident.delete")
    [] id = "A7" -> Mcp("security", "tool.read", "database.admin")
    [] id = "A8" ->
         [Mcp("helper", "tool.delete", "incident.delete") EXCEPT
            !.grant = {[issuer |-> "security", subject |-> "helper",
                        scope |-> {"incident.delete"}, jws |-> 1]}]
    [] id = "A10" -> [Mcp("security", "tool.search", "threat.search") EXCEPT
                        !.deviation = {100}, !.risk = 20]
    [] id = "L2" -> A2a(LabWorldRecords["security"].capabilities,
                        LabKey("security"))

\* Only A9 is presented twice.
Replayed(id) == id = "A9"

\* What the builder does to the lab before it returns the request.
Credential(id) ==
  [sub |-> Fixture(id).agent, aud |-> {"tools"}, iat |-> 0, nbf |-> 0,
   exp |-> IF id = "A4" THEN -1 ELSE TTL, jti |-> 1, key |-> LabKey(IdpKeyName),
   code |-> 0]

RevokedBy(id) == IF id = "A5" THEN {"security"} ELSE {}

Signed(id) ==
  IF id # "A8" THEN <<>>
  ELSE <<[iss |-> "security", sub |-> "helper", iat |-> 0, exp |-> TTL,
          key |-> LabKey("security")]>>

-----------------------------------------------------------------------------
(* The plan of the campaign                                                  *)

MODES == <<"B1", "B2", "B3">>
ABLATION_MODES == <<"B3", "B3_STATIC", "B3_NO_BEHAVIOR", "B3_NO_RESOURCE">>

CellsOf(kind, ids, modes) ==
  [i \in 1..(Len(ids) * Len(modes)) |->
     [kind |-> kind,
      id   |-> ids[((i - 1) \div Len(modes)) + 1],
      mode |-> modes[((i - 1) % Len(modes)) + 1]]]

\* The loops of run_campaign, unrolled.
Cells == CellsOf("scenarios", Attacks, MODES)
           \o CellsOf("legitimate", Controls, MODES)
           \o CellsOf("ablation", <<"A10">>, ABLATION_MODES)

CampaignInit == /\ Init
                /\ row = 1 /\ rep = 0 /\ stage = "start"
                /\ allowed = [i \in DOMAIN Cells |-> 0]
                /\ labels = <<>>
                /\ blocked = [m \in {"B1", "B2", "B3"} |-> <<>>]

\* Seeded fault: the registry is that of the trial before.
FaultFreshRecords(id) ==
  records' = [a \in DOMAIN LabWorldRecords |->
                [LabWorldRecords[a] EXCEPT
                   !.status = IF a \in RevokedBy(id) THEN "revoked"
                              ELSE records[a].status]]

FreshRecords(id) ==
  records' = [a \in DOMAIN LabWorldRecords |->
                [LabWorldRecords[a] EXCEPT
                   !.status = IF a \in RevokedBy(id) THEN "revoked" ELSE @]]

\* _decide: a new lab, a new gateway, and the builder's calls.
Build ==
  /\ stage = "start"
  /\ row \in DOMAIN Cells
  /\ stage' = "built"
  /\ LET id == Cells[row].id IN
       /\ FreshRecords(id)
       /\ withdrawn' = RevokedBy(id)
       /\ untimely' = {}
       /\ tokens' = <<Credential(id)>>
       /\ grants' = Signed(id)
  /\ now' = 0
  /\ private' = [n \in Names |-> 1]
  /\ publicKeys' = [a \in DOMAIN LabWorldRecords |-> LabKey(a)]
  /\ codes' = <<>> /\ open' = {} /\ first' = <<>>
  /\ seen' = [g \in Gateways |-> {}]
  /\ revokedGrants' = [g \in Gateways |-> {}]
  /\ audit' = [g \in Gateways |-> <<>>]
  /\ permits' = [g \in Gateways |-> [j \in 1..MaxTokens |-> 0]]
  /\ UNCHANGED <<row, rep, allowed, labels, blocked>>

\* The first presentation of a replayed token carries no card, grant or context;
\* its decision is not looked at.
Present ==
  /\ stage = "built"
  /\ Replayed(Cells[row].id)
  /\ LET request == Fixture(Cells[row].id) IN
       Authorize(Cells[row].mode,
                 [request EXCEPT !.card = {}, !.grant = {}, !.deviation = {},
                                 !.risk = 0])
  /\ stage' = "presented"
  /\ UNCHANGED <<row, rep, allowed, labels, blocked>>

\* Seeded fault: a trial is labelled in every mode.
FaultLabelled(cell) == labels' = Append(labels, cell.kind = "scenarios")

\* A trial is labelled when the first of the modes runs it.
Labelled(cell) ==
  labels' = IF cell.mode = "B1" THEN Append(labels, cell.kind = "scenarios")
            ELSE labels

Book(cell, permitted) ==
  /\ allowed' = [allowed EXCEPT ![row] = @ + (IF permitted THEN 1 ELSE 0)]
  /\ IF cell.kind = "ablation" THEN UNCHANGED <<labels, blocked>>
     ELSE /\ blocked' = [blocked EXCEPT ![cell.mode] = Append(@, ~permitted)]
          /\ Labelled(cell)
  /\ stage' = "start"
  /\ IF rep + 1 < Repeats THEN rep' = rep + 1 /\ row' = row
     ELSE rep' = 0 /\ row' = row + 1

Trial ==
  /\ row \in DOMAIN Cells
  /\ stage = IF Replayed(Cells[row].id) THEN "presented" ELSE "built"
  /\ LET cell == Cells[row] IN
       /\ Authorize(cell.mode, Fixture(cell.id))
       /\ LET events == audit'[cell.mode]
          IN  Book(cell, ~events[Len(events)].withheld)

\* The clock moves between the calls of a trial.  Most trials are over before TTL;
\* those of Slow may take as long as MaxTime allows.
Wait == /\ stage # "start"
        /\ Cells[row].id \in Slow \/ now + 1 < TTL
        /\ Tick
        /\ UNCHANGED <<sharedVars, gatewayVars, campaignVars>>

CampaignNext == Build \/ Present \/ Trial \/ Wait

CampaignSpec == CampaignInit /\ [][CampaignNext]_<<vars, campaignVars>>

-----------------------------------------------------------------------------
(* The evaluation of the outcomes                                            *)

CellsWith(kind, ids, m) ==
  {i \in DOMAIN Cells : /\ Cells[i].kind = kind
                        /\ Cells[i].id \in ids
                        /\ Cells[i].mode = m}

\* _counts
Counts(kind, ids, m) ==
  LET cells == CellsWith(kind, ids, m)
      permitted == SumFunctionOnSet(allowed, cells)
  IN  [allowed |-> permitted, denied |-> Repeats * Cardinality(cells) - permitted]

\* Seeded fault: a group that leaves out a scenario.
FaultPrivilege == {"A6", "A7"}

\* The groups of scenarios whose counts the test of H1 adds up.
Identity == {"A1", "A2", "A3"}
Privilege == {"A6", "A7", "A8"}
TokenMisuse == {"A4", "A5", "A9"}
Behavioural == {"A10"}

Overall(m) ==
  LET of(ids) == Counts("scenarios", ids, m)
  IN  [allowed |-> of(Identity).allowed + of(Privilege).allowed
                     + of(TokenMisuse).allowed + of(Behavioural).allowed,
       denied  |-> of(Identity).denied + of(Privilege).denied
                     + of(TokenMisuse).denied + of(Behavioural).denied]

\* _confusion of labels and blocked[m]
Confusion(m) ==
  LET trials(attack, stopped) ==
        Cardinality({i \in DOMAIN labels : /\ labels[i] = attack
                                           /\ blocked[m][i] = stopped})
  IN  [tp |-> trials(TRUE, TRUE), fp |-> trials(FALSE, TRUE),
       fn |-> trials(TRUE, FALSE), tn |-> trials(FALSE, FALSE)]

Summarised == row > Len(Cells)

-----------------------------------------------------------------------------
(* Properties *)

\* The two ways of booking agree: zip(strict=True) finds lists of the same
\* length, and the confusion matrix matches by position what the tables, and the
\* sums behind the test of H1, count by cell.
BookingsAgree ==
  Summarised =>
    \A m \in DOMAIN blocked :
      /\ Len(blocked[m]) = Len(labels)
      /\ Confusion(m).fn = Overall(m).allowed
      /\ Confusion(m).tp = Overall(m).denied
      /\ LET controls == Counts("legitimate", {"L1", "L2"}, m)
         IN  Confusion(m).tn = controls.allowed /\ Confusion(m).fp = controls.denied

\* The cells that are filled, and what every trial of them came to.
Decided(i, permitted) == allowed[i] = IF permitted THEN Repeats ELSE 0

\* docs/eval.md: B1 checks nothing, B2 stops A4 only, and B3 must let no scenario
\* through, at whatever moments of the trial the clock moves.  B2 may stop a trial
\* that outlasts its token; B3 stops it all the same.
OnlyB3Prevents ==
  \A i \in 1..(row - 1) :
    Cells[i].kind = "scenarios" /\ ~(Cells[i].mode = "B2" /\ Cells[i].id \in Slow) =>
      Decided(i, \/ Cells[i].mode = "B1"
                 \/ Cells[i].mode = "B2" /\ Cells[i].id # "A4")

\* No baseline refuses a legitimate request while its token lives: no lab of an
\* earlier trial, and nothing a builder does, leaks into the next one.
ControlsPermitted ==
  \A i \in 1..(row - 1) :
    Cells[i].kind = "legitimate" /\ (Cells[i].mode = "B1" \/ Cells[i].id \notin Slow)
      => Decided(i, TRUE)

\* A10 is held by the behaviour term alone: it is permitted by the static policy
\* and without that term, and still held without the resource term.
BehaviourAloneHolds ==
  \A i \in 1..(row - 1) :
    Cells[i].kind = "ablation" /\ Cells[i].id \notin Slow =>
      Decided(i, Cells[i].mode \in {"B3_STATIC", "B3_NO_BEHAVIOR"})

=============================================================================
