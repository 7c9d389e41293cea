# TrustAgent in TLA+

Specifications of the TrustAgent lab (`src/trustagent`): an authorization
gateway for AI agents, with its registry, key store, identity provider,
delegation grants, signed Agent Cards and the Agent Trust Score (ATS), and of the
campaign that evaluates it (`evaluation/`).  The
modules are model-checked with TLC on small instances; the laws of the score, the
safety properties of the decision loop, the registry, the identity provider, the
gateway, its facades, the campaign with its tables and hypothesis tests, the results
viewer, Fisher's test and the percentiles are also proved with TLAPS for every instance,
and so is that the gateway implements two abstract specifications, one of the decisions
and one of the access it gives.  Every safety property that TLC finds to hold is
stated by a theorem.

## 1. Inventory

| Component | State it keeps | Operations | Hard behaviour |
|---|---|---|---|
| ATS (`ats.py`, `gateway._band`) | none | `without`, `combine`, six dimension scores, banding | renormalisation, clamping, band boundaries, misordered thresholds |
| Audit log (`audit.py`) | `events`, only growing | `record` | read back by `behavior_score`, so that decisions depend on earlier decisions |
| Gateway (`gateway.py`) | `_seen_jti`, `_revoked_grants`, `audit`, its mode, weights and thresholds | `authorize`, `revoke_delegation` | six modes, order of the checks, early returns, exceptions that escape, several readings of the clock in one call, a `jti` that is not a string |
| Registry (`registry.py`) | `_records`, `_public_keys` | `register`, `revoke`, `suspend`, `retire`, `rotate_key`, `status` | one status overwrites another, expiry, publication of a key apart from its generation, of whatever key the caller passes |
| Key store (`keys.py`) | `_private` | `generate`, `rotate`, `private`, `public` | rotation without publication |
| Identity provider (`tokens.py`) | `_codes` | `issue`, `begin_authorization_code`, `exchange_code`, `decode` | a code is popped before it is checked; a key rotation voids tokens in flight; the caller may overwrite any claim |
| Agent Cards (`cards.py`) | none | `sign_card`, `verify_card`, `declared_capabilities`, a tampering fixture | signer looked up by an unverified claim |
| Delegation, policy (`delegation.py`, `policy.py`) | none | `issue_delegation`, `delegation_monotonic`, `authorized`, `resource_trusted` | the fields of a grant object and its signed claims may differ |
| Lab world (`lab.py`) | one registry, key store, provider and policy | builds gateways, tokens, cards, grants | gateways share all of it but keep a replay set, revoked grants and a log each |
| Channel facades (`channels.py`) | none | `invoke`, `send` | overwrite the channel of the caller's request object, which remembers the last facade |
| Evaluation (`evaluation/run.py`, `scenarios.py`) | the tables, lists of labels, decisions, samples | `run_campaign`, scenario builders, Fisher's test, percentiles | outcomes are booked twice, by cell and by position; the clock moves during a trial; eight positional counts per test; indices are rounded |
| Figures (`make_figures.py`) | none | figures 6 and 7 | the groups of scenarios are written down a second time |
| Results viewer (`ui/src/App.tsx`) | data, source, selection, message | load a file, select a scenario, render | several files may be read at once; content is set before it is known to be complete |

The laboratory is synchronous Python in one process: a gateway calls the identity
provider, then the registry, the cards, the policy, its own sets, the ATS and at
last its audit log.  What interleaves is the sequence of calls that clients,
administrators and agents make, and the clock, which moves between any two
readings of it.  Nothing is persisted, so there is no crash recovery.  The viewer is the one
asynchronous part: `onFile` waits for `file.text()`, and several of them may wait.

What makes each part correct is listed with the modules below; the hazards, with
their lines, are in `PROJECT.json`.

## 2. Modules

```
ScoreWalk -> TrustScore <- AuditLog <- TrustFeedback
                               \             ^ (refinement, Feedback!Spec)
KeyStore <- AgentRegistry <- Delegation <- TrustAgent <- Campaign <- Evaluation -> Fisher
        \<- IdentityProvider <-----------/   |   \
                                             |    \<- Channels
                                             v (refinement, Access!Spec)
                                      AccessControl

Fisher, Latency <- StatisticsWalk          ResultsViewer

TrustFeedbackProofs <- RefinementProofs          TrustScoreProofs
TrustAgentProofs    <-/                          ResultsViewerProofs
                    \<- CampaignProofs -> FisherProofs <- StatisticsProofs
```

(An arrow points to the module that is extended or instantiated.  The `MC` modules
and the `.cfg` files give the constants their values.)

| Module | Models | Correspondence |
|---|---|---|
| `TrustScore` | `ats.py`, `_band` | pure operators, one per function; `Without`, `Combine`, `HistoryBehavior` compute exact fractions |
| `ScoreWalk` | | a walk over the inputs of the score, for any weights and thresholds; each step makes the evidence worse in one respect |
| `AuditLog` | `audit.py` and its window | `Push` is `record`, with the events out of reach of `events[-8:]` forgotten |
| `TrustFeedback` | the gateway seen from its log | the abstract specification: refused by a hard check (`HardDeny`), scored on history, scored on an injected deviation |
| `KeyStore` | `keys.py`, `utcnow` | `private` is the generation of the key held, `now` the clock |
| `AgentRegistry` | `registry.py` | `records`, `publicKeys`; one action per method; `register` and `rotate_key` take any key that was ever made (`KeysMade`), for whomever |
| `IdentityProvider` | `tokens.py` | `tokens` (all tokens signed so far), `codes` (all codes), `open` (`_codes`); `Claims` is the dict of `issue` after `claims.update(extra)`; `exchange_code` has three ways out, and one action for each |
| `Delegation` | `delegation.py`, `delegation_monotonic` | `grants`, all grants signed so far |
| `TrustAgent` | `gateway.py`, `cards.py`, the composition of `lab.py` | `authorize` has one action per way through it |
| `AccessControl` | the gateways of a lab, from outside | the abstract specification: a ticket (a token) opens a door (a gateway that enforces) while it is live and its holder is not withdrawn; a door takes each mark (a `jti`) once, and does not see mark 0 (not a string) |
| `Channels` | `channels.py` | `object`: the caller's request objects; `Invoke` and `Send` write the channel into the object and call `authorize`, `Direct` calls it with the object as it is |
| `Campaign` | `evaluation/scenarios.py`, `run_campaign` | `row`, `rep`: the loops of `run_campaign`; `Fixture`, `Credential`, `Signed`, `RevokedBy`: the builders of the scenarios; `allowed` is the tables, `labels` and `blocked` are the lists |
| `Evaluation` | the end of `run_campaign`, `make_figures.py` | the summary, table 6, the arguments of the hypothesis tests and the groups of figure 6, each as the code computes it |
| `Fisher` | `fisher_one_sided` | one pure operator, an exact fraction |
| `Latency` | `_latency_block` | the percentiles and the median of a sorted list, with Python's rounding |
| `StatisticsWalk` | | the inputs of `Fisher` and `Latency`, growing one outcome or one sample at a time |
| `ResultsViewer` | `App.tsx` | `data`, `source`, `selected`, `error` are the `useState`s; `Choose` is `onFile` up to its `await`, `Finish` the rest of it in its ways out (`Refuse`, `Show`, `ShowPartly`); `page` is blank once a render throws |
| `TrustScoreProofs`, `TrustFeedbackProofs` (and the audit log), `TrustAgentProofs` (with the registry and the identity provider), `RefinementProofs` (the two refinements and the facades), `FisherProofs`, `CampaignProofs` (and `Evaluation`), `StatisticsProofs` (the walk, with `Latency`), `ResultsViewerProofs` | | the proofs |

`TrustAgent` maps `authorize` as follows.

| Action | Way through the code |
|---|---|
| `AllowUnchecked` | B1 |
| `DenyToken` | `_validate_token` refuses |
| `AllowOnToken` | B2 |
| `FailOnCard` | `declared_capabilities` raises out of `_verify_card` |
| `DenyOnChecks` | status, card, delegation or capability, peer or resource |
| `DenyReplay` | the `jti` is in `_seen_jti`, which never holds one that is not a string |
| `AllowStatic` | B3_STATIC, after the `jti` was added |
| `FailOnScore` | `float()` raises on a context value, or `without()` because no positive weight is left, after the `jti` was added |
| `DecideOnScore` | the score, its band |

Each of them includes what `authorize` does at its end (`Answer`: the audit record).
The checks before the `jti` end in the same denial whichever of them fails, so they
are one conjunction, `Clears`; only the card's exception has to know what ran before
it.

### Abstractions

* Scores are exact fractions, the code's are floats: rounding is not modelled.  On
  a band boundary the float result may differ from the exact one.
* A signature is identified with the key that made it.  PyJWT and the curve are
  external: a JWS decodes if and only if it was signed with the key it is checked
  against, has not expired and was not issued in the future.  SHA-256 is injective.
* A payload altered after signing is signed by generation 0, which is no key.
* A `jti` is a number: that of a `uuid4` is the position of its token and never comes
  twice, a string that a caller of `issue` chose is negative and may come in several
  tokens, and 0 is every value that is not a string.  `gateway.py:162` neither looks up
  nor remembers the last kind, and `tests/test_gateway_modes.py:233-246` expects such a
  token to be permitted twice.  (PyJWT 2.10, the oldest that `pyproject.toml` admits,
  refuses such a token in `decode`; the model keeps the case because the gateway and its
  test do.)
* `extra` overwrites the claims that are read again: `sub`, `aud`, `iat`, `nbf`, `exp` and
  `jti`, with values of the types `jwt.decode` accepts.  A token whose `iss` was
  overwritten, or a claim by a value that `decode` rejects, is refused at all times and
  by all audiences; it stands with the strings that are no token (token 0).  Values on which PyJWT itself fails with a
  `TypeError` (an `exp` of `None`) are left out.  `exchange_code` passes no `extra`.
* No caller passes `leeway_seconds`, so it is 0.
* An audit event keeps its agent and whether the outcome is one of the three that
  count against it; the other fields are not read by the program.
* `record.purpose` is a string in which the first segment of a capability is
  searched; it is modelled by the set of capabilities that are found in it.
* The scope claim of tokens, the signed scope of grants, `resource_trust` of
  records, `risk_class` and `replay_of` are never read and are left out.  In particular
  nothing is claimed of the scope a grant was signed with: a caller may widen the `scope`
  field of the grant object as far as the issuer's record reaches.
* `authorize` reads the clock for the token, for the statuses, the grant and the
  peer, and for the freshness.  The model takes three readings, each not before the
  one before it; the lookups in the middle share one, which loses no behaviour
  because each of them only turns from acceptable to unacceptable as time passes.
* Codes never expire in the code, and neither do they in the model.
* In the campaign each trial has a laboratory of its own: its time starts at 0 and
  its token and grant are the first.  A decision is read from the audit record it
  leaves.  Means, deviations, the phases, table 7, the host's data and the JSON are
  left out; so is the `untrusted_resource` fixture, which no list of scenarios names.
  Rates are fractions that are not divided.
* A latency is a whole number of a unit small enough; the sum of logarithms of
  `_log_comb` is the binomial itself.  `round()` is applied to the exact product
  where the code has a float: the two agree for lists of less than 5000 samples.
* A results file is of one of four kinds, by what its reader finds in it: a campaign,
  something else, and a campaign with a part missing that `onFile` itself reads, or
  that only the render reads.  Labels, layout and the formatting of numbers change no
  state and are left out.
* These variables are history and belong to no object of the program: `withdrawn`
  (who was revoked, suspended or retired since the last registration), `untimely` (for
  whom a key was published that was not the one in use at that moment) and `permits`
  (how often a gateway permitted a token, up to 2).  `first` records the first
  exchange of a code, `reply` what the last call with a request object came to, and
  `answered` the order in which files were read.

### Facts a reader of the code may not expect

These are the code's choices, kept as they are in the model.

* The best score with the default weights is 85, in every scoring mode: `ALLOW` is never given by
  the score (`CeilingBelowAllow`), only by B1, B2 and B3_STATIC.
* A withheld decision and an exception both spend the token's `jti`, for every token that
  carries it (`SettledAtFirstUse`); a token whose `jti` is not a string is never spent, and
  may be permitted any number of times.
* A grant is judged by its issuer's record and key but not by its issuer's status: the
  grants of an agent that was revoked go on.  What ends them is a rotation of its key
  that is published, as long as only keys in use are published (`RotationVoidsGrants`).
* The registry compares a key with nothing.  When two rotations overlap (`p = rotate();
  q = rotate(); rotate_key(q); rotate_key(p)`), the older key is published last: cards of
  the agent fail, and grants signed under it are accepted again.
* A token may be made to start later (`extra`), so it can be refused first and accepted
  afterwards; from its start on, a refusal is final (`AcceptanceOnlyShrinks`).
* A card that its agent signed and whose capabilities are not a list of strings makes
  `authorize` raise instead of refuse: `declared_capabilities` is called outside the
  `try` of `_verify_card`, and no audit record is written (`FailOnCard`).
* The first presentation of A9 in a trial is neither booked nor timed, so the latencies
  are not over all calls of `authorize`.
* An entry of `_seen_jti` whose token has died is never looked up with an effect again
  (`AcceptanceOnlyShrinks`, `EveryTokenDies`): it could be forgotten.
* The viewer's `catch` does not keep a page whose content is incomplete: the content is
  set before `Object.keys` throws, and the render that follows takes the page away
  (`BlankOnlyByPartialFile`).
* A grant replaces the caller's own capability; a caller that holds the capability
  and presents a bad grant is refused.
* An agent in hold under B3 cannot work its way out by itself (`HoldFeedsItself`).

## 3. Runs

| Run | Instance | Shows |
|---|---|---|
| `trust_score` | 5 weight vectors, 3 modes, tokens of 1 and 4 s scored from 0 to 5 s, 0 to 3 events, deviations and risks from -30 % to 130 % | worse evidence never helps; renormalised weights add up to one for any dropped subset; the ceiling |
| `trust_feedback` | 2 agents, window 6, 3 modes | the feedback loop; both boundary shares (4/5 and 12/17) are straddled by a window of 6, and the second agent ages events out |
| `registry` | 2 agents, 3 s, expiry at 2 s, 3 generations of each key, any of which is published for either agent | withdrawal, expiry and publication in any order; only registration makes an agent active |
| `identity_provider` | 2 codes, 2 verifiers, 2 tokens, lifetimes -1 and 2 s within 3 s, `extra` with a start at 2 s and an end at 3 s, one rotation | both orders of two exchanges with right and wrong verifiers; refusals are final and every token dies |
| `replay` | a B3 gateway with the default weights and a B3_NO_BEHAVIOR one that weighs behaviour alone, so that `without` raises; 2 tokens with drawn, shared and non-string `jti`s, malformed contexts, suspension, registration anew, a rotation of the provider's key | a `jti` that is a string is permitted once per gateway and settled at its first use; `TrustAgent` implements `TrustFeedback` and `AccessControl` |
| `authority` | MCP and A2A, cards, suspension, revocation, expiry, rotation of the agent's and the provider's keys, publication of either key, a token that starts later, a clock that moves within a call | authority only shrinks unless something is published or the token starts; what is permitted was permissible when the call came in; withdrawn agents are out |
| `delegation` | an issuer whose key rotates and of whose keys any is published, one grant, revocation, requests with any fields beside any grant | what clears under a grant its issuer may do; the authority of a grant only shrinks; a published rotation ends it, unless an old key is published |
| `channels` | a request object of the security agent, both facades and the gateway itself, cards, malformed ones too, suspension | whatever facades an object went through, a peer call is permitted only with a signed card and an active peer, a tool call only to a trusted resource |
| `campaign` | A1-A10, L1, L2 and the ablation of A10, 4 repeats, tokens of 4 s; trials end before that, those of A5 and L2 may outlast it | the tables of `docs/eval.md`: B3 lets nothing through that it must not, no control is refused while its token lives, A10 is held by the behaviour term alone; tables, lists, summary and figure 6 agree also when the repeats of a cell end differently; H2, H3 and H5 come out below alpha |
| `statistics` | tables of up to 3 trials of each kind and outcome; lists of up to 56 samples of 3 speeds | the p-value is the share of blind assignments that do as well, p95 and p99 leave the tail they should, and every outcome and sample moves them the way it speaks |
| `results_viewer` | files of all four kinds, several read at once | the page shows the file it names and a scenario of it; only an incomplete campaign takes it away; a file chosen alone is shown in the end |
| `replay_across_gateways` | 2 B3 gateways, 1 token | **violated**: `docs/eval.md:78` calls replay detection process-local, the set belongs to the gateway |

Bounds and why they are enough.  `MaxTime`, `Slip`: the lifetimes are chosen so that
a token or record expires between two calls and inside one.  `MaxTokens`, `MaxCodes`,
`MaxGrants`: tokens, codes and grants do not influence each other except through
the replay set, the window and the order of exchanges, for which two are needed.
`MaxGeneration`: one rotation makes a key stale, two make a later one current.
`KeySources`: whose keys are published for an agent; everybody's in `registry`, its own in
the others, where another's key is as good as an old one: it fits nothing the agent signs.
`Extras`: what callers pass as `extra`; a claim that matters to the question of the run.
`channels` leaves rotations and grants out (its bounds, not its `Next`, which is that of
`TrustAgent`): the facades change the channel alone, and `FacadeDecides` is proved with
both.  `delegation` has one gateway: that a revocation reaches only the gateway that was
told is said by the code and by no property.
`Withdrawals`, `NewRecords`: which status calls and registrations occur; all three
in `registry`, where their order matters.  `Window`: 6 where the shares matter, 1
where only the shape does; the code has 8, and the proofs take any length; `campaign`
takes the 8 of the code.
`Repeats`: a laboratory follows one of the same cell and one of another, and with 4
trials of each kind a test of one scenario can come out below alpha at all (with 3,
the smallest p-value is exactly 0.05); the default of the code is 300, which the proofs
cover.  `Slow`: the scenarios whose trials may outlast
their token, an attack and a control, so that each count of the confusion matrix
varies.  `Tested`: H1 adds up forty trials of each kind, whose binomials TLC's integers
do not hold, so TLC does not evaluate its p-value; the sums that go into it are compared
with the confusion matrix (`BookingsAgree`), and the theorem `Significant` includes it.
`MaxCell`: three trials of each kind reach every order of the two bounds of the sum.
`MaxSamples`: with 56 samples the index of p95 is two to three places from the end and
that of p99 has moved from the last place to the one before it; both ties of the
rounding occur.  `MaxLoads`: with three files one can be answered before, between and
after two others.  `Objects`: an object is only affected by calls on itself.
Deadlock is checked in `trust_feedback` and `registry`.  It is not in the others,
where the bounded clock, the walk, the campaign or the last file ends the behaviour.

Fairness: `Tick` in `IdpSpec`, because the wall clock moves whatever the program
does, and `Finish` in `ResultsViewer`, because a browser answers every read.  No
client, administrator, gateway or user is scheduled by the code, so no other action
is fair and no other liveness is claimed.

Each property is also run against a seeded fault (the `Fault...` operators, listed
under `mutants` in `PROJECT.json`), which TLC reports.

## 4. Proofs

`tlapm` checks the following for every value of the constants that satisfies their
assumptions.

| Module | Theorems | Argument |
|---|---|---|
| `TrustScoreProofs` | `Renormalises`, `Ceiling`, `WorseNeverHelps` | for every weight vector with a context weight of at most one and for all thresholds: dropping terms rescales the unit and the context weight by the same factor, so the weights of each mode keep the ceiling of the vector they come from (`WithoutLaws`, `ModeLaws`, `Rescale`); before clamping the score is monotone in each dimension (`RawMonotone`), and each step of the walk is worse in one (`StepWorse`) |
| `TrustFeedbackProofs` | `TypeCorrect`, `OffPurpose`, `Hold`, `BestRequestShare` | the type invariant is inductive and the only invariant needed; the rest is the arithmetic of the score, done mode by mode with the weights multiplied out, and the counting of events in the window: what recording an event does to it, the types and the agent's events before and after, which differ by the new one and the one aged out |
| `TrustAgentProofs` | `RegistryTypeCorrect`, `WithdrawnInactive`, `RegistrationActivates` | `RegistryInv` adds `WithdrawnRecorded` to the types: that an agent is inactive is not inductive, that it is recorded with a withdrawn status is.  It also adds `TimelyKeys`, that the keys published for whom is not `untimely` are its own and no newer than the store, which the gateway needs |
| `TrustAgentProofs` | `ProviderTypeCorrect`, `FirstExchange`, `Minted`, `AcceptanceShrinks` | `IdpInv` adds `CodesSettled` (a code is in the dict until it is exchanged, and what came of it is a function of its first exchange) and `CodesKnown` (no token carries a code that is still to be handed out, without which a new code could find tokens already minted from it).  `TokensSigned`, that no token carries a key that is still to be made, is what makes a rotation final, whatever claims were overwritten |
| `TrustAgentProofs` | `TypeCorrectness`, `AtMostOnce`, `Settled`, `WithdrawnOut`, `CapabilityHeld`, `AuthorityShrinks`, `EntrySettles`, `RotationVoids` | `Inv` conjoins the invariants of the shared components, reused lemma by lemma, `GrantsIssued`, the types of the gateways, and `PermitsSeen`: the `jti` of a token that an enforcing gateway permitted, if it is a string, is in its replay set, and of two tokens that share it one was permitted at most.  `AuthorizeFacts` says once what all ways through `authorize` have in common; `StepShrinks` what no step but a publication can do to what the checks read.  `EntrySettles` looks at one step only, but at all readings of the clock within it: status, grant and peer accepted at a later reading were accepted at the first (`StatusBefore`, `GrantBefore`, `ClearsBefore`).  `RotationVoids` needs that a timely key is not older than the one before it |
| `RefinementProofs` | `ImplementsTheLoop` | every way through `authorize` at a gateway that scores is a step of `TrustFeedback` or leaves its log alone, (as the exceptions do: `FailOnCard` and `FailOnScore` are stuttering steps, so the refinement does not say that they should have left a record) under the assumption that `Observed` is such a gateway |
| `RefinementProofs` | `ImplementsAccess` | under the mapping of `Access` every step is a `Use`, an `Issue`, a `Lapse`, a `Withdraw` or a `Reinstate`, or leaves the abstract state alone; a token that decodes now decoded before, an agent that clears is not withdrawn (both from `TrustAgentProofs`) |
| `RefinementProofs` | `FacadesAddNothing`, `FacadeDecides` | a call by a facade is `authorize` with a request whose channel is replaced, so that every step of `ChannelsSpec` is one of `Spec` and what is proved of the gateways holds behind their facades; `ChannelsInv` types the objects and carries `Inv`.  What a permission implies is read off the ways through `authorize` that permit, given the channel the facade wrote |
| `CampaignProofs` | `CampaignInvariant`, `ScenariosPrevented`, `Controlled`, `BehaviourHolds` | that a cell is decided as `docs/eval.md` says is not inductive.  `TrialInv` says what the builder of the trial left (one record, key and token per agent, of which only the clock moves), that a gateway that scores has met a replayed token or it is too old, and that a trial not of `Slow` is in time; `BooksInv` says that a cell whose trials are sure counts all or none of those decided so far.  `TrialTells` joins them: for each fixture and mode, at every reading of the clock, the audit record says whether the cell is to permit (`ChecksRefuse`, `ChecksPass`, `FirstScore`) |
| `CampaignProofs` | `ListsInvariant`, `BookedAlike`, `SummedAlike` | `ListsInv`: the length of each list of `blocked` follows from `row` and `rep`, a label is TRUE exactly at the positions of attacks, and the sum of the cells of a mode is the number of its list's `FALSE`s, for attacks and controls apart.  A trial adds one to both sides or to neither (`TrialLists`).  After the last row `Layout` and `RowCounts` say which rows there are, and `Together` that the groups of table 6 make up all scenarios.  Sums are `SumFunctionOnSet`; that any element may be taken first (`SumPick`), with no induction over sets at hand, comes from a smallest subset for which it would fail (`LeastSubset`) |
| `FisherProofs` | lemmas only: what `fisher_one_sided` counts | `Ways(k, S)` is the number of subsets of S with k elements.  Pairs of such a set and one with an element more are counted from both sides (`Shadow`, `Shade`), which gives the ratios of neighbouring `Ways` (`Ratio`, `Absorption`) and, by splitting on one element, Pascal's rule (`Split`).  `CombCounts`: the product behind `_log_comb` has the same ratios, so it is `Ways`; `ExactlyCounts`: a term of the sum counts the draws that have k in the treatment; `FisherIsFew`: the sum counts those that have at most c, and the clipped lower bound leaves out only empty terms |
| `StatisticsProofs` | `PValuesCount`, `EvidenceCounts` | `FisherIsFew`, with the cells of the table kept natural numbers by the walk.  How the share of draws with few in the treatment moves with the draw, the treatment and the bound is four lemmas (`FewRarer`, `FewCommoner`, `FewOutside`, `FewInside`), by the same counting of pairs; each outcome composes such moves, since it changes a margin as well |
| `CampaignProofs` | `Significant` | all six tests, for every plan and number of repeats within `LargeEnough`.  The counts of the groups that are compared are sure (`SureCounts`, `RowsRunning`, `RowsAblated`): all trials of the control are permitted, none of as many of the treatment.  For H1 two scenarios are sure under B2, the rest adds a natural number (`CountsInvariant`) that the matrix bounds, and B3 permits nothing (`OverallHolds`).  `DeniedAll` then puts the p-value below 1/20 when none of the trials of the treatment is permitted and at least five, or four of four, of as many of the control are: each element more in a draw that avoids the treatment at least halves its share (`Doubles`, `Rarely`) |
| `StatisticsProofs` | `TailsBounded`, `PercentilesMove` | the list stays sorted (`ListInvariant`), so the samples above a percentile are those behind its index; the rest is the rounding of `percent * (n - 1)`, and that one sample more moves the index by at most one place |
| `ResultsViewerProofs` | `ViewerInvariant`, `CellsFromSource`, `BlankByPartialFile` | `ViewerInv`: whatever files were answered, if any of them was results there is a last one (`LastAnswer`), and the page shows it with a scenario of it or has been taken away; each way out of `onFile` keeps that, and no other action changes what was answered |

The assumptions are the named `ASSUME`s of the modules, which say no more than what
the constants are (sets of agents, integers, the registered names and the key of the
provider being distinct), and TLC evaluates each of them in a run.

Some of them deserve a word.  `PlanAssumption`: the campaign runs some of
A1-A10 and of L1 and L2, in any order; the groups of table 6 name no others.
`LabAssumption`: there is one gateway per mode, as `LabWorld.gateway` builds it, with the
default weights and thresholds, and the tools of the lab are trusted.  `FacadesAssumption`: the channels a request may have
include those that the facades write.  `FilesAssumption`: the built-in file is a campaign
with the scenario that is selected at the start.  `TestedAssumption`: the tests have the
names that `Tests` knows.

`Significant` has a hypothesis more, `LargeEnough`, which TLC also evaluates in
`campaign`.  The scenarios that the tests single out (A1, A2, A3, A8 and A10) run:
`run_campaign` runs all of `SCENARIOS`.  There are at least four repetitions: the default
of `--repeats` is 300 (`run.py:388`), and with three the tests of one scenario do not
reach alpha.  No trial of these five outlasts its token: a trial is a handful of
signatures and checks, and its token lives 300 seconds (`lab.py:71`).  Without that the
theorem would be false, since B2 then stops what the test counts as let through; in all
other scenarios the clock is free.

Only model-checked:

* liveness (`EveryTokenDies`, `LoneChoiceShown`): fairness and `ENABLED` are beyond the
  prover;
* `ProcessLocalReplay`, which is violated.

The recursion of `Comb` is a recursive function over `Nat`.  Where a proof needs an
induction over it, or over a finite set, it looks at the least number or a smallest
subset for which the claim fails (`NatMinimum`, `LeastSubset`).

The recursion-free style of the modules (no `RECURSIVE` operator, sets and functions)
keeps them open to proofs.

## 5. Not modelled, and the plan

Not modelled, because they keep no state that a property could be about: the means,
deviations and phases of the latencies, table 7 and the host's data in the results
file, drawing in `make_figures.py`, the layout and the number formats of the viewer,
base64 and JSON encoding.

What is left, in this order:

1. The refinement of an abstract campaign, a table per scenario and baseline that is
   filled cell by cell, by `Campaign`.
2. The rounding of the floats that the score and the percentiles are computed with.
