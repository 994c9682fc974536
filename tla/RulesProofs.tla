---------------------------- MODULE RulesProofs ----------------------------
(***************************************************************************)
(* What gets worse never looks better, and what other builds wrote can be  *)
(* read: each kind of subject on its own, then the machine they share.     *)
(***************************************************************************)
EXTENDS Rules, FiniteSetTheorems, TLAPS

-----------------------------------------------------------------------------
(* Places in an order                                                      *)

LEMMA MinIs ==
    ASSUME NEW S, NEW k \in S, S \subseteq Nat, \A j \in S : k <= j
    PROVE  Min(S) = k
<1>1. \A x \in S : (\A y \in S : x =< y) => x = k
  OBVIOUS
<1> QED
  BY <1>1 DEF Min

LEMMA PlaceIs ==
    ASSUME NEW order, NEW k \in 1 .. Len(order), Len(order) \in Nat,
           \A i \in 1 .. Len(order) : order[i] = order[k] <=> i = k
    PROVE  HowUrgent(order, order[k]) = k
<1>1. {i \in 1 .. Len(order) : order[i] = order[k]} = {k}
  OBVIOUS
<1>2. k \in Nat
  OBVIOUS
<1>3. Min({k}) = k
  BY SMTT(30), <1>2, MinIs
<1> QED
  BY <1>1, <1>3 DEF HowUrgent, SelectInSeq

-----------------------------------------------------------------------------
(* Pull requests                                                           *)

\* What a pull request's state can be for, by its place in Urgency.
Grounds(pr) ==
    {k \in 1 .. 7 :
        \/ k = 1 /\ pr.mergeable = "conflicting"
        \/ k = 2 /\ pr.checks \in {"failure", "error"}
        \/ k = 3 /\ pr.review = "changes_requested"
        \/ k = 4 /\ pr.draft
        \/ k = 5 /\ pr.checks = "pending"
        \/ k = 6 /\ pr.review = "approved" /\ pr.checks \in {"success", Nothing}
                 /\ pr.mergeable # "conflicting"
        \/ k = 7}

LEMMA UrgencyIsLeastGround ==
    ASSUME NEW pr, NEW k \in Grounds(pr), \A j \in Grounds(pr) : k <= j
    PROVE  HowUrgent(Urgency, PrState(pr)) = k
<1>1. /\ Len(Urgency) = 7 /\ k \in 1 .. 7
      /\ \A i \in 1 .. 7 : Urgency[i] = Urgency[k] <=> i = k
  BY DEF Urgency, Grounds
<1>2. PrState(pr) = Urgency[Min(Grounds(pr))]
  <2> DEFINE applies == [conflict |-> pr.mergeable = "conflicting",
                    failing           |-> pr.checks \in {"failure", "error"},
                    changes_requested |-> pr.review = "changes_requested",
                    draft             |-> pr.draft,
                    pending_checks    |-> pr.checks = "pending",
                    ready             |-> /\ pr.review = "approved"
                                          /\ pr.checks \in {"success", Nothing}
                                          /\ pr.mergeable # "conflicting",
                    awaiting_review   |-> TRUE]
  <2>1. PrState(pr) = Urgency[SelectInSeq(Urgency, LAMBDA s : applies[s])]
    BY DEF PrState
  <2>2. {i \in 1 .. Len(Urgency) : applies[Urgency[i]]} = Grounds(pr)
    <3>1. /\ Urgency[1] = "conflict" /\ Urgency[2] = "failing"
          /\ Urgency[3] = "changes_requested" /\ Urgency[4] = "draft"
          /\ Urgency[5] = "pending_checks" /\ Urgency[6] = "ready"
          /\ Urgency[7] = "awaiting_review"
      BY DEF Urgency
    <3>2. /\ applies["conflict"] <=> pr.mergeable = "conflicting"
          /\ applies["failing"] <=> pr.checks \in {"failure", "error"}
          /\ applies["changes_requested"] <=> pr.review = "changes_requested"
          /\ applies["draft"] <=> pr.draft
          /\ applies["pending_checks"] <=> pr.checks = "pending"
          /\ applies["ready"] <=> /\ pr.review = "approved"
                                 /\ pr.checks \in {"success", Nothing}
                                 /\ pr.mergeable # "conflicting"
          /\ applies["awaiting_review"]
      OBVIOUS
    <3> HIDE DEF applies
    <3>3. ASSUME NEW i \in 1 .. 7
          PROVE  applies[Urgency[i]] <=> i \in Grounds(pr)
      BY <3>1, <3>2 DEF Grounds
    <3> QED
      BY <1>1, <3>3 DEF Grounds
  <2> HIDE DEF applies
  <2>3. SelectInSeq(Urgency, LAMBDA s : applies[s]) = Min(Grounds(pr))
    BY <2>2 DEF SelectInSeq
  <2> QED
    BY <2>1, <2>3
<1>3. PrState(pr) = Urgency[k]
  BY <1>2, MinIs DEF Grounds
<1> QED
  <2>0. /\ k \in 1 .. Len(Urgency) /\ Len(Urgency) \in Nat
        /\ \A i \in 1 .. Len(Urgency) : Urgency[i] = Urgency[k] <=> i = k
    BY <1>1
  <2>1. HowUrgent(Urgency, Urgency[k]) = k
    BY <2>0, PlaceIs
  <2> QED
    BY <1>3, <2>1

LEMMA LeastGround == \A pr : \E k \in Grounds(pr) : \A j \in Grounds(pr) : k <= j
BY DEF Grounds

PrInv == subject = [kind |-> "pr", node |-> subject.node] /\ subject.node \in PrNodes

LEMMA PrsKeepTheirShape ==
    ASSUME PrInv, PrGetsWorse
    PROVE  PrInv'
<1> DEFINE node == subject.node
<1>1. subject.kind = "pr" /\ subject = [kind |-> "pr", node |-> node] /\ node \in PrNodes
  BY DEF PrInv
<1>2. CASE \E r \in {"FAILURE", "ERROR"} : subject' = [subject EXCEPT !.node.rollup = r]
  <2>1. PICK r \in {"FAILURE", "ERROR"} : subject' = [subject EXCEPT !.node.rollup = r]
    BY <1>2
  <2>2. subject' = [kind |-> "pr", node |-> [node EXCEPT !.rollup = r]]
    BY <1>1, <2>1
  <2>3. r \in DOMAIN ChecksByRollup
    BY <2>1 DEF ChecksByRollup
  <2> QED
    BY <1>1, <2>2, <2>3 DEF PrInv, PrNodes
<1>3. CASE subject' = [subject EXCEPT !.node.mergeable = "conflicting"]
  <2>1. subject' = [kind |-> "pr", node |-> [node EXCEPT !.mergeable = "conflicting"]]
    BY <1>1, <1>3
  <2> QED
    BY <1>1, <2>1 DEF PrInv, PrNodes
<1>4. CASE subject' = [subject EXCEPT !.node.reviewDecision = "changes_requested"]
  <2>1. subject' = [kind |-> "pr", node |-> [node EXCEPT !.reviewDecision = "changes_requested"]]
    BY <1>1, <1>4
  <2> QED
    BY <1>1, <2>1 DEF PrInv, PrNodes
<1>5. CASE subject' = [subject EXCEPT !.node.isDraft = TRUE]
  <2>1. subject' = [kind |-> "pr", node |-> [node EXCEPT !.isDraft = TRUE]]
    BY <1>1, <1>5
  <2> QED
    BY <1>1, <2>1 DEF PrInv, PrNodes
<1> QED
  BY <1>2, <1>3, <1>4, <1>5 DEF PrGetsWorse

LEMMA PrsLookNoBetter ==
    ASSUME PrInv, PrGetsWorse
    PROVE  HowUrgent(Urgency, StateOf(subject')) <= HowUrgent(Urgency, StateOf(subject))
<1> DEFINE node == subject.node
           before == PullRequestFromNode(node, Bots)
           after == PullRequestFromNode(subject'.node, Bots)
<1>1. PICK k \in Grounds(before) : \A j \in Grounds(before) : k <= j
  BY LeastGround
<1>2. PICK l \in Grounds(after) : \A j \in Grounds(after) : l <= j
  BY LeastGround
<1>3. /\ HowUrgent(Urgency, StateOf(subject)) = k
      /\ HowUrgent(Urgency, StateOf(subject')) = l
  BY <1>1, <1>2, UrgencyIsLeastGround DEF StateOf
<1>4. subject = [kind |-> "pr", node |-> node] /\ node \in PrNodes
  BY DEF PrInv
<1>5. k \in 1 .. 7 /\ l \in 1 .. 7 /\ 7 \in Grounds(after)
  BY DEF Grounds
<1>6. \E j \in Grounds(after) : j <= k
  <2>1. CASE \E r \in {"FAILURE", "ERROR"} : subject' = [subject EXCEPT !.node.rollup = r]
    <3>1. PICK r \in {"FAILURE", "ERROR"} : subject' = [subject EXCEPT !.node.rollup = r]
      BY <2>1
    <3>2. subject'.node = [node EXCEPT !.rollup = r]
      BY <1>4, <3>1
    <3>3. after.checks \in {"failure", "error"} /\ after.mergeable = before.mergeable
      BY <1>4, <3>2 DEF PullRequestFromNode, PrChecks, ChecksByRollup, PrNodes
    <3> QED
      BY <1>5, <3>3 DEF Grounds
  <2>2. CASE subject' = [subject EXCEPT !.node.mergeable = "conflicting"]
    <3>1. subject'.node = [node EXCEPT !.mergeable = "conflicting"]
      BY <1>4, <2>2
    <3>2. after.mergeable = "conflicting"
      BY <1>4, <3>1, NothingIsNoValue DEF PullRequestFromNode, PrNodes
    <3> QED
      BY <1>5, <3>2 DEF Grounds
  <2>3. CASE subject' = [subject EXCEPT !.node.reviewDecision = "changes_requested"]
    <3>1. subject'.node = [node EXCEPT !.reviewDecision = "changes_requested"]
      BY <1>4, <2>3
    <3>2. /\ after.review = "changes_requested"
          /\ after.checks = before.checks /\ after.mergeable = before.mergeable
      BY <1>4, <3>1 DEF PullRequestFromNode, PrNodes
    <3> QED
      BY <1>5, <3>2 DEF Grounds
  <2>4. CASE subject' = [subject EXCEPT !.node.isDraft = TRUE]
    <3>1. subject'.node = [node EXCEPT !.isDraft = TRUE]
      BY <1>4, <2>4
    <3>2. /\ after.draft /\ after.review = before.review
          /\ after.checks = before.checks /\ after.mergeable = before.mergeable
      BY <1>4, <3>1 DEF PullRequestFromNode, PrNodes
    <3> QED
      BY <1>5, <3>2 DEF Grounds
  <2> QED
    BY <2>1, <2>2, <2>3, <2>4 DEF PrGetsWorse
<1> QED
  BY <1>2, <1>3, <1>5, <1>6

-----------------------------------------------------------------------------
(* Runs                                                                    *)

AllOutcomes == UNION {Outcomes[bad] : bad \in DOMAIN Outcomes}
StatusOf(outcome) == RunStatus(outcome[1], outcome[2])

LEMMA StatusIs ==
    ASSUME NEW bad \in 1 .. 4, NEW outcome \in Outcomes[bad]
    PROVE  /\ StatusOf(outcome) \in FailedStatuses <=> bad = 4
           /\ StatusOf(outcome) \in ActiveStatuses <=> bad = 3
           /\ StatusOf(outcome) = "success" <=> bad = 1
<1> USE DEF StatusOf, RunStatus, RunStatuses, FailedStatuses, ActiveStatuses
<1>1. CASE bad = 1
  <2>1. outcome = <<"completed", "success">>
    BY <1>1 DEF Outcomes
  <2> QED
    BY <1>1, <2>1
<1>2. CASE bad = 2
  <2>1. outcome \in {<<"completed", "cancelled">>, <<"completed", "action_required">>,
                      <<"completed", "stale">>, <<"completed", "brand_new">>,
                      <<"completed", Nothing>>}
    BY <1>2 DEF Outcomes
  <2>2. Nothing \notin RunStatuses
    BY NothingIsNoValue
  <2> QED
    BY <1>2, <2>1, <2>2
<1>3. CASE bad = 3
  <2>1. outcome \in {<<"waiting", Nothing>>, <<"in_progress", Nothing>>}
    BY <1>3 DEF Outcomes
  <2> QED
    BY <1>3, <2>1
<1>4. CASE bad = 4
  <2>1. outcome \in {<<"completed", "failure">>, <<"completed", "timed_out">>,
                      <<"completed", "startup_failure">>}
    BY <1>4 DEF Outcomes
  <2> QED
    BY <1>4, <2>1
<1> QED
  BY <1>1, <1>2, <1>3, <1>4

LEMMA OutcomeHasOneRank ==
    ASSUME NEW outcome \in AllOutcomes
    PROVE  \E bad \in 1 .. 4 : /\ outcome \in Outcomes[bad]
                               /\ \A other \in 1 .. 4 : outcome \in Outcomes[other] => other = bad
<1>1. DOMAIN Outcomes = 1 .. 4
  BY DEF Outcomes
<1>2. PICK bad \in 1 .. 4 : outcome \in Outcomes[bad]
  BY <1>1 DEF AllOutcomes
<1> QED
  BY <1>2, StatusIs

\* How urgent a repository's CI is, of its runs' outcomes, the newest first.
UrgencyOf(outcomes) ==
    IF \E i \in DOMAIN outcomes : outcomes[i] \in Outcomes[4] THEN 1
    ELSE IF \E i \in DOMAIN outcomes : outcomes[i] \in Outcomes[3] THEN 2
    ELSE IF outcomes[1] \in Outcomes[2] THEN 3 ELSE 4

LEMMA CiUrgencyIs ==
    ASSUME NEW s, NEW n \in Nat \ {0}, s.outcomes \in [1 .. n -> AllOutcomes]
    PROVE  HowUrgent(CiUrgency, CiOf(s).state) = UrgencyOf(s.outcomes)
<1> DEFINE outcomes == s.outcomes
           runs == [i \in DOMAIN outcomes |-> RunFromJson(Run(outcomes[i], i, 0), Now)]
           newest == runs[SelectInSeq(runs, LAMBDA r : ~ Active(r))]
<1>1. DOMAIN outcomes = 1 .. n /\ DOMAIN runs = 1 .. n /\ Len(runs) = n /\ runs # << >>
  <2>1. DOMAIN runs = 1 .. n
    OBVIOUS
  <2> QED
    BY <2>1
<1>2. \A i \in 1 .. n : runs[i].status = StatusOf(outcomes[i])
  BY <1>1 DEF RunFromJson, Run, StatusOf
<1> HIDE DEF runs
<1>3. \A i \in 1 .. n : /\ Failed(runs[i]) <=> outcomes[i] \in Outcomes[4]
                        /\ Active(runs[i]) <=> outcomes[i] \in Outcomes[3]
                        /\ runs[i].status = "success" <=> outcomes[i] \in Outcomes[1]
  BY <1>2, StatusIs, OutcomeHasOneRank DEF Failed, Active
<1>4. CiOf(s).state = CiStateOf(runs)
  BY <1>1 DEF CiOf, ClassifyCi, RepoCi, runs
<1>5. /\ HowUrgent(CiUrgency, "failing") = 1 /\ HowUrgent(CiUrgency, "running") = 2
      /\ HowUrgent(CiUrgency, "neutral") = 3 /\ HowUrgent(CiUrgency, "passing") = 4
  <2>1. /\ Len(CiUrgency) = 4
        /\ CiUrgency[1] = "failing" /\ CiUrgency[2] = "running"
        /\ CiUrgency[3] = "neutral" /\ CiUrgency[4] = "passing"
    BY DEF CiUrgency
  <2> QED
    BY SMTT(30), <2>1, PlaceIs
<1>6. CASE \E i \in 1 .. n : outcomes[i] \in Outcomes[4]
  <2>1. CiStateOf(runs) = "failing"
    BY <1>1, <1>3, <1>6 DEF CiStateOf
  <2> QED
    BY <1>1, <1>4, <1>5, <1>6, <2>1 DEF UrgencyOf
<1>7. CASE /\ \A i \in 1 .. n : outcomes[i] \notin Outcomes[4]
           /\ \E i \in 1 .. n : outcomes[i] \in Outcomes[3]
  <2>1. CiStateOf(runs) = "running"
    BY <1>1, <1>3, <1>7 DEF CiStateOf
  <2> QED
    BY <1>1, <1>4, <1>5, <1>7, <2>1 DEF UrgencyOf
<1>8. CASE \A i \in 1 .. n : outcomes[i] \notin Outcomes[4] /\ outcomes[i] \notin Outcomes[3]
  <2>1. SelectInSeq(runs, LAMBDA r : ~ Active(r)) = 1
    <3>1. {i \in 1 .. Len(runs) : ~ Active(runs[i])} = 1 .. n
      BY <1>1, <1>3, <1>8
    <3>2. 1 \in 1 .. n /\ 1 .. n \subseteq Nat /\ \A j \in 1 .. n : 1 <= j
      OBVIOUS
    <3>3. Min(1 .. n) = 1
      BY <3>2, MinIs
    <3> QED
      BY <3>1, <3>2, <3>3 DEF SelectInSeq
  <2>2. CiStateOf(runs) = IF runs[1].status = "success" THEN "passing" ELSE "neutral"
    BY <1>1, <1>3, <1>8, <2>1 DEF CiStateOf
  <2>3. runs[1].status = "success" <=> ~ outcomes[1] \in Outcomes[2]
    BY <1>1, <1>3, <1>8, OutcomeHasOneRank
  <2> QED
    BY <1>1, <1>4, <1>5, <1>8, <2>2, <2>3 DEF UrgencyOf
<1> QED
  BY <1>6, <1>7, <1>8

RunsInv ==
    /\ subject = [kind |-> "runs", outcomes |-> subject.outcomes]
    /\ \E n \in Nat : subject.outcomes \in [1 .. n -> AllOutcomes]

LEMMA RunsLookNoBetter ==
    ASSUME RunsInv, RunGetsWorse
    PROVE  /\ RunsInv'
           /\ HowUrgent(CiUrgency, CiOf(subject').state)
                <= HowUrgent(CiUrgency, CiOf(subject).state)
<1> DEFINE outcomes == subject.outcomes
<1>0. PICK i \in DOMAIN outcomes, bad \in 1 .. 3 :
             /\ outcomes[i] \in Outcomes[bad]
             /\ \E worse \in Outcomes[bad + 1] : subject' = [subject EXCEPT !.outcomes[i] = worse]
  BY DEF RunGetsWorse
<1>1. PICK worse \in Outcomes[bad + 1] : subject' = [subject EXCEPT !.outcomes[i] = worse]
  BY <1>0
<1>2. PICK n \in Nat : outcomes \in [1 .. n -> AllOutcomes]
  BY DEF RunsInv
<1>3. n \in Nat \ {0} /\ i \in 1 .. n /\ bad + 1 \in 1 .. 4
  BY <1>0, <1>2
<1>4. worse \in AllOutcomes
  BY <1>1, <1>3 DEF AllOutcomes, Outcomes
<1>5. subject' = [kind |-> "runs", outcomes |-> [outcomes EXCEPT ![i] = worse]]
  <2>1. subject = [kind |-> "runs", outcomes |-> outcomes]
    BY DEF RunsInv
  <2> QED
    BY <1>1, <2>1
<1>6. subject'.outcomes \in [1 .. n -> AllOutcomes]
  BY <1>2, <1>4, <1>5
<1>7. RunsInv'
  BY <1>5, <1>6 DEF RunsInv
<1>8. /\ HowUrgent(CiUrgency, CiOf(subject).state) = UrgencyOf(outcomes)
      /\ HowUrgent(CiUrgency, CiOf(subject').state) = UrgencyOf(subject'.outcomes)
  BY <1>2, <1>3, <1>6, CiUrgencyIs
<1>9. UrgencyOf(subject'.outcomes) <= UrgencyOf(outcomes)
  <2>1. /\ \A j \in (1 .. n) \ {i} : subject'.outcomes[j] = outcomes[j]
        /\ subject'.outcomes[i] \in Outcomes[bad + 1]
    BY <1>1, <1>2, <1>3, <1>5
  <2>2. \A b \in 1 .. 4 : outcomes[i] \in Outcomes[b] => b = bad
    BY <1>0, <1>2, <1>3, OutcomeHasOneRank
  <2>3. CASE \E j \in 1 .. n : outcomes[j] \in Outcomes[4]
    <3>1. UrgencyOf(subject'.outcomes) = 1
      BY <1>2, <1>6, <2>1, <2>2, <2>3 DEF UrgencyOf
    <3> QED
      BY <3>1 DEF UrgencyOf
  <2>4. CASE /\ \A j \in 1 .. n : outcomes[j] \notin Outcomes[4]
             /\ \E j \in 1 .. n : outcomes[j] \in Outcomes[3]
    <3>1. UrgencyOf(outcomes) = 2
      BY <1>2, <2>4 DEF UrgencyOf
    <3>2. UrgencyOf(subject'.outcomes) \in 1 .. 2
      BY <1>2, <1>3, <1>6, <2>1, <2>2, <2>4 DEF UrgencyOf
    <3> QED
      BY <3>1, <3>2
  <2>5. CASE /\ \A j \in 1 .. n : outcomes[j] \notin Outcomes[4] \cup Outcomes[3]
             /\ outcomes[1] \in Outcomes[2]
    <3>1. UrgencyOf(outcomes) = 3
      BY <1>2, <2>5 DEF UrgencyOf
    <3>2. UrgencyOf(subject'.outcomes) \in 1 .. 3
      BY <1>2, <1>3, <1>6, <2>1, <2>2, <2>5 DEF UrgencyOf
    <3> QED
      BY <3>1, <3>2
  <2>6. CASE UrgencyOf(outcomes) = 4
    BY <2>6 DEF UrgencyOf
  <2> QED
    BY <1>2, <2>3, <2>4, <2>5, <2>6 DEF UrgencyOf
<1> QED
  BY <1>7, <1>8, <1>9

-----------------------------------------------------------------------------
(* Hygiene                                                                 *)

Checks == {"readme", "license", "ci_workflow", "dependency_updates", "branch_protection",
    "vulnerability_alerts", "delete_branch_on_merge", "security_policy", "codeowners"}

\* The checks that facts pass.
Passed(facts) ==
    {key \in Checks :
        \/ key = "readme" /\ facts.readme
        \/ key = "license" /\ facts.license
        \/ key = "ci_workflow" /\ facts.workflows > 0
        \/ key = "dependency_updates" /\ (facts.dependabot \/ facts.renovate)
        \/ key = "branch_protection" /\ (facts.rules > 0 \/ facts.rulesets > 0)
        \/ key = "vulnerability_alerts" /\ facts.alerts
        \/ key = "delete_branch_on_merge" /\ facts.deleteBranch
        \/ key = "security_policy" /\ facts.policy
        \/ key = "codeowners" /\ facts.codeowners}

Asked(facts) ==
    IF facts.collaborators # Nothing /\ facts.collaborators > 1 THEN Checks
    ELSE Checks \ {"codeowners"}

LEMMA AssessmentIs ==
    ASSUME NEW facts
    PROVE  /\ DOMAIN AssessHygiene(facts).checks = Asked(facts)
           /\ FailingKeys(AssessHygiene(facts)) = Asked(facts) \ Passed(facts)
           /\ AssessHygiene(facts).applicable <=> ~ (facts.archived \/ facts.fork)
<1> DEFINE checks ==
          [readme                 |-> facts.readme,
           license                |-> facts.license,
           ci_workflow            |-> facts.workflows > 0,
           dependency_updates     |-> facts.dependabot \/ facts.renovate,
           branch_protection      |-> facts.rules > 0 \/ facts.rulesets > 0,
           vulnerability_alerts   |-> facts.alerts,
           delete_branch_on_merge |-> facts.deleteBranch,
           security_policy        |-> facts.policy,
           codeowners             |-> facts.codeowners]
           h == AssessHygiene(facts)
           shared == facts.collaborators # Nothing /\ facts.collaborators > 1
<1>1. DOMAIN checks = Checks
  BY DEF Checks
<1>2. ASSUME NEW key \in Checks
      PROVE  checks[key] <=> key \in Passed(facts)
  <2>1. /\ checks["readme"] <=> facts.readme
        /\ checks["license"] <=> facts.license
        /\ checks["ci_workflow"] <=> facts.workflows > 0
        /\ checks["dependency_updates"] <=> facts.dependabot \/ facts.renovate
        /\ checks["branch_protection"] <=> facts.rules > 0 \/ facts.rulesets > 0
        /\ checks["vulnerability_alerts"] <=> facts.alerts
        /\ checks["delete_branch_on_merge"] <=> facts.deleteBranch
        /\ checks["security_policy"] <=> facts.policy
        /\ checks["codeowners"] <=> facts.codeowners
    OBVIOUS
  <2> HIDE DEF checks
  <2> QED
    BY <2>1 DEF Checks, Passed
<1>3. /\ h.checks = IF shared THEN checks ELSE Restrict(checks, DOMAIN checks \ {"codeowners"})
      /\ h.applicable <=> ~ (facts.archived \/ facts.fork)
  BY DEF AssessHygiene
<1> HIDE DEF checks, h
<1>4. DOMAIN h.checks = Asked(facts) /\ \A key \in Asked(facts) : h.checks[key] = checks[key]
  BY <1>1, <1>3 DEF Asked, Restrict
<1>5. Asked(facts) \subseteq Checks
  BY DEF Asked
<1> QED
  BY <1>2, <1>3, <1>4, <1>5 DEF FailingKeys, h

LEMMA RoundIs ==
    /\ \A c \in 0 .. 8 : Round(100 * (8 - c), 8) \in 0 .. 100
    /\ \A c, d \in 0 .. 8 : c <= d => Round(100 * (8 - d), 8) <= Round(100 * (8 - c), 8)
    /\ \A c \in 0 .. 8 : Round(100 * (8 - c), 8) = 100 <=> c = 0
    /\ \A c, d \in 0 .. 9 : c <= d => Round(100 * (9 - d), 9) <= Round(100 * (9 - c), 9)
    /\ \A c \in 0 .. 9 : Round(100 * (9 - c), 9) = 100 <=> c = 0
<1>1. /\ \A c, d \in 0 .. 8 : c <= d => Round(100 * (8 - d), 8) <= Round(100 * (8 - c), 8)
      /\ \A c \in 0 .. 8 : Round(100 * (8 - c), 8) \in 0 .. 100
  BY DEF Round
<1>2. \A c \in 0 .. 8 : Round(100 * (8 - c), 8) = 100 <=> c = 0
  BY DEF Round
<1>3. \A c, d \in 0 .. 9 : c <= d => Round(100 * (9 - d), 9) <= Round(100 * (9 - c), 9)
  BY DEF Round
<1>4. \A c \in 0 .. 9 : Round(100 * (9 - c), 9) = 100 <=> c = 0
  BY DEF Round
<1> QED
  BY <1>1, <1>2, <1>3, <1>4

LEMMA ChecksAreNine ==
    /\ IsFiniteSet(Checks) /\ Cardinality(Checks) = 9
    /\ IsFiniteSet(Checks \ {"codeowners"}) /\ Cardinality(Checks \ {"codeowners"}) = 8
<1> DEFINE s1 == {"readme"}
           s2 == s1 \cup {"license"}
           s3 == s2 \cup {"ci_workflow"}
           s4 == s3 \cup {"dependency_updates"}
           s5 == s4 \cup {"branch_protection"}
           s6 == s5 \cup {"vulnerability_alerts"}
           s7 == s6 \cup {"delete_branch_on_merge"}
           s8 == s7 \cup {"security_policy"}
<1>1. IsFiniteSet(s1) /\ Cardinality(s1) = 1
  <2>1. IsFiniteSet({} \cup {"readme"}) /\ Cardinality({} \cup {"readme"}) = 0 + 1
    BY FS_EmptySet, FS_AddElement
  <2> QED
    BY <2>1
<1>2. IsFiniteSet(s2) /\ Cardinality(s2) = 2
  BY <1>1, FS_AddElement
<1>3. IsFiniteSet(s3) /\ Cardinality(s3) = 3
  BY <1>2, FS_AddElement
<1>4. IsFiniteSet(s4) /\ Cardinality(s4) = 4
  BY <1>3, FS_AddElement
<1>5. IsFiniteSet(s5) /\ Cardinality(s5) = 5
  BY SMTT(20), <1>4, FS_AddElement
<1>6. IsFiniteSet(s6) /\ Cardinality(s6) = 6
  BY SMTT(20), <1>5, FS_AddElement
<1>7. IsFiniteSet(s7) /\ Cardinality(s7) = 7
  BY SMTT(20), <1>6, FS_AddElement
<1>8. IsFiniteSet(s8) /\ Cardinality(s8) = 8
  BY SMTT(20), <1>7, FS_AddElement
<1>9. Checks \ {"codeowners"} = s8 /\ Checks = s8 \cup {"codeowners"} /\ "codeowners" \notin s8
  BY DEF Checks
<1> HIDE DEF s8
<1>10. IsFiniteSet(s8 \cup {"codeowners"}) /\ Cardinality(s8 \cup {"codeowners"}) = 8 + 1
  BY <1>8, <1>9, FS_AddElement
<1> QED
  BY <1>8, <1>9, <1>10

LEMMA ScoreIs ==
    ASSUME NEW facts
    PROVE  LET h == AssessHygiene(facts)
               n == Cardinality(Asked(facts))
               c == Cardinality(FailingKeys(h))
           IN  /\ IsFiniteSet(FailingKeys(h)) /\ n \in {8, 9} /\ c \in 0 .. n
               /\ c = 0 <=> FailingKeys(h) = {}
               /\ h.applicable => Score(h) = Round(100 * (n - c), n)
               /\ ~ h.applicable => Score(h) = 100
<1> DEFINE h == AssessHygiene(facts)
           n == Cardinality(Asked(facts))
           c == Cardinality(FailingKeys(h))
<1>1. IsFiniteSet(Asked(facts)) /\ n \in {8, 9}
  BY ChecksAreNine DEF Asked
<1>2. DOMAIN h.checks = Asked(facts) /\ FailingKeys(h) \subseteq Asked(facts)
  BY AssessmentIs
<1>3. IsFiniteSet(FailingKeys(h)) /\ c <= n
  BY <1>1, <1>2, FS_Subset
<1>4. c \in Nat
  BY <1>3, FS_CardinalityType
<1>5. c = 0 <=> FailingKeys(h) = {}
  BY <1>3, FS_EmptySet
<1>6. /\ h.applicable => Score(h) = Round(100 * (n - c), n)
      /\ ~ h.applicable => Score(h) = 100
  BY <1>1, <1>2 DEF Score
<1>7. c \in 0 .. n
  BY <1>1, <1>3, <1>4
<1> QED
  BY <1>1, <1>3, <1>5, <1>6, <1>7

LEMMA LessPassedScoresLess ==
    ASSUME NEW before, NEW after,
           Asked(after) = Asked(before), Passed(after) \subseteq Passed(before),
           AssessHygiene(after).applicable <=> AssessHygiene(before).applicable
    PROVE  Score(AssessHygiene(after)) <= Score(AssessHygiene(before))
<1> DEFINE h == AssessHygiene(before)
           g == AssessHygiene(after)
           n == Cardinality(Asked(before))
           c == Cardinality(FailingKeys(h))
           d == Cardinality(FailingKeys(g))
<1>1. FailingKeys(h) \subseteq FailingKeys(g)
  BY AssessmentIs
<1>2. /\ IsFiniteSet(FailingKeys(g)) /\ n \in {8, 9} /\ c \in 0 .. n /\ d \in 0 .. n
      /\ h.applicable => Score(h) = Round(100 * (n - c), n) /\ Score(g) = Round(100 * (n - d), n)
      /\ ~ h.applicable => Score(h) = 100 /\ Score(g) = 100
  BY ScoreIs
<1>3. c <= d
  BY <1>1, <1>2, FS_Subset
<1> HIDE DEF h, g, n, c, d
<1>4. Round(100 * (n - d), n) <= Round(100 * (n - c), n)
  BY <1>2, <1>3, RoundIs
<1>5. Score(g) <= Score(h)
  BY <1>2, <1>4
<1> QED
  BY <1>5 DEF g, h

LEMMA FullScoreFailsNothing ==
    ASSUME NEW facts, AssessHygiene(facts).applicable
    PROVE  Score(AssessHygiene(facts)) = 100 <=> FailingKeys(AssessHygiene(facts)) = {}
<1> DEFINE h == AssessHygiene(facts)
           n == Cardinality(Asked(facts))
           c == Cardinality(FailingKeys(h))
<1>1. /\ n \in {8, 9} /\ c \in 0 .. n
      /\ c = 0 <=> FailingKeys(h) = {}
      /\ Score(h) = Round(100 * (n - c), n)
  BY ScoreIs
<1> HIDE DEF n, c
<1>2. Round(100 * (n - c), n) = 100 <=> c = 0
  BY <1>1, RoundIs
<1> QED
  BY <1>1, <1>2

HygieneInv ==
    /\ subject = [kind |-> "hygiene", node |-> subject.node, lost |-> subject.lost]
    /\ DOMAIN subject.node = HygieneFields

LEMMA FactsAre ==
    ASSUME NEW node
    PROVE  LET facts == HygieneFactsFromNode(node)
           IN  /\ facts.readme <=> node.readmeFile # Nothing
               /\ facts.license <=> node.licenseInfo # Nothing
               /\ facts.dependabot <=> node.dependabotYml # Nothing \/ node.dependabotYaml # Nothing
               /\ facts.renovate <=> \/ node.renovateJson # Nothing
                                     \/ node.renovateJsonGithub # Nothing
                                     \/ node.renovaterc # Nothing
               /\ facts.rules = OrZero(node.branchProtectionRules)
               /\ facts.rulesets = OrZero(node.rulesets)
               /\ facts.alerts <=> node.hasVulnerabilityAlertsEnabled = TRUE
               /\ facts.deleteBranch <=> node.deleteBranchOnMerge = TRUE
               /\ facts.policy <=> node.securityMd # Nothing \/ node.securityMdGithub # Nothing
               /\ facts.codeowners <=> \/ node.codeownersFile # Nothing
                                       \/ node.codeownersFileGithub # Nothing
               /\ facts.collaborators = node.collaborators
               /\ ~ facts.archived
               /\ facts.fork <=> node.isFork = TRUE
BY DEF HygieneFactsFromNode

LEMMA WorkflowsAre ==
    ASSUME NEW node
    PROVE  /\ node.workflowsDir = Nothing => HygieneFactsFromNode(node).workflows = 0
           /\ \A other : other.workflowsDir = node.workflowsDir =>
                  HygieneFactsFromNode(other).workflows = HygieneFactsFromNode(node).workflows
<1> DEFINE W(dir) == CountOf(ListOr(dir), LAMBDA f : f \in {"yml", "yaml"})
<1>1. \A other : HygieneFactsFromNode(other).workflows = W(other.workflowsDir)
  BY DEF HygieneFactsFromNode
<1>2. W(Nothing) = 0
  <2>1. ListOr(Nothing) = << >> /\ DOMAIN << >> = {}
    BY DEF ListOr
  <2>2. {i \in DOMAIN << >> : << >>[i] \in {"yml", "yaml"}} = {}
    BY <2>1
  <2>3. W(Nothing) = Cardinality({i \in DOMAIN << >> : << >>[i] \in {"yml", "yaml"}})
    BY <2>1 DEF CountOf
  <2> QED
    BY <2>2, <2>3, FS_EmptySet
<1> HIDE DEF W
<1> QED
  BY <1>1, <1>2

LEMMA LossIsNoGain ==
    ASSUME NEW node, DOMAIN node = HygieneFields,
           NEW f \in HygieneFields \ {"nameWithOwner", "isFork", "collaborators"}
    PROVE  LET before == HygieneFactsFromNode(node)
               after == HygieneFactsFromNode([node EXCEPT ![f] = Nothing])
           IN  /\ Passed(after) \subseteq Passed(before)
               /\ Asked(after) = Asked(before)
               /\ AssessHygiene(after).applicable <=> AssessHygiene(before).applicable
<1> DEFINE node2 == [node EXCEPT ![f] = Nothing]
           before == HygieneFactsFromNode(node)
           after == HygieneFactsFromNode(node2)
<1>1. /\ node2[f] = Nothing
      /\ \A g \in HygieneFields \ {f} : node2[g] = node[g]
      /\ node2.collaborators = node.collaborators /\ node2.isFork = node.isFork
  BY DEF HygieneFields
<1> HIDE DEF node2
<1>2. \A g \in HygieneFields : node2[g] # Nothing => node2[g] = node[g]
  BY <1>1
<1>3. \A g \in HygieneFields : node2[g] = TRUE => node[g] = TRUE
  BY <1>2, NothingIsNoValue
<1>4. \A g \in HygieneFields : OrZero(node2[g]) > 0 => OrZero(node[g]) > 0
  BY <1>1 DEF OrZero
<1>5. after.workflows > 0 => before.workflows > 0
  <2>1. CASE node2.workflowsDir = Nothing
    BY <2>1, WorkflowsAre
  <2>2. CASE node2.workflowsDir = node.workflowsDir
    BY <2>2, WorkflowsAre
  <2> QED
    BY <1>2, <2>1, <2>2 DEF HygieneFields
<1> HIDE DEF before, after
<1>6. /\ after.readme => before.readme
      /\ after.license => before.license
      /\ after.dependabot \/ after.renovate => before.dependabot \/ before.renovate
      /\ after.policy => before.policy
      /\ after.codeowners => before.codeowners
  <2>1. after.readme => before.readme
    BY <1>2, FactsAre DEF HygieneFields, before, after
  <2>2. after.license => before.license
    BY <1>2, FactsAre DEF HygieneFields, before, after
  <2>3. after.dependabot => before.dependabot
    <3>1. after.dependabot <=> node2.dependabotYml # Nothing \/ node2.dependabotYaml # Nothing
      BY FactsAre DEF after
    <3>2. before.dependabot <=> node.dependabotYml # Nothing \/ node.dependabotYaml # Nothing
      BY FactsAre DEF before
    <3> QED
      BY <1>2, <3>1, <3>2 DEF HygieneFields
  <2>4. after.renovate => before.renovate
    <3>1. after.renovate <=> \/ node2.renovateJson # Nothing \/ node2.renovateJsonGithub # Nothing
                             \/ node2.renovaterc # Nothing
      BY FactsAre DEF after
    <3>2. before.renovate <=> \/ node.renovateJson # Nothing \/ node.renovateJsonGithub # Nothing
                              \/ node.renovaterc # Nothing
      BY FactsAre DEF before
    <3> QED
      BY <1>2, <3>1, <3>2 DEF HygieneFields
  <2>5. after.policy => before.policy
    <3>1. after.policy <=> node2.securityMd # Nothing \/ node2.securityMdGithub # Nothing
      BY FactsAre DEF after
    <3>2. before.policy <=> node.securityMd # Nothing \/ node.securityMdGithub # Nothing
      BY FactsAre DEF before
    <3> QED
      BY <1>2, <3>1, <3>2 DEF HygieneFields
  <2>6. after.codeowners => before.codeowners
    <3>1. after.codeowners <=> \/ node2.codeownersFile # Nothing
                               \/ node2.codeownersFileGithub # Nothing
      BY FactsAre DEF after
    <3>2. before.codeowners <=> \/ node.codeownersFile # Nothing
                                \/ node.codeownersFileGithub # Nothing
      BY FactsAre DEF before
    <3> QED
      BY <1>2, <3>1, <3>2 DEF HygieneFields
  <2> QED
    BY <2>1, <2>2, <2>3, <2>4, <2>5, <2>6
<1>7. /\ after.rules > 0 => before.rules > 0
      /\ after.rulesets > 0 => before.rulesets > 0
  BY <1>4, FactsAre DEF HygieneFields, before, after
<1>8. /\ after.alerts => before.alerts
      /\ after.deleteBranch => before.deleteBranch
  BY <1>3, FactsAre DEF HygieneFields, before, after
<1>9. Passed(after) \subseteq Passed(before)
  BY <1>5, <1>6, <1>7, <1>8 DEF Passed
<1>10. Asked(after) = Asked(before)
  BY <1>1, FactsAre DEF Asked, before, after
<1>11. AssessHygiene(after).applicable <=> AssessHygiene(before).applicable
  BY <1>1, FactsAre, AssessmentIs DEF before, after
<1> QED
  BY <1>9, <1>10, <1>11 DEF before, after, node2

LEMMA HygieneLooksNoBetter ==
    ASSUME HygieneInv, FactIsLost
    PROVE  /\ HygieneInv'
           /\ Score(HygieneOf(subject')) <= Score(HygieneOf(subject))
<1> DEFINE node == subject.node
           lost == subject.lost
<1>1. subject = [kind |-> "hygiene", node |-> node, lost |-> lost] /\ DOMAIN node = HygieneFields
  BY DEF HygieneInv
<1>2. PICK f \in DOMAIN node \ {"nameWithOwner", "isFork", "collaborators"} :
             subject' = [subject EXCEPT !.node[f] = Nothing, !.lost = @ + 1]
  BY DEF FactIsLost
<1>3. subject' = [kind |-> "hygiene", node |-> [node EXCEPT ![f] = Nothing], lost |-> lost + 1]
  <2>1. [subject EXCEPT !.node[f] = Nothing]
          = [kind |-> "hygiene", node |-> [node EXCEPT ![f] = Nothing], lost |-> lost]
    BY <1>1
  <2>2. subject' = [[subject EXCEPT !.node[f] = Nothing] EXCEPT !.lost = @ + 1]
    BY <1>2
  <2>3. [[kind |-> "hygiene", node |-> [node EXCEPT ![f] = Nothing], lost |-> lost]
           EXCEPT !.lost = @ + 1]
          = [kind |-> "hygiene", node |-> [node EXCEPT ![f] = Nothing], lost |-> lost + 1]
    OBVIOUS
  <2> QED
    BY <2>1, <2>2, <2>3
<1>4. HygieneInv'
  BY <1>1, <1>3 DEF HygieneInv
<1>5. Score(AssessHygiene(HygieneFactsFromNode(subject'.node)))
        <= Score(AssessHygiene(HygieneFactsFromNode(node)))
  <2>1. subject'.node = [node EXCEPT ![f] = Nothing]
    BY <1>3
  <2> QED
    BY <1>1, <1>2, <2>1, LossIsNoGain, LessPassedScoresLess
<1> QED
  BY <1>4, <1>5 DEF HygieneOf

-----------------------------------------------------------------------------
(* Documents                                                               *)

\* Of a type of documents: every field this build reads it writes; what may be
\* null, absent or not known can be read as such; what is read by its exact
\* fields is written so.
Fit(doc, lacked, foreign) ==
    LET w == doc.writes
        r == doc.reads
    IN  /\ DOMAIN r \subseteq w.always \cup w.maybe
        /\ \A f \in w.maybe \cap DOMAIN r : r[f] \notin {"enum", "date", "list"}
        /\ \A f \in lacked \cap DOMAIN r : r[f] \notin {"need", "exact", "enum", "date"}
        /\ \A f \in foreign \cap DOMAIN r : r[f] \notin {"enum", "date", "optEnum", "optDate"}
        /\ (\E f \in DOMAIN r : r[f] = "exact") =>
              w.always \cup w.maybe \cup w.derived \subseteq DOMAIN r

Fits(type) == Fit(Docs[type], LackedByOlder[type], ForeignInNewer[type])

LEMMA DocsFit == \A type \in DOMAIN Docs : Fits(type)
<1>1. Fit(RunDoc, {}, {})
  <2>1. /\ DOMAIN RunDoc.reads = RunDoc.writes.always \cup RunDoc.writes.maybe
        /\ RunDoc.writes.maybe = {"branch"} /\ RunDoc.reads["branch"] = "opt"
    BY DEF RunDoc, Fields, \sqcup
  <2>2. \A f \in DOMAIN RunDoc.reads : RunDoc.reads[f] # "exact"
    BY DEF RunDoc, Fields, \sqcup
  <2> QED
    BY <2>1, <2>2 DEF Fit
<1>2. Fit(FailedJobDoc, {}, {})
  BY DEF Fit, FailedJobDoc, Fields, \sqcup
<1>3. Fit(PrDoc, {}, {})
  <2> DEFINE needed == {"number", "title", "url", "is_draft", "is_bot"}
             optional == {"author", "head_branch"}
             ages == {"stale", "age_days", "idle_days"}
             dates == {"updated_at", "created_at"}
             enums == {"review_decision", "checks"}
             p1 == Fields(needed, "need")
             p2 == p1 \sqcup Fields(optional, "opt")
             p3 == p2 \sqcup Fields(ages, "default")
             p4 == p3 \sqcup Fields(dates, "date")
             p5 == p4 \sqcup Fields(enums, "optEnum")
             p6 == p5 \sqcup [mergeable |-> "enum"]
  <2>1. PrDoc.reads = p6
    BY DEF PrDoc
  <2>2. DOMAIN p1 = needed /\ \A f \in needed : p1[f] = "need"
    BY DEF Fields
  <2> HIDE DEF p1
  <2>3. /\ DOMAIN p2 = needed \cup optional
        /\ \A f \in needed : p2[f] = "need"
        /\ \A f \in optional : p2[f] = "opt"
    BY <2>2 DEF \sqcup, Fields
  <2> HIDE DEF p2
  <2>4. /\ DOMAIN p3 = needed \cup optional \cup ages
        /\ \A f \in needed : p3[f] = "need"
        /\ \A f \in optional : p3[f] = "opt"
        /\ \A f \in ages : p3[f] = "default"
    BY <2>3 DEF \sqcup, Fields
  <2> HIDE DEF p3
  <2>5. /\ DOMAIN p4 = needed \cup optional \cup ages \cup dates
        /\ \A f \in needed : p4[f] = "need"
        /\ \A f \in optional : p4[f] = "opt"
        /\ \A f \in ages : p4[f] = "default"
        /\ \A f \in dates : p4[f] = "date"
    BY <2>4 DEF \sqcup, Fields
  <2> HIDE DEF p4
  <2>6. /\ DOMAIN p5 = needed \cup optional \cup ages \cup dates \cup enums
        /\ \A f \in needed : p5[f] = "need"
        /\ \A f \in optional : p5[f] = "opt"
        /\ \A f \in ages : p5[f] = "default"
        /\ \A f \in dates : p5[f] = "date"
        /\ \A f \in enums : p5[f] = "optEnum"
    BY <2>5 DEF \sqcup, Fields
  <2> HIDE DEF p5
  <2>7. /\ DOMAIN p6 = needed \cup optional \cup ages \cup dates \cup enums \cup {"mergeable"}
        /\ \A f \in needed : p6[f] = "need"
        /\ \A f \in optional : p6[f] = "opt"
        /\ \A f \in ages : p6[f] = "default"
        /\ \A f \in dates : p6[f] = "date"
        /\ \A f \in enums : p6[f] = "optEnum"
        /\ p6["mergeable"] = "enum"
    BY <2>6 DEF \sqcup
  <2> HIDE DEF p6
  <2>8. /\ PrDoc.writes.maybe = optional \cup enums
        /\ PrDoc.writes.always = needed \cup ages \cup dates \cup {"mergeable"}
    BY DEF PrDoc
  <2> HIDE DEF needed, optional, ages, dates, enums
  <2>9. /\ DOMAIN p6 = PrDoc.writes.always \cup PrDoc.writes.maybe
        /\ \A f \in PrDoc.writes.maybe : p6[f] \in {"opt", "optEnum"}
    BY <2>7, <2>8
  <2>10. \A f \in DOMAIN p6 : p6[f] # "exact"
    BY <2>7
  <2> QED
    BY <2>1, <2>9, <2>10 DEF Fit
<1>4. Fit(IssueDoc, {}, {})
  BY DEF Fit, IssueDoc, Fields, \sqcup
<1>5. Fit(LastCommitDoc, {}, {})
  BY DEF Fit, LastCommitDoc, Fields, \sqcup
<1>6. Fit(BranchDoc, {}, {})
  BY DEF Fit, BranchDoc, Fields, \sqcup
<1>7. Fit(SeverityDoc, {}, {})
  BY DEF Fit, SeverityDoc, Severities, Fields, \sqcup
<1>8. Fit(SecurityDoc, {}, {})
  BY DEF Fit, SecurityDoc, Fields, \sqcup
<1>9. Fit(HygieneCheckDoc, {}, {})
  BY DEF Fit, HygieneCheckDoc, Fields, \sqcup
<1>10. Fit(HygieneDoc, {}, {})
  BY DEF Fit, HygieneDoc, Fields, \sqcup
<1>11. Fit(ReleaseDoc, {}, {})
  BY DEF Fit, ReleaseDoc, Fields, \sqcup
<1>12. Fit(NotificationDoc, {}, {})
  BY DEF Fit, NotificationDoc, Fields, \sqcup
<1>13. Fit(AttentionDoc, {}, {})
  BY DEF Fit, AttentionDoc, Fields, \sqcup
<1>14. Fit(InboxDoc, {}, {})
  BY DEF Fit, InboxDoc, Fields, \sqcup
<1>15. Fit(UsageDoc, {}, {})
  BY DEF Fit, UsageDoc, Fields, \sqcup
<1>16. Fit(ActionsUsageDoc, {}, {})
  BY DEF Fit, ActionsUsageDoc, Fields, \sqcup
<1>17. Fit(TotalsDoc, {}, {})
  BY DEF Fit, TotalsDoc, TotalsFields, Fields, \sqcup
<1>18. Fit(FailedRunDoc, {}, {})
  BY DEF Fit, FailedRunDoc, Fields, \sqcup
<1>19. Fit(RateLimitDoc, {}, {})
  BY DEF Fit, RateLimitDoc, Fields, \sqcup
<1>20. Fit(UserDoc, {}, {})
  BY DEF Fit, UserDoc, Fields, \sqcup
<1>21. Fit(GroupDoc, {}, {})
  BY DEF Fit, GroupDoc, Fields, \sqcup
<1>22. Fit(SnapshotDoc, {}, {})
  BY DEF Fit, SnapshotDoc, Fields, \sqcup
<1>23. Fit(ChangedItemDoc, {}, {})
  BY DEF Fit, ChangedItemDoc, Fields, \sqcup
<1>24. Fits("repo_overview")
  <2>1. /\ Docs["repo_overview"] = RepoOverviewDoc /\ ForeignInNewer["repo_overview"] = {}
        /\ LackedByOlder["repo_overview"] = {"security", "release", "hygiene", "usage"}
    BY DEF Docs, LackedByOlder, ForeignInNewer
  <2> QED
    BY <2>1 DEF Fits, Fit, RepoOverviewDoc, Fields, \sqcup
<1>25. Fits("repository")
  <2>1. /\ Docs["repository"] = RepositoryDoc /\ ForeignInNewer["repository"] = {}
        /\ LackedByOlder["repository"] = {"node_id", "pull_requests", "issues", "last_commit",
                                         "branch_count", "branches_without_pr"}
    BY DEF Docs, LackedByOlder, ForeignInNewer
  <2> QED
    <3> DEFINE needed == {"full_name", "name", "owner", "url", "is_private", "is_archived",
                          "is_fork", "has_issues", "stars", "open_pr_count", "open_issue_count"}
               optional == {"description", "language", "language_color", "default_branch",
                            "last_commit"}
               counted == {"node_id", "branch_count"}
               lists == {"pull_requests", "issues", "branches_without_pr"}
               p1 == Fields(needed, "need")
               p2 == p1 \sqcup Fields(optional, "opt")
               p3 == p2 \sqcup Fields(counted, "default")
               p4 == p3 \sqcup Fields(lists, "list")
               p5 == p4 \sqcup [pushed_at |-> "optDate"]
    <3>1. RepositoryDoc.reads = p5
      BY DEF RepositoryDoc
    <3>2. DOMAIN p1 = needed /\ \A f \in needed : p1[f] = "need"
      BY DEF Fields
    <3> HIDE DEF p1
    <3>3. /\ DOMAIN p2 = needed \cup optional
          /\ \A f \in needed : p2[f] = "need"
          /\ \A f \in optional : p2[f] = "opt"
      <4>1. optional \cap needed = {}
        OBVIOUS
      <4> HIDE DEF needed, optional
      <4> QED BY <3>2, <4>1 DEF \sqcup, Fields
    <3> HIDE DEF p2
    <3>4. /\ DOMAIN p3 = needed \cup optional \cup counted
          /\ \A f \in needed : p3[f] = "need"
          /\ \A f \in optional : p3[f] = "opt"
          /\ \A f \in counted : p3[f] = "default"
      <4>1. counted \cap (needed \cup optional) = {}
        OBVIOUS
      <4> HIDE DEF needed, optional, counted
      <4> QED BY <3>3, <4>1 DEF \sqcup, Fields
    <3> HIDE DEF p3
    <3>5. /\ DOMAIN p4 = needed \cup optional \cup counted \cup lists
          /\ \A f \in needed : p4[f] = "need"
          /\ \A f \in optional : p4[f] = "opt"
          /\ \A f \in counted : p4[f] = "default"
          /\ \A f \in lists : p4[f] = "list"
      <4>1. lists \cap (needed \cup optional \cup counted) = {}
        OBVIOUS
      <4> HIDE DEF needed, optional, counted, lists
      <4> QED BY <3>4, <4>1 DEF \sqcup, Fields
    <3> HIDE DEF p4
    <3>6. /\ DOMAIN p5 = needed \cup optional \cup counted \cup lists \cup {"pushed_at"}
          /\ \A f \in needed : p5[f] = "need"
          /\ \A f \in optional : p5[f] = "opt"
          /\ \A f \in counted : p5[f] = "default"
          /\ \A f \in lists : p5[f] = "list"
          /\ p5["pushed_at"] = "optDate"
      <4>1. "pushed_at" \notin needed \cup optional \cup counted \cup lists
        OBVIOUS
      <4> HIDE DEF needed, optional, counted, lists
      <4> QED BY <3>5, <4>1 DEF \sqcup
    <3> HIDE DEF p5
    <3>7. /\ RepositoryDoc.writes.maybe = optional \cup {"pushed_at"}
          /\ RepositoryDoc.writes.always = needed \cup counted \cup lists
      BY DEF RepositoryDoc
    <3>8. LackedByOlder["repository"] \subseteq counted \cup lists \cup optional
      BY <2>1
    <3> HIDE DEF needed, optional, counted, lists
    <3>9. /\ DOMAIN p5 = RepositoryDoc.writes.always \cup RepositoryDoc.writes.maybe
          /\ \A f \in RepositoryDoc.writes.maybe : p5[f] \in {"opt", "optDate"}
      BY <3>6, <3>7
    <3>10. \A f \in DOMAIN p5 : p5[f] # "exact"
      BY <3>6
    <3>11. \A f \in LackedByOlder["repository"] : p5[f] \in {"default", "list", "opt"}
      BY <3>6, <3>8
    <3> QED
      BY <2>1, <3>1, <3>9, <3>10, <3>11 DEF Fits, Fit
<1>26. Fits("ci")
  <2>1. /\ Docs["ci"] = CiDoc /\ ForeignInNewer["ci"] = {}
        /\ LackedByOlder["ci"] = {"error", "long_running_count", "ci_seconds_recent"}
    BY DEF Docs, LackedByOlder, ForeignInNewer
  <2> QED
    BY <2>1 DEF Fits, Fit, CiDoc, Fields, \sqcup
<1>27. Fits("preferences")
  <2>1. /\ Docs["preferences"] = PreferencesDoc /\ ForeignInNewer["preferences"] = {}
        /\ LackedByOlder["preferences"] = {"groups", "favorites"}
    BY DEF Docs, LackedByOlder, ForeignInNewer
  <2> QED
    BY <2>1 DEF Fits, Fit, PreferencesDoc, Fields, \sqcup
<1>28. Fits("changes")
  <2>1. /\ Docs["changes"] = ChangesDoc /\ ForeignInNewer["changes"] = {}
        /\ LackedByOlder["changes"] = DOMAIN ChangesDoc.reads
    BY DEF Docs, LackedByOlder, ForeignInNewer
  <2> QED
    BY <2>1 DEF Fits, Fit, ChangesDoc, Fields, \sqcup
<1>29. Fits("overview")
  <2> DEFINE lacked == {"rate_limit", "inbox", "notifications", "notifications_available",
                        "actions_usage", "usage_since", "pending", "degraded", "stale_reason"}
  <2>1. /\ Docs["overview"] = OverviewDoc
        /\ LackedByOlder["overview"] = lacked
        /\ ForeignInNewer["overview"] = {"pending", "degraded", "stale_reason"}
    BY DEF Docs, LackedByOlder, ForeignInNewer
  <2>2. /\ DOMAIN OverviewReads =
              {"viewer_login", "totals", "repos", "failures", "generated_at"} \cup lacked
        /\ \A f \in {"viewer_login", "totals", "repos", "failures"} : OverviewReads[f] = "need"
        /\ OverviewReads["generated_at"] = "date"
        /\ \A f \in lacked : OverviewReads[f] \in {"opt", "list", "lenient", "default", "optDate"}
        /\ \A f \in {"rate_limit", "usage_since", "stale_reason"} : OverviewReads[f] # "list"
        /\ \A f \in {"pending", "degraded", "stale_reason"} : OverviewReads[f] = "lenient"
    <3>1. DOMAIN OverviewReads =
              {"viewer_login", "totals", "repos", "failures", "generated_at"} \cup lacked
      BY DEF OverviewReads, Fields, \sqcup
    <3>2. \A f \in {"viewer_login", "totals", "repos", "failures"} : OverviewReads[f] = "need"
      BY DEF OverviewReads, Fields, \sqcup
    <3>3. \A f \in {"rate_limit", "actions_usage"} : OverviewReads[f] = "opt"
      BY DEF OverviewReads, Fields, \sqcup
    <3>4. \A f \in {"inbox", "notifications"} : OverviewReads[f] = "list"
      BY DEF OverviewReads, Fields, \sqcup
    <3>5. \A f \in {"pending", "degraded", "stale_reason"} : OverviewReads[f] = "lenient"
      BY DEF OverviewReads, Fields, \sqcup
    <3>6. /\ OverviewReads["notifications_available"] = "default"
          /\ OverviewReads["generated_at"] = "date" /\ OverviewReads["usage_since"] = "optDate"
      BY DEF OverviewReads, Fields, \sqcup
    <3> QED
      BY <3>1, <3>2, <3>3, <3>4, <3>5, <3>6
  <2> HIDE DEF lacked
  <2> QED
    BY <2>1, <2>2 DEF Fits, Fit, OverviewDoc, OverviewWrites, lacked
<1>30. SUFFICES ASSUME NEW type \in DOMAIN Docs \
                            {"repo_overview", "repository", "ci", "preferences", "changes",
                             "overview"}
                PROVE  Fit(Docs[type], {}, {})
  BY <1>24, <1>25, <1>26, <1>27, <1>28, <1>29 DEF Fits, LackedByOlder, ForeignInNewer
<1> HIDE DEF Fit
<1> QED
  BY <1>1, <1>2, <1>3, <1>4, <1>5, <1>6, <1>7, <1>8, <1>9, <1>10, <1>11, <1>12,
     <1>13, <1>14, <1>15, <1>16, <1>17, <1>18, <1>19, <1>20, <1>21, <1>22, <1>23 DEF Docs

\* A document is as this build writes it but for what an older build lacks and a
\* newer one has otherwise.
DocumentInv ==
    LET type == subject.type
        written == subject.written
        doc == subject.doc
    IN  /\ subject = [kind |-> "document", type |-> type, written |-> written, doc |-> doc]
        /\ type \in DOMAIN Docs
        /\ \E nones \in SUBSET Docs[type].writes.maybe : written = Encode(type, nones)
        /\ DOMAIN doc \subseteq DOMAIN written
        /\ DOMAIN written \ DOMAIN doc \subseteq LackedByOlder[type]
        /\ \A f \in DOMAIN doc :
              doc[f] = written[f] \/ (doc[f] = "foreign" /\ f \in ForeignInNewer[type])

LEMMA DocumentsStayReadable ==
    ASSUME DocumentInv, ReadOlder \/ ReadNewer
    PROVE  DocumentInv'
<1> DEFINE type == subject.type
           written == subject.written
           doc == subject.doc
<1>0. DocumentInv /\ subject.kind = "document"
  BY DEF DocumentInv
<1>1. CASE ReadOlder
  <2>1. PICK f \in LackedByOlder[type] \cap DOMAIN doc :
               subject' = [subject EXCEPT !.doc = [g \in DOMAIN @ \ {f} |-> @[g]]]
    BY <1>1 DEF ReadOlder
  <2>2. subject' = [kind |-> "document", type |-> type, written |-> written,
                    doc |-> [g \in DOMAIN doc \ {f} |-> doc[g]]]
    BY <1>0, <2>1 DEF DocumentInv
  <2> QED
    BY <1>0, <2>2 DEF DocumentInv
<1>2. CASE ReadNewer
  <2>1. PICK f \in ForeignInNewer[type] \cap DOMAIN doc :
               subject' = [subject EXCEPT !.doc[f] = "foreign"]
    BY <1>2 DEF ReadNewer
  <2>2. subject' = [kind |-> "document", type |-> type, written |-> written,
                    doc |-> [doc EXCEPT ![f] = "foreign"]]
    BY <1>0, <2>1 DEF DocumentInv
  <2> QED
    BY <1>0, <2>2 DEF DocumentInv
<1> QED
  BY <1>1, <1>2

LEMMA ReadableSurvive == DocumentInv => DocumentsSurvive
<1> SUFFICES ASSUME DocumentInv PROVE DocumentsSurvive
  OBVIOUS
<1> DEFINE type == subject.type
           written == subject.written
           doc == subject.doc
           r == Docs[type].reads
           w == Docs[type].writes
<1>1. PICK nones \in SUBSET w.maybe : written = Encode(type, nones)
  BY DEF DocumentInv
<1>2. /\ DOMAIN written = w.always \cup w.maybe \cup w.derived
      /\ \A f \in DOMAIN written : written[f] = IF f \in nones THEN "null" ELSE "value"
  BY <1>1 DEF Encode
<1>3. Fit(Docs[type], LackedByOlder[type], ForeignInNewer[type])
  BY DocsFit DEF DocumentInv, Fits
<1> HIDE DEF type, written, doc, r, w
<1>4. /\ DOMAIN r \subseteq DOMAIN written
      /\ \A f \in nones \cap DOMAIN r : r[f] \notin {"enum", "date", "list"}
  BY <1>1, <1>2, <1>3 DEF Fit, r, w
<1>5. /\ \A f \in LackedByOlder[type] \cap DOMAIN r : r[f] \notin {"need", "exact", "enum", "date"}
      /\ \A f \in ForeignInNewer[type] \cap DOMAIN r :
              r[f] \notin {"enum", "date", "optEnum", "optDate"}
      /\ (\E f \in DOMAIN r : r[f] = "exact") => DOMAIN written \subseteq DOMAIN r
  BY <1>2, <1>3 DEF Fit, r, w
<1>6. /\ DOMAIN doc \subseteq DOMAIN written
      /\ DOMAIN written \ DOMAIN doc \subseteq LackedByOlder[type]
      /\ \A f \in DOMAIN doc :
              doc[f] = written[f] \/ (doc[f] = "foreign" /\ f \in ForeignInNewer[type])
  BY DEF DocumentInv, type, written, doc
<1>7. ASSUME NEW f \in DOMAIN r
      PROVE  ~ FieldRaises(HeldBy(doc, f), r[f])
  <2>1. CASE f \notin DOMAIN doc
    BY <1>4, <1>5, <1>6, <2>1 DEF FieldRaises, HeldBy
  <2>2. CASE f \in DOMAIN doc /\ doc[f] = written[f]
    BY <1>2, <1>4, <2>2 DEF FieldRaises, HeldBy
  <2>3. CASE f \in DOMAIN doc /\ doc[f] = "foreign" /\ f \in ForeignInNewer[type]
    BY <1>5, <2>3 DEF FieldRaises, HeldBy
  <2> QED
    BY <1>6, <2>1, <2>2, <2>3
<1>8. ~ Raises(type, doc)
  BY <1>5, <1>6, <1>7 DEF Raises, r
<1>9. ASSUME NEW f \in DOMAIN r, HeldBy(doc, f) = written[f]
      PROVE  Decode(type, doc)[f] = IF written[f] = "null" THEN "none" ELSE "value"
  <2>1. Decode(type, doc)[f] = IF written[f] = "value" THEN "value"
                               ELSE IF written[f] = "null" THEN "none" ELSE "default"
    BY <1>9 DEF Decode, r
  <2> QED
    BY <1>2, <1>4, <2>1
<1>10. /\ DOMAIN Decode(type, doc) = DOMAIN r
       /\ \A f \in DOMAIN r \ Changes(subject) : HeldBy(doc, f) = written[f]
  BY <1>4 DEF Decode, Changes, r, doc, written
<1> QED
  BY <1>8, <1>9, <1>10 DEF DocumentsSurvive, type, doc, written

-----------------------------------------------------------------------------
(* The machine                                                             *)

IInv ==
    /\ "kind" \in DOMAIN subject
    /\ subject.kind = "pr" => PrInv
    /\ subject.kind = "runs" => RunsInv
    /\ subject.kind = "hygiene" => HygieneInv
    /\ subject.kind = "document" => DocumentInv

LEMMA InitHolds == RulesInit => IInv
<1> SUFFICES ASSUME RulesInit PROVE IInv
  OBVIOUS
<1> USE DEF IInv
<1>1. CASE \E node \in PrNodes : subject = [kind |-> "pr", node |-> node]
  BY <1>1 DEF PrInv
<1>2. ASSUME NEW n \in 0 .. 3,
             subject \in [kind : {"runs"},
                          outcomes : [1 .. n -> UNION {Outcomes[bad] : bad \in DOMAIN Outcomes}]]
      PROVE  IInv
  <2>1. n \in Nat /\ subject.outcomes \in [1 .. n -> AllOutcomes]
    BY <1>2 DEF AllOutcomes
  <2> QED
    BY <1>2, <2>1 DEF RunsInv
<1>3. CASE \E node \in HygieneNodes : subject = [kind |-> "hygiene", node |-> node, lost |-> 0]
  BY <1>3, HygieneAssumption DEF HygieneInv
<1>4. CASE subject \in [kind : {"overview"}, answer : [Names -> RepoAnswers], arrived : {{}},
                        checks : BOOLEAN, hygiene : {FALSE}, page : {{}}, inbox : {FALSE}]
  BY <1>4
<1>5. ASSUME NEW type \in DOMAIN Docs, NEW nones \in SUBSET Docs[type].writes.maybe,
             subject = [kind |-> "document", type |-> type, written |-> Encode(type, nones),
                        doc |-> Encode(type, nones)]
      PROVE  IInv
  BY <1>5 DEF DocumentInv
<1> QED
  BY <1>1, <1>2, <1>3, <1>4, <1>5 DEF RulesInit

\* A step is its subject's: the kind stays.
LEMMA StepIs ==
    ASSUME "kind" \in DOMAIN subject, RulesNext
    PROVE  /\ "kind" \in DOMAIN subject' /\ subject'.kind = subject.kind
           /\ \/ subject.kind = "pr" /\ PrGetsWorse
              \/ subject.kind = "runs" /\ RunGetsWorse
              \/ subject.kind = "hygiene" /\ FactIsLost
              \/ subject.kind = "overview"
              \/ subject.kind = "document" /\ (ReadOlder \/ ReadNewer)
<1> USE DEF Subject
<1>1. CASE PrGetsWorse
  BY <1>1 DEF PrGetsWorse
<1>2. CASE RunGetsWorse
  BY <1>2 DEF RunGetsWorse
<1>3. CASE FactIsLost
  BY <1>3 DEF FactIsLost
<1>4. CASE RunsArrive \/ SecurityArrives \/ ReleaseArrives
  BY <1>4 DEF RunsArrive, SecurityArrives, ReleaseArrives, Arrives
<1>5. CASE HygieneArrives
  BY <1>5 DEF HygieneArrives
<1>6. CASE UsageArrives
  BY <1>6 DEF UsageArrives, Arrives
<1>7. CASE InboxArrives
  BY <1>7 DEF InboxArrives
<1>8. CASE ReadOlder
  BY <1>8 DEF ReadOlder
<1>9. CASE ReadNewer
  BY <1>9 DEF ReadNewer
<1> QED
  BY <1>1, <1>2, <1>3, <1>4, <1>5, <1>6, <1>7, <1>8, <1>9 DEF RulesNext

LEMMA StepKeeps == IInv /\ RulesNext => IInv'
<1> SUFFICES ASSUME IInv, RulesNext PROVE IInv'
  OBVIOUS
<1>1. /\ "kind" \in DOMAIN subject' /\ subject'.kind = subject.kind
      /\ \/ subject.kind = "pr" /\ PrGetsWorse
         \/ subject.kind = "runs" /\ RunGetsWorse
         \/ subject.kind = "hygiene" /\ FactIsLost
         \/ subject.kind = "overview"
         \/ subject.kind = "document" /\ (ReadOlder \/ ReadNewer)
  BY StepIs DEF IInv
<1>2. CASE subject.kind = "pr" /\ PrGetsWorse
  BY <1>1, <1>2, PrsKeepTheirShape DEF IInv
<1>3. CASE subject.kind = "runs" /\ RunGetsWorse
  BY <1>1, <1>3, RunsLookNoBetter DEF IInv
<1>4. CASE subject.kind = "hygiene" /\ FactIsLost
  BY <1>1, <1>4, HygieneLooksNoBetter DEF IInv
<1>5. CASE subject.kind = "overview"
  BY <1>1, <1>5 DEF IInv
<1>6. CASE subject.kind = "document" /\ (ReadOlder \/ ReadNewer)
  BY <1>1, <1>6, DocumentsStayReadable DEF IInv
<1> QED
  BY <1>1, <1>2, <1>3, <1>4, <1>5, <1>6

\* The strengthening holds in every state: each subject keeps the shape its rules
\* are applied to, and a document stays one that this build can read.
THEOREM RulesInvariance == RulesSpec => []IInv
<1>1. IInv /\ UNCHANGED subject => IInv'
  BY DEF IInv, PrInv, RunsInv, HygieneInv, DocumentInv
<1>2. IInv /\ [RulesNext]_subject => IInv'
  BY <1>1, StepKeeps
<1> QED
  BY InitHolds, <1>2, PTL DEF RulesSpec

\* Documents of every type, with any number of fields lacking or not known, are
\* read without an error, and what is read of the shared fields is what was
\* written (codec.py, every *_from_dict).
THEOREM DocumentsSurviveAlways == RulesSpec => []DocumentsSurvive
<1>1. IInv => DocumentsSurvive
  BY ReadableSurvive DEF IInv, DocumentsSurvive, Subject
<1> QED
  BY <1>1, RulesInvariance, PTL

\* A pull request, a repository's CI and its hygiene never look better for one
\* thing about them that got worse, and all the points are for having nothing
\* left to fix (models.py pr_state, classify.py, hygiene.py).
THEOREM WorseNeverLooksBetterAlways == RulesSpec => WorseNeverLooksBetter
<1> DEFINE Worse ==
        /\ Subject("pr") =>
             HowUrgent(Urgency, StateOf(subject')) <= HowUrgent(Urgency, StateOf(subject))
        /\ Subject("runs") =>
             HowUrgent(CiUrgency, CiOf(subject').state) <= HowUrgent(CiUrgency, CiOf(subject).state)
        /\ Subject("hygiene") =>
             LET h == HygieneOf(subject') IN
             /\ Score(h) <= Score(HygieneOf(subject))
             /\ h.applicable => (Score(h) = 100 <=> FailingKeys(h) = {})
<1>1. ASSUME IInv, RulesNext
      PROVE  Worse
  <2>1. /\ \/ subject.kind = "pr" /\ PrGetsWorse
           \/ subject.kind = "runs" /\ RunGetsWorse
           \/ subject.kind = "hygiene" /\ FactIsLost
           \/ subject.kind = "overview"
           \/ subject.kind = "document" /\ (ReadOlder \/ ReadNewer)
    BY <1>1, StepIs DEF IInv
  <2>2. CASE subject.kind = "pr" /\ PrGetsWorse
    BY <1>1, <2>2, PrsLookNoBetter DEF IInv, Subject
  <2>3. CASE subject.kind = "runs" /\ RunGetsWorse
    BY <1>1, <2>3, RunsLookNoBetter DEF IInv, Subject
  <2>4. CASE subject.kind = "hygiene" /\ FactIsLost
    <3>1. Score(HygieneOf(subject')) <= Score(HygieneOf(subject))
      BY <1>1, <2>4, HygieneLooksNoBetter DEF IInv
    <3>2. HygieneOf(subject').applicable =>
             (Score(HygieneOf(subject')) = 100 <=> FailingKeys(HygieneOf(subject')) = {})
      BY FullScoreFailsNothing DEF HygieneOf
    <3> QED
      BY <2>4, <3>1, <3>2 DEF Subject
  <2> QED
    BY <2>1, <2>2, <2>3, <2>4 DEF Subject
<1>2. IInv /\ [RulesNext]_subject => [Worse]_subject
  BY <1>1
<1> QED
  BY <1>2, RulesInvariance, PTL DEF RulesSpec, WorseNeverLooksBetter
=============================================================================
