------------------------------ MODULE VerdictProofs ------------------------------
(* Decisions that keep no state.  What an operator's settings and policy file come  *)
(* to, for every environment, every disk, every tool and every policy, of any number *)
(* of rules; what an open merge gate is worth, for every pull request; what a token    *)
(* lets through and the probe sends, for sessions of any length; and what a client is  *)
(* told of a tool and of a request, for any number of tools, chunks and exceptions; how  *)
(* the search of a diagram ends; and what is said of a text that is cut.                *)
EXTENDS MergeGateCases, SessionCases, ClientCases, WorkflowGraph, PatchProofs

--------------------------------------------------------------------------------
(* From Tier 3 on: what Build and enforce let through, whatever was set.           *)

(* What carries Tier 3 and 4 in this program.                                    *)
HighCapabilities == {"actions"} \cup CapabilitiesOf(AUTOMATION)

LEMMA HighAreCapabilities ==
  /\ HighCapabilities \subseteq Capabilities
  /\ HighCapabilities \cap LegacyTargets = {}
  /\ None \notin HighCapabilities
<1>1. CapabilitiesOf(AUTOMATION) = {"playbook_draft", "playbook_export", "playbook_create",
                                    "playbook_modify", "playbook_deploy", "playbook_enable"}
  BY DEF CapabilitiesOf, DOCUMENTATION, MODIFICATION, CONTROL, AUTOMATION
<1>2. CapabilitiesOf(CONTROL) = {"actions", "destructive_actions"}
  BY DEF CapabilitiesOf, DOCUMENTATION, MODIFICATION, CONTROL, AUTOMATION
<1>3. /\ CapabilitiesOf(DOCUMENTATION) = {"comments", "artifacts"}
      /\ CapabilitiesOf(MODIFICATION) = {"incident_writes", "task_writes", "incident_close"}
  BY DEF CapabilitiesOf, DOCUMENTATION, MODIFICATION, CONTROL, AUTOMATION
<1>4. CONTROL \in READ..HIGH_RISK /\ AUTOMATION \in READ..HIGH_RISK
  BY DEF READ, HIGH_RISK, CONTROL, AUTOMATION
<1>5. HighCapabilities \subseteq Capabilities
  <2>1. CapabilitiesOf(CONTROL) \subseteq Capabilities /\ CapabilitiesOf(AUTOMATION) \subseteq Capabilities
    BY <1>4 DEF Capabilities
  <2> QED BY <1>2, <2>1 DEF HighCapabilities
<1>6. HighCapabilities \cap LegacyTargets = {}
  BY <1>1, <1>3 DEF HighCapabilities, LegacyTargets
<1>7. None \notin HighCapabilities
  BY <1>5, EnforceAssumption
<1> QED BY <1>5, <1>6, <1>7

(* What the environment says of the settings that decide at these tiers.           *)
LEMMA ParsedAsSet ==
  ASSUME NEW env
  PROVE  LET s == Parsed(env) IN
         /\ s.lab => env.lab_mode = "on"
         /\ s.confirmAction \/ env.require_action_confirmation = "off"
         /\ s.confirmPlaybook \/ env.require_playbook_confirmation = "off"
         /\ s.approval = "disabled" => env.approval_mode = "disabled"
         /\ env.approval_mode \in {"in_band", "disabled"} => s.approval = env.approval_mode
         /\ \A c \in s.enabled : env[c] = "on" \/ c \in LegacyTargets
  BY DEF Parsed, ParsedBool, ParsedChoice

(* Build starts a server with the settings that were parsed, but for a transport   *)
(* given on the command line.                                                    *)
LEMMA BuiltAsLoaded ==
  ASSUME NEW env, NEW override, NEW disk, Build(env, override, disk) # None
  PROVE  LET p == Parsed(env)
             s == Build(env, override, disk).settings
         IN  /\ Loads(p, disk)
             /\ s.enabled = p.enabled /\ s.lab = p.lab /\ s.approval = p.approval
             /\ s.confirmAction = p.confirmAction /\ s.confirmPlaybook = p.confirmPlaybook
<1> DEFINE p == Parsed(env)
           s == IF override = None THEN p ELSE [p EXCEPT !.transport = override]
<1>1. Loads(p, disk) /\ Build(env, override, disk).settings = s
  BY DEF Build
<1>2. /\ s.enabled = p.enabled /\ s.lab = p.lab /\ s.approval = p.approval
      /\ s.confirmAction = p.confirmAction /\ s.confirmPlaybook = p.confirmPlaybook
  BY DEF Parsed
<1> QED BY <1>1, <1>2

(* What enforce() lets through at these tiers.                                   *)
LEMMA LetThrough ==
  ASSUME NEW s, NEW tool, NEW verdict, tool.tier \in Int, verdict # None => verdict.tier \in Int,
         enforce(s, tool, verdict).code \in {"ALLOW", "REQUIRE_APPROVAL"},
         enforce(s, tool, verdict).tier >= CONTROL
  PROVE  LET a == enforce(s, tool, verdict) IN
         /\ a.tier < HIGH_RISK /\ s.transport = "stdio"
         /\ tool.capability # None => tool.capability \in s.enabled
         /\ a.code = "REQUIRE_APPROVAL" => s.approval # "disabled"
         /\ a.code = "ALLOW" => \/ s.approval = "disabled"
                                \/ a.tier = CONTROL /\ ~s.confirmAction
                                \/ a.tier = AUTOMATION /\ ~s.confirmPlaybook
<1> DEFINE a == enforce(s, tool, verdict)
<1>1. PICK tier \in Int : a = EnforceTier(s, tool, tier, verdict)
  BY DEF enforce, EnforcePolicy, Refused
<1>2. tool.capability # None => tool.capability \in s.enabled
  BY DEF enforce, Refused
<1>3. EnforceTier(s, tool, tier, verdict).code \in {"ALLOW", "REQUIRE_APPROVAL"} /\ tier >= CONTROL
  BY <1>1 DEF EnforceTier, Refused
<1>4. /\ tier < HIGH_RISK /\ s.transport = "stdio" /\ EnforceTier(s, tool, tier, verdict).tier = tier
      /\ a.code = "REQUIRE_APPROVAL" => s.approval # "disabled"
      /\ a.code = "ALLOW" => s.approval = "disabled" \/ ~NeedsApproval(s, tier, verdict)
  BY <1>1, <1>3 DEF EnforceTier, Refused, HIGH_RISK, CONTROL
<1>5. tier = CONTROL \/ tier = AUTOMATION
  BY <1>3, <1>4 DEF HIGH_RISK, CONTROL, AUTOMATION
<1> QED BY <1>1, <1>2, <1>4, <1>5 DEF NeedsApproval

(* Whatever the environment, the command line, the files, the policy and the tool:  *)
(* a call of Tier 3 or above goes through on stdio only, with the tool's own flag    *)
(* on, and either to a human out of band or, without one, in a lab that was asked   *)
(* for by name, with the human turned off by name.                               *)
THEOREM HumanAtHighTier ==
  ASSUME NEW env, NEW override, NEW disk, Build(env, override, disk) # None,
         NEW tool, tool.tier \in Int, tool.capability \in HighCapabilities,
         NEW verdict, verdict # None => verdict.tier \in Int
  PROVE  LET a == enforce(Build(env, override, disk).settings, tool, verdict) IN
         a.code \in {"ALLOW", "REQUIRE_APPROVAL"} /\ a.tier >= CONTROL =>
           /\ a.tier < HIGH_RISK
           /\ Build(env, override, disk).settings.transport = "stdio"
           /\ env[tool.capability] = "on"
           /\ IF a.code = "ALLOW"
              THEN /\ env.lab_mode = "on"
                   /\ \/ env.approval_mode = "disabled"
                      \/ "off" \in {env.require_action_confirmation, env.require_playbook_confirmation}
              ELSE env.approval_mode \notin {"in_band", "disabled"} \/ env.lab_mode = "on"
<1> DEFINE s == Build(env, override, disk).settings
           p == Parsed(env)
           a == enforce(s, tool, verdict)
<1> HIDE DEF s, p, a
<1> SUFFICES ASSUME a.code \in {"ALLOW", "REQUIRE_APPROVAL"}, a.tier >= CONTROL
             PROVE  /\ a.tier < HIGH_RISK /\ s.transport = "stdio" /\ env[tool.capability] = "on"
                    /\ IF a.code = "ALLOW"
                       THEN /\ env.lab_mode = "on"
                            /\ \/ env.approval_mode = "disabled"
                               \/ "off" \in {env.require_action_confirmation, env.require_playbook_confirmation}
                       ELSE env.approval_mode \notin {"in_band", "disabled"} \/ env.lab_mode = "on"
  BY DEF a, s
<1>1. tool.capability # None /\ tool.capability \in Capabilities /\ tool.capability \notin LegacyTargets
  BY HighAreCapabilities
<1>2. /\ a.tier < HIGH_RISK /\ s.transport = "stdio" /\ tool.capability \in s.enabled
      /\ a.code = "REQUIRE_APPROVAL" => s.approval # "disabled"
      /\ a.code = "ALLOW" => s.approval = "disabled" \/ ~s.confirmAction \/ ~s.confirmPlaybook
  BY <1>1, LetThrough DEF a
<1>3. /\ Loads(p, disk) /\ s.enabled = p.enabled /\ s.approval = p.approval
      /\ s.confirmAction = p.confirmAction /\ s.confirmPlaybook = p.confirmPlaybook
  BY BuiltAsLoaded DEF s, p
<1>4. p.approval = "out_of_band" \/ p.lab
  BY <1>2, <1>3 DEF Loads, ApprovalRules, HighCapabilities
<1>5. p.lab \/ (p.confirmAction /\ p.confirmPlaybook)
  BY <1>3 DEF Loads, ConfirmationRules
<1>6. /\ p.lab => env.lab_mode = "on"
      /\ p.confirmAction \/ env.require_action_confirmation = "off"
      /\ p.confirmPlaybook \/ env.require_playbook_confirmation = "off"
      /\ p.approval = "disabled" => env.approval_mode = "disabled"
      /\ env.approval_mode \in {"in_band", "disabled"} => p.approval = env.approval_mode
      /\ \A c \in p.enabled : env[c] = "on" \/ c \in LegacyTargets
  BY ParsedAsSet DEF p
<1>7. env[tool.capability] = "on"
  BY <1>1, <1>2, <1>3, <1>6
<1>8. ASSUME a.code = "ALLOW"
      PROVE  /\ env.lab_mode = "on"
             /\ \/ env.approval_mode = "disabled"
                \/ "off" \in {env.require_action_confirmation, env.require_playbook_confirmation}
  BY <1>2, <1>3, <1>4, <1>5, <1>6, <1>8
<1>9. env.approval_mode \notin {"in_band", "disabled"} \/ env.lab_mode = "on"
  BY <1>4, <1>6
<1> QED BY <1>2, <1>7, <1>8, <1>9

--------------------------------------------------------------------------------
(* What being stricter does, for policies of any length and any constraints.       *)

(* Decisions, from the loosest on. *)
Firmness == [d \in Decisions |-> CASE d = "allow" -> 0 [] d = "require_approval" -> 1 [] d = "deny" -> 2]

(* One result of the policy is at least as strict as another.                     *)
FirmerResult(v, u) ==
  /\ u.tier <= v.tier
  /\ Firmness[u.decision] <= Firmness[v.decision]
  /\ u.destructive => v.destructive
  /\ u.violation => v.violation

(* One rule is at least as strict as another for the same actions: it denies what    *)
(* the other denies and allows no value or type that the other does not.           *)
FirmerRule(r, q) ==
  /\ r.by = q.by /\ r.value = q.value
  /\ q.tier <= r.tier
  /\ Firmness[q.decision] <= Firmness[r.decision]
  /\ q.destructive => r.destructive
  /\ q.deny \subseteq r.deny
  /\ q.allow # {} => r.allow # {} /\ r.allow \subseteq q.allow
  /\ q.types # {} => r.types # {} /\ r.types \subseteq q.types

(* RuleSpec, as far as pydantic types it.  What a rule matches, denies and allows is any set. *)
IsRule(r) == r.tier \in READ..HIGH_RISK /\ r.decision \in Decisions /\ r.destructive \in BOOLEAN

IsPolicy(policy) ==
  /\ \E S : policy.rules \in Seq(S)
  /\ \A i \in 1..Len(policy.rules) : IsRule(policy.rules[i])
  /\ policy.default.tier \in READ..HIGH_RISK /\ policy.default.decision \in Decisions

(* Two ways to make a policy stricter: make any of its rules stricter, or put a rule   *)
(* that denies in front of all others.                                            *)
FirmerRules(new, old) ==
  /\ Len(new) = Len(old)
  /\ \A i \in 1..Len(old) : FirmerRule(new[i], old[i])

InFront(r, new, old) == new = <<r>> \o old

DenyInFront(new, old) == \E r : IsRule(r) /\ r.decision = "deny" /\ InFront(r, new, old)

LEMMA FirmerViolates ==
  ASSUME NEW r, NEW q, FirmerRule(r, q), NEW targets, NEW type, Violates(q, targets, type)
  PROVE  Violates(r, targets, type)
<1>1. CASE q.types # {} /\ type # None /\ type \notin q.types
  BY <1>1 DEF FirmerRule, Violates
<1>2. ASSUME NEW t \in targets, NEW p \in q.deny, ValueMatches(p, t)
      PROVE  Violates(r, targets, type)
  BY <1>2 DEF FirmerRule, Violates
<1>3. ASSUME NEW t \in targets, q.allow # {}, ~\E p \in q.allow : ValueMatches(p, t)
      PROVE  Violates(r, targets, type)
  BY <1>3 DEF FirmerRule, Violates
<1> QED BY <1>1, <1>2, <1>3 DEF Violates

(* enforce() is monotone in the result of the policy, while every call of Tier 3 and  *)
(* above needs a human.                                                          *)
LEMMA FirmerEnforce ==
  ASSUME NEW s, s.confirmAction, s.confirmPlaybook, NEW tool,
         NEW v \in PolicyResult, NEW u \in PolicyResult, FirmerResult(v, u)
  PROVE  NoLooser(enforce(s, tool, v).code, enforce(s, tool, u).code)
<1>1. v # None /\ u # None
  BY EnforceAssumption
<1>2. /\ v.tier \in 0..5 /\ u.tier \in 0..5 /\ u.tier <= v.tier
      /\ v.decision \in Decisions /\ u.decision \in Decisions
      /\ v.destructive \in BOOLEAN /\ u.destructive \in BOOLEAN
      /\ v.violation \in BOOLEAN /\ u.violation \in BOOLEAN
      /\ u.destructive => v.destructive
      /\ u.violation => v.violation
  BY DEF PolicyResult, FirmerResult, READ, HIGH_RISK
<1>3. /\ v.decision = "allow" => u.decision = "allow"
      /\ v.decision = "require_approval" => u.decision \in {"allow", "require_approval"}
  BY <1>2 DEF FirmerResult, Firmness, Decisions
<1>4. NoLooser(EnforceTier(s, tool, v.tier, v).code, EnforceTier(s, tool, u.tier, u).code)
      \/ v.decision = "deny"
  <2>1. CASE v.tier >= HIGH_RISK \/ (s.transport # "stdio" /\ v.tier >= CONTROL) \/ tool.unsupported
    BY <2>1 DEF EnforceTier, Refused, NoLooser
  <2>2. ASSUME v.tier < HIGH_RISK, s.transport = "stdio" \/ v.tier < CONTROL, ~tool.unsupported, v.decision # "deny"
        PROVE  NoLooser(EnforceTier(s, tool, v.tier, v).code, EnforceTier(s, tool, u.tier, u).code)
    <3>1. u.tier < HIGH_RISK /\ (s.transport = "stdio" \/ u.tier < CONTROL)
      BY <1>2, <2>2 DEF HIGH_RISK, CONTROL
    <3>2. NeedsApproval(s, u.tier, u) => NeedsApproval(s, v.tier, v)
      BY <1>1, <1>2, <1>3, <2>2 DEF NeedsApproval, CONTROL, AUTOMATION, HIGH_RISK, Decisions
    <3>3. ~(u.tier >= HIGH_RISK) /\ ~(s.transport # "stdio" /\ u.tier >= CONTROL)
      BY <1>2, <3>1 DEF HIGH_RISK, CONTROL
    <3>4. ~(v.tier >= HIGH_RISK) /\ ~(s.transport # "stdio" /\ v.tier >= CONTROL)
      BY <1>2, <2>2 DEF HIGH_RISK, CONTROL
    <3> QED BY <2>2, <3>2, <3>3, <3>4 DEF EnforceTier, NoLooser
  <2> QED BY <1>2, <2>1, <2>2 DEF HIGH_RISK, CONTROL
<1>5. NoLooser(EnforcePolicy(s, tool, v).code, EnforcePolicy(s, tool, u).code)
  <2>1. CASE v.violation \/ v.decision = "deny" \/ (v.destructive /\ "destructive_actions" \notin s.enabled)
    BY <2>1 DEF EnforcePolicy, Refused, NoLooser
  <2>2. CASE ~(v.violation \/ v.decision = "deny" \/ (v.destructive /\ "destructive_actions" \notin s.enabled))
    <3>1. ~u.violation /\ u.decision # "deny" /\ ~(u.destructive /\ "destructive_actions" \notin s.enabled)
      BY <1>2, <1>3, <2>2 DEF Decisions
    <3> QED BY <1>4, <2>2, <3>1 DEF EnforcePolicy
  <2> QED BY <2>1, <2>2
<1> QED BY <1>1, <1>5 DEF enforce, NoLooser, Refused

(* What classify() answers, by the first rule that matches.                        *)
Matching(rules, action) == {i \in 1..Len(rules) : RuleMatches(rules[i], action)}

First(rules, action, i) == i \in Matching(rules, action) /\ \A j \in Matching(rules, action) : i <= j

ByRule(rule, targets, type) ==
  [tier |-> rule.tier, decision |-> rule.decision, destructive |-> rule.destructive,
   violation |-> Violates(rule, targets, type)]

ByDefault(default) ==
  [tier |-> default.tier, decision |-> default.decision,
   destructive |-> default.tier >= HIGH_RISK, violation |-> FALSE]

LEMMA FirstOrNone ==
  ASSUME NEW S, NEW rules \in Seq(S), NEW action, Matching(rules, action) # {}
  PROVE  \E i : First(rules, action, i)
<1> DEFINE R == OpToRel(<, Nat)
           I == Matching(rules, action)
<1>1. IsWellFoundedOn(R, Nat)
  BY NatLessThanWellFounded
<1>2. \A t, u \in Nat : u < t => <<u, t>> \in R
  BY DEF OpToRel
<1>3. I \subseteq Nat /\ I # {}
  BY DEF Matching
<1> HIDE DEF R, I
<1>4. PICK t \in I : \A u \in I : ~(<<u, t>> \in R)
  BY <1>1, <1>3, WFMin
<1>5. \A u \in I : ~(u < t)
  BY <1>2, <1>3, <1>4
<1>6. \A u \in I : t <= u
  BY <1>3, <1>4, <1>5
<1> QED BY <1>4, <1>6 DEF First, I

LEMMA ClassifiedByFirst ==
  ASSUME NEW S, NEW policy, policy.rules \in Seq(S), NEW action, NEW targets, NEW type, NEW i,
         First(policy.rules, action, i)
  PROVE  classify(policy, action, targets, type) = ByRule(policy.rules[i], targets, type)
<1> DEFINE I == {j \in 1..Len(policy.rules) : RuleMatches(policy.rules[j], action)}
<1>1. I = Matching(policy.rules, action) /\ I \subseteq Nat /\ i \in I
  BY DEF Matching, First
<1>2. \A j \in I : i <= j
  BY <1>1 DEF First
<1>3. (CHOOSE x \in I : \A y \in I : x =< y) = i
  <2> HIDE DEF I
  <2>1. \A x \in I : (\A y \in I : x =< y) => x = i
    BY <1>1, <1>2
  <2> QED BY <1>1, <1>2, <2>1
<1>4. I # {} /\ i # 0
  BY <1>1 DEF I
<1> QED BY <1>3, <1>4 DEF classify, SelectInSeq, Min, ByRule

LEMMA ClassifiedByDefault ==
  ASSUME NEW policy, NEW action, NEW targets, NEW type, Matching(policy.rules, action) = {}
  PROVE  classify(policy, action, targets, type) = ByDefault(policy.default)
  BY DEF classify, SelectInSeq, Matching, ByDefault

LEMMA RuleResult ==
  ASSUME NEW r, IsRule(r), NEW targets, NEW type
  PROVE  ByRule(r, targets, type) \in PolicyResult
<1>1. Violates(r, targets, type) \in BOOLEAN
  BY DEF Violates
<1> QED BY <1>1 DEF IsRule, ByRule, PolicyResult

LEMMA DefaultResult ==
  ASSUME NEW d, d.tier \in READ..HIGH_RISK, d.decision \in Decisions
  PROVE  ByDefault(d) \in PolicyResult
  BY DEF ByDefault, PolicyResult, READ, HIGH_RISK

LEMMA ClassifiedType ==
  ASSUME NEW policy, IsPolicy(policy), NEW action, NEW targets, NEW type
  PROVE  classify(policy, action, targets, type) \in PolicyResult
<1>0. PICK S : policy.rules \in Seq(S)
  BY DEF IsPolicy
<1>1. CASE Matching(policy.rules, action) = {}
  BY <1>1, ClassifiedByDefault, DefaultResult DEF IsPolicy
<1>2. CASE Matching(policy.rules, action) # {}
  <2>1. PICK i : First(policy.rules, action, i)
    BY <1>0, <1>2, FirstOrNone
  <2>2. IsRule(policy.rules[i])
    BY <2>1 DEF IsPolicy, First, Matching
  <2> QED BY <1>0, <2>1, <2>2, ClassifiedByFirst, RuleResult
<1> QED BY <1>1, <1>2

(* Stricter rules classify every action at least as strictly.                      *)
LEMMA FirmerRulesClassify ==
  ASSUME NEW new, IsPolicy(new), NEW old, IsPolicy(old), new.default = old.default,
         FirmerRules(new.rules, old.rules), NEW action, NEW targets, NEW type
  PROVE  FirmerResult(classify(new, action, targets, type), classify(old, action, targets, type))
<1>0. (\E S : new.rules \in Seq(S)) /\ (\E S : old.rules \in Seq(S))
  BY DEF IsPolicy
<1>1. Matching(new.rules, action) = Matching(old.rules, action)
  BY DEF Matching, FirmerRules, FirmerRule, RuleMatches
<1>2. CASE Matching(old.rules, action) = {}
  <2>1. classify(new, action, targets, type) = classify(old, action, targets, type)
    BY <1>1, <1>2, ClassifiedByDefault
  <2>2. classify(old, action, targets, type) \in PolicyResult
    BY ClassifiedType
  <2>3. classify(old, action, targets, type).tier \in Int
        /\ Firmness[classify(old, action, targets, type).decision] \in Int
    BY <2>2 DEF PolicyResult, Firmness, Decisions, READ, HIGH_RISK
  <2> QED BY <2>1, <2>3 DEF FirmerResult
<1>3. CASE Matching(old.rules, action) # {}
  <2>1. PICK i : First(old.rules, action, i)
    BY <1>0, <1>3, FirstOrNone
  <2>2. First(new.rules, action, i)
    BY <1>1, <2>1 DEF First
  <2>3. /\ classify(old, action, targets, type) = ByRule(old.rules[i], targets, type)
        /\ classify(new, action, targets, type) = ByRule(new.rules[i], targets, type)
    BY <1>0, <2>1, <2>2, ClassifiedByFirst
  <2>4. FirmerRule(new.rules[i], old.rules[i])
    BY <2>1 DEF FirmerRules, First, Matching
  <2>5. Violates(old.rules[i], targets, type) => Violates(new.rules[i], targets, type)
    BY <2>4, FirmerViolates
  <2>6. FirmerResult(ByRule(new.rules[i], targets, type), ByRule(old.rules[i], targets, type))
    BY <2>4, <2>5 DEF FirmerResult, FirmerRule, ByRule
  <2> QED BY <2>3, <2>6
<1> QED BY <1>2, <1>3

(* A rule put in front decides on what it matches, and on nothing else.            *)
LEMMA InFrontClassify ==
  ASSUME NEW r, NEW new, NEW old, IsPolicy(old), new.default = old.default,
         InFront(r, new.rules, old.rules), NEW action, NEW targets, NEW type
  PROVE  classify(new, action, targets, type) =
           IF RuleMatches(r, action) THEN ByRule(r, targets, type) ELSE classify(old, action, targets, type)
<1>0. PICK S : old.rules \in Seq(S)
  BY DEF IsPolicy
<1>1. /\ new.rules \in Seq(S \cup {r}) /\ Len(new.rules) = Len(old.rules) + 1
      /\ new.rules[1] = r /\ \A j \in 1..Len(old.rules) : new.rules[j + 1] = old.rules[j]
      /\ Len(old.rules) \in Nat
  <2>1. old.rules \in Seq(S \cup {r}) /\ <<r>> \in Seq(S \cup {r})
    BY <1>0
  <2> QED BY <2>1 DEF InFront
<1>2. \E T : new.rules \in Seq(T)
  BY <1>1
<1>3. CASE RuleMatches(r, action)
  <2>1. First(new.rules, action, 1)
    BY <1>1, <1>3 DEF First, Matching
  <2>2. classify(new, action, targets, type) = ByRule(new.rules[1], targets, type)
    BY <1>2, <2>1, ClassifiedByFirst
  <2> QED BY <1>1, <1>3, <2>2
<1>4. CASE ~RuleMatches(r, action) /\ Matching(old.rules, action) = {}
  <2>1. ASSUME NEW k \in Matching(new.rules, action) PROVE FALSE
    <3>1. k \in 1..(Len(old.rules) + 1) /\ RuleMatches(new.rules[k], action)
      BY <1>1, <2>1 DEF Matching
    <3>2. k # 1
      BY <1>1, <1>4, <3>1
    <3>3. k - 1 \in 1..Len(old.rules) /\ new.rules[k] = old.rules[k - 1]
      BY <1>1, <3>1, <3>2
    <3>4. RuleMatches(old.rules[k - 1], action)
      BY <3>1, <3>3
    <3> QED BY <1>4, <3>3, <3>4 DEF Matching
  <2>2. Matching(new.rules, action) = {}
    BY <2>1
  <2> QED BY <1>4, <2>2, ClassifiedByDefault
<1>5. CASE ~RuleMatches(r, action) /\ Matching(old.rules, action) # {}
  <2>1. PICK i : First(old.rules, action, i)
    BY <1>0, <1>5, FirstOrNone
  <2>2. i \in 1..Len(old.rules) /\ RuleMatches(old.rules[i], action)
    BY <2>1 DEF First, Matching
  <2>3. new.rules[i + 1] = old.rules[i] /\ i + 1 \in 1..Len(new.rules)
    BY <1>1, <2>2
  <2>4. i + 1 \in Matching(new.rules, action)
    BY <2>2, <2>3 DEF Matching
  <2>5. ASSUME NEW k \in Matching(new.rules, action) PROVE i + 1 <= k
    <3>1. k \in 1..(Len(old.rules) + 1) /\ RuleMatches(new.rules[k], action)
      BY <1>1, <2>5 DEF Matching
    <3>2. k # 1
      BY <1>1, <1>5, <3>1
    <3>3. k - 1 \in 1..Len(old.rules) /\ new.rules[k] = old.rules[k - 1]
      BY <1>1, <3>1, <3>2
    <3>4. RuleMatches(old.rules[k - 1], action)
      BY <3>1, <3>3
    <3>5. k - 1 \in Matching(old.rules, action)
      BY <3>3, <3>4 DEF Matching
    <3>6. i <= k - 1
      BY <2>1, <3>5 DEF First
    <3> QED BY <1>1, <2>2, <3>1, <3>6
  <2>6. First(new.rules, action, i + 1)
    BY <2>4, <2>5 DEF First
  <2>7. classify(new, action, targets, type) = ByRule(new.rules[i + 1], targets, type)
    BY <1>2, <2>6, ClassifiedByFirst
  <2>8. classify(old, action, targets, type) = ByRule(old.rules[i], targets, type)
    BY <1>0, <2>1, ClassifiedByFirst
  <2> QED BY <1>5, <2>3, <2>7, <2>8
<1> QED BY <1>3, <1>4, <1>5

(* Whatever the tool, the action and its targets: while every call of Tier 3 and above *)
(* needs a human, a policy made stricter in any of its rules, or by a rule that denies *)
(* in front of them, lets nothing through that was refused and drops no human.        *)
THEOREM StricterPolicies ==
  ASSUME NEW s, s.confirmAction, s.confirmPlaybook, NEW tool,
         NEW new, IsPolicy(new), NEW old, IsPolicy(old), new.default = old.default,
         FirmerRules(new.rules, old.rules) \/ DenyInFront(new.rules, old.rules),
         NEW action, NEW targets, NEW type
  PROVE  NoLooser(enforce(s, tool, classify(new, action, targets, type)).code,
                  enforce(s, tool, classify(old, action, targets, type)).code)
<1>1. /\ classify(new, action, targets, type) \in PolicyResult
      /\ classify(old, action, targets, type) \in PolicyResult
  BY ClassifiedType
<1>2. CASE FirmerRules(new.rules, old.rules)
  BY <1>1, <1>2, FirmerRulesClassify, FirmerEnforce
<1>3. CASE DenyInFront(new.rules, old.rules)
  <2>1. PICK r : IsRule(r) /\ r.decision = "deny" /\ InFront(r, new.rules, old.rules)
    BY <1>3 DEF DenyInFront
  <2>2. CASE RuleMatches(r, action)
    <3>1. classify(new, action, targets, type) = ByRule(r, targets, type)
      BY <2>1, <2>2, InFrontClassify
    <3>2. classify(new, action, targets, type).decision = "deny"
      BY <2>1, <3>1 DEF ByRule
    <3>3. classify(new, action, targets, type) # None
      BY <1>1, EnforceAssumption
    <3> QED BY <3>2, <3>3 DEF enforce, EnforcePolicy, Refused, NoLooser
  <2>3. CASE ~RuleMatches(r, action)
    <3>1. classify(new, action, targets, type) = classify(old, action, targets, type)
      BY <2>1, <2>3, InFrontClassify
    <3> QED BY <3>1 DEF NoLooser
  <2> QED BY <2>2, <2>3
<1> QED BY <1>2, <1>3

(* The settings the run compares policies under need a human at Tier 3 and above.     *)
LEMMA UnsetNeedsHuman == Unset.confirmAction /\ Unset.confirmPlaybook
<1>1. Env(<<>>).require_action_confirmation = None /\ Env(<<>>).require_playbook_confirmation = None
  BY DEF Env, Names
<1>2. None # "off"
  BY EnforceAssumption
<1> QED BY <1>1, <1>2 DEF Unset, Parsed, ParsedBool

(* What the run asks on a handful of rules holds of policies of any length and any     *)
(* rules, one of them stricter than the other.                                    *)
THEOREM StricterAnswers ==
  ASSUME asked.kind = "policy" =>
           /\ IsPolicy(Policy(asked.rules)) /\ IsPolicy(Policy(asked.stricter))
           /\ FirmerRules(asked.stricter, asked.rules) \/ DenyInFront(asked.stricter, asked.rules)
  PROVE  StricterIsStricter
<1> SUFFICES ASSUME asked.kind = "policy", NEW a \in Actions, NEW t \in Targets, NEW y \in {None, "ip", "hash"}
             PROVE  NoLooser(CodeUnder(asked.stricter, a, t, y, asked.destructive),
                             CodeUnder(asked.rules, a, t, y, asked.destructive))
  BY DEF StricterIsStricter
<1> DEFINE s == [Unset EXCEPT !.enabled = {"actions"} \cup IF asked.destructive THEN {"destructive_actions"} ELSE {}]
           new == Policy(asked.stricter)
           old == Policy(asked.rules)
<1>1. s.confirmAction /\ s.confirmPlaybook
  BY UnsetNeedsHuman DEF Unset, Parsed
<1>2. /\ new.rules = asked.stricter /\ old.rules = asked.rules /\ new.default = old.default
      /\ IsPolicy(new) /\ IsPolicy(old)
      /\ FirmerRules(new.rules, old.rules) \/ DenyInFront(new.rules, old.rules)
  BY DEF Policy
<1> HIDE DEF s, new, old
<1>3. NoLooser(enforce(s, Invoke, classify(new, a, t, y)).code, enforce(s, Invoke, classify(old, a, t, y)).code)
  BY <1>1, <1>2, StricterPolicies
<1> QED BY <1>3 DEF CodeUnder, s, new, old

LEMMA RulesMakePolicy ==
  ASSUME NEW rules, (\E S : rules \in Seq(S)), \A i \in 1..Len(rules) : IsRule(rules[i])
  PROVE  IsPolicy(Policy(rules))
  BY DEF IsPolicy, Policy, READ, HIGH_RISK, Decisions

(* The rules the run puts are such rules, and what it makes of them is stricter.       *)
LEMMA RunAsksOfPolicies ==
  ASSUME NEW r \in Rules, NEW q \in Seconds, NEW stricter \in StricterRules(<<r, q>>)
  PROVE  /\ IsPolicy(Policy(<<r, q>>)) /\ IsPolicy(Policy(stricter))
         /\ FirmerRules(stricter, <<r, q>>) \/ DenyInFront(stricter, <<r, q>>)
<1> DEFINE Made(x, by, value, tier, decision, destructive, types, deny, allow) ==
             /\ x = [by |-> by, value |-> value, tier |-> tier, decision |-> decision,
                     destructive |-> destructive, types |-> types, deny |-> deny, allow |-> allow]
             /\ tier \in READ..AUTOMATION /\ decision \in {"allow", "require_approval"} /\ destructive \in BOOLEAN
           Typed(x) == \E by, value, tier, decision, destructive, types, deny, allow :
                          Made(x, by, value, tier, decision, destructive, types, deny, allow)
<1>1. Typed(r)
  <2>1. PICK u \in Unconstrained, c \in Constraints :
          r = Constrained(u, c)
    BY DEF Rules
  <2>2. PICK m \in Matches, t \in {MODIFICATION, CONTROL}, d \in {"allow", "require_approval"} :
          u = Rule(m[1], m[2], t, d)
    BY DEF Unconstrained
  <2>3. r = [by |-> m[1], value |-> m[2], tier |-> t, decision |-> d,
             destructive |-> c.destructive, types |-> c.types, deny |-> c.deny, allow |-> c.allow]
    BY <2>1, <2>2 DEF Constrained, Rule
  <2>4. t \in READ..AUTOMATION /\ c.destructive \in BOOLEAN
    BY DEF READ, AUTOMATION, CONTROL, MODIFICATION, Constraints
  <2>5. Made(r, m[1], m[2], t, d, c.destructive, c.types, c.deny, c.allow)
    BY <2>3, <2>4
  <2> HIDE DEF Made
  <2> QED BY <2>5
<1>2. Typed(q)
  <2>1. PICK m \in Matches, t \in {MODIFICATION, AUTOMATION} : q = Rule(m[1], m[2], t, "allow")
    BY DEF Seconds
  <2>2. Made(q, m[1], m[2], t, "allow", FALSE, {}, {}, {})
    BY <2>1 DEF Rule, READ, AUTOMATION, MODIFICATION
  <2> QED BY <2>2
<1>3. ASSUME NEW x, Typed(x), NEW z \in Stricter(x) PROVE IsRule(z) /\ FirmerRule(z, x)
  <2>1. PICK by, value, tier, decision, destructive, types, deny, allow :
          Made(x, by, value, tier, decision, destructive, types, deny, allow)
    BY <1>3
  <2>2. tier \in 0..4 /\ decision \in {"allow", "require_approval"} /\ destructive \in BOOLEAN
    BY <2>1 DEF READ, AUTOMATION
  <2>3. /\ x.by = by /\ x.value = value /\ x.tier = tier /\ x.decision = decision
        /\ x.destructive = destructive /\ x.types = types /\ x.deny = deny /\ x.allow = allow
    BY <2>1
  <2>4. Firmness["allow"] = 0 /\ Firmness["require_approval"] = 1 /\ Firmness[decision] \in {0, 1}
    BY <2>2 DEF Firmness, Decisions
  <2>5. PICK n, d, y, t :
          /\ z = [by |-> by, value |-> value, tier |-> t, decision |-> d,
                  destructive |-> y, types |-> types, deny |-> n, allow |-> allow]
          /\ deny \subseteq n /\ d \in {decision, "require_approval"}
          /\ y \in {destructive, TRUE} /\ t \in {tier, tier + 1}
    <3>1. CASE \E p \in {Net, Host} : z = [x EXCEPT !.deny = @ \cup {p}]
      <4>1. PICK p \in {Net, Host} : z = [x EXCEPT !.deny = @ \cup {p}]
        BY <3>1
      <4>2. z = [by |-> by, value |-> value, tier |-> tier, decision |-> decision, destructive |-> destructive,
                 types |-> types, deny |-> deny \cup {p}, allow |-> allow]
        BY <2>1, <4>1
      <4> QED BY <4>2
    <3>2. CASE z = [x EXCEPT !.decision = "require_approval"]
      <4>1. z = [by |-> by, value |-> value, tier |-> tier, decision |-> "require_approval",
                 destructive |-> destructive, types |-> types, deny |-> deny, allow |-> allow]
        BY <2>1, <3>2
      <4> QED BY <4>1
    <3>3. CASE z = [x EXCEPT !.destructive = TRUE]
      <4>1. z = [by |-> by, value |-> value, tier |-> tier, decision |-> decision,
                 destructive |-> TRUE, types |-> types, deny |-> deny, allow |-> allow]
        BY <2>1, <3>3
      <4> QED BY <4>1
    <3>4. CASE z = [x EXCEPT !.tier = @ + 1]
      <4>1. z = [by |-> by, value |-> value, tier |-> tier + 1, decision |-> decision,
                 destructive |-> destructive, types |-> types, deny |-> deny, allow |-> allow]
        BY <2>1, <3>4
      <4> QED BY <4>1
    <3> QED BY <1>3, <3>1, <3>2, <3>3, <3>4 DEF Stricter
  <2>6. /\ z.by = by /\ z.value = value /\ z.tier = t /\ z.decision = d
        /\ z.destructive = y /\ z.types = types /\ z.deny = n /\ z.allow = allow
    BY <2>5
  <2>7. Firmness[decision] <= Firmness[d] /\ d \in Decisions
    BY <2>2, <2>4, <2>5 DEF Decisions
  <2> HIDE DEF Made
  <2>8. t \in READ..HIGH_RISK /\ tier <= t
    BY <2>2, <2>5 DEF READ, HIGH_RISK
  <2>9. y \in BOOLEAN /\ (destructive => y)
    <3>1. CASE y = destructive
      BY <2>2, <3>1
    <3>2. CASE y = TRUE
      BY <3>2
    <3> QED BY <2>5, <3>1, <3>2
  <2>10. IsRule(z)
    BY <2>6, <2>7, <2>8, <2>9, Zenon DEF IsRule
  <2> QED BY <2>3, <2>5, <2>6, <2>7, <2>8, <2>9, <2>10 DEF FirmerRule
<1>4. ASSUME NEW x, Typed(x) PROVE IsRule(x) /\ FirmerRule(x, x)
  BY <1>4 DEF IsRule, FirmerRule, Firmness, Decisions, READ, AUTOMATION, HIGH_RISK
<1> HIDE DEF Typed
<1>5. ASSUME NEW x, NEW z, IsRule(x), IsRule(z) PROVE IsPolicy(Policy(<<x, z>>))
  <2>1. <<x, z>> \in Seq({x, z}) /\ \A i \in 1..Len(<<x, z>>) : IsRule(<<x, z>>[i])
    BY <1>5
  <2> QED BY <2>1, RulesMakePolicy
<1>6. CASE \E z \in Stricter(r) : stricter = <<z, q>>
  BY <1>1, <1>2, <1>3, <1>4, <1>5, <1>6 DEF FirmerRules
<1>7. CASE \E z \in Stricter(q) : stricter = <<r, z>>
  BY <1>1, <1>2, <1>3, <1>4, <1>5, <1>7 DEF FirmerRules
<1>8. CASE \E m \in Matches : stricter = <<Rule(m[1], m[2], CONTROL, "deny")>> \o <<r, q>>
  <2>1. PICK m \in Matches : stricter = <<Rule(m[1], m[2], CONTROL, "deny")>> \o <<r, q>>
    BY <1>8
  <2> DEFINE d == Rule(m[1], m[2], CONTROL, "deny")
  <2>2. IsRule(d) /\ d.decision = "deny"
    BY DEF IsRule, Rule, READ, CONTROL, HIGH_RISK, Decisions
  <2>3. stricter = <<d>> \o <<r, q>>
    BY <2>1
  <2> HIDE DEF d
  <2>4. <<d>> \o <<r, q>> \in Seq({d, r, q}) /\ Len(<<d>> \o <<r, q>>) = 3
    <3>1. <<d>> \in Seq({d, r, q}) /\ <<r, q>> \in Seq({d, r, q})
      OBVIOUS
    <3> QED BY <3>1
  <2>5. \A i \in 1..3 : (<<d>> \o <<r, q>>)[i] \in {d, r, q}
    BY <2>4
  <2>6. IsRule(d) /\ IsRule(r) /\ IsRule(q)
    BY <1>1, <1>2, <1>4, <2>2
  <2>7. IsPolicy(Policy(<<d>> \o <<r, q>>))
    BY <2>4, <2>5, <2>6, RulesMakePolicy
  <2> QED BY <1>5, <2>2, <2>3, <2>6, <2>7 DEF DenyInFront, InFront
<1>9. stricter \in {[<<r, q>> EXCEPT ![i] = z] : i \in {1}, z \in Stricter(r)} => \E z \in Stricter(r) : stricter = <<z, q>>
  OBVIOUS
<1>10. stricter \in {[<<r, q>> EXCEPT ![i] = z] : i \in {2}, z \in Stricter(q)} => \E z \in Stricter(q) : stricter = <<r, z>>
  OBVIOUS
<1> QED BY <1>6, <1>7, <1>8, <1>9, <1>10 DEF StricterRules

--------------------------------------------------------------------------------
(* The same of the questions the run puts.                                       *)

(* What the operator may set in the run, here to any value.                        *)
Switches == {"actions", "playbook_create", "writes", "approval_mode", "require_action_confirmation",
             "require_playbook_confirmation", "lab_mode", "mcp_transport", "http_auth_token", "action_policy_file"}

LEMMA EnvAsGiven ==
  ASSUME NEW given, NEW v \in Names, v \in DOMAIN given
  PROVE  Env(given)[v] = given[v]
  BY DEF Env

LEMMA DiskPolicy == IsPolicy(Disk.policy)
<1> DEFINE r == Rule("name", {"isolate"}, CONTROL, "allow")
           q == Rule("id", {"2"}, AUTOMATION, "allow")
<1>1. IsRule(r) /\ IsRule(q)
  BY DEF IsRule, Rule, Decisions, READ, CONTROL, AUTOMATION, HIGH_RISK
<1>2. Disk.policy = Policy(<<r, q>>)
  BY DEF Disk
<1> HIDE DEF r, q
<1>3. <<r, q>> \in Seq({r, q}) /\ \A i \in 1..Len(<<r, q>>) : IsRule(<<r, q>>[i])
  BY <1>1
<1> QED BY <1>2, <1>3, RulesMakePolicy

(* HighTierIsAsked, for every value of every switch.                               *)
THEOREM HighTierAnswers ==
  ASSUME asked.kind = "enforce" => DOMAIN asked.given = Switches
  PROVE  HighTierIsAsked
<1> DEFINE g == asked.given
           runtime == Build(Env(g), asked.override, Disk)
<1> SUFFICES ASSUME asked.kind = "enforce", NEW r \in Answers(runtime),
                    r.answer.code \in {"ALLOW", "REQUIRE_APPROVAL"}, r.answer.tier >= CONTROL
             PROVE  /\ r.answer.tier < HIGH_RISK
                    /\ runtime.settings.transport = "stdio"
                    /\ g[r.tool.capability] = "on"
                    /\ IF r.answer.code = "ALLOW"
                       THEN /\ g.lab_mode = "on"
                            /\ \/ g.approval_mode = "disabled"
                               \/ "off" \in {g.require_action_confirmation, g.require_playbook_confirmation}
                       ELSE g.approval_mode \notin {"in_band", "disabled"} \/ g.lab_mode = "on"
  BY DEF HighTierIsAsked
<1>1. \A v \in Switches : Env(g)[v] = g[v]
  <2>1. Switches \subseteq Names
    <3>1. {"actions", "playbook_create"} \subseteq Names
      BY HighAreCapabilities DEF Names, HighCapabilities, CapabilitiesOf, DOCUMENTATION, MODIFICATION, CONTROL, AUTOMATION
    <3> QED BY <3>1 DEF Switches, Names
  <2> QED BY <2>1, EnvAsGiven
<1> HIDE DEF g, runtime
<1>2. runtime # None
  <2>1. CASE runtime = None
    <3>1. \A tool, verdict : enforce(None, tool, verdict).code = "DENY_CONFIG"
      BY DEF enforce, Refused
    <3>2. \E t \in Plain : r = [tool |-> t, answer |-> enforce(None, t, None)]
      BY <2>1 DEF Answers
    <3> QED BY <3>1, <3>2
  <2> QED BY <2>1
<1> DEFINE s == runtime.settings
<1>3. \E tool, verdict :
        /\ r = [tool |-> tool, answer |-> enforce(s, tool, verdict)]
        /\ tool.tier \in Int /\ tool.capability \in {"actions", "playbook_create"}
        /\ verdict # None => verdict.tier \in Int
  <2>1. CASE \E t \in Plain : r = [tool |-> t, answer |-> enforce(s, t, None)]
    <3>1. PICK t \in Plain : r = [tool |-> t, answer |-> enforce(s, t, None)]
      BY <2>1
    <3>2. t.tier \in Int /\ (t.tier < CONTROL \/ t.capability \in {"actions", "playbook_create"})
      BY DEF Plain, Tool, READ, DOCUMENTATION, MODIFICATION, CONTROL, AUTOMATION, HIGH_RISK
    <3>3. enforce(s, t, None).tier = t.tier
      BY DEF enforce, EnforceTier, Refused
    <3>4. t.capability \in {"actions", "playbook_create"}
      BY <3>1, <3>2, <3>3 DEF CONTROL
    <3> QED BY <3>1, <3>2, <3>4
  <2>2. CASE /\ "actions" \in s.enabled
             /\ \E a \in Actions : r = [tool |-> Invoke, answer |-> enforce(s, Invoke, classify(runtime.policy, a, {}, None))]
    <3>1. PICK a \in Actions : r = [tool |-> Invoke, answer |-> enforce(s, Invoke, classify(runtime.policy, a, {}, None))]
      BY <2>2
    <3>2. runtime.policy = Disk.policy
      BY <1>2, <2>2 DEF runtime, Build
    <3>3. classify(Disk.policy, a, {}, None).tier \in Int
      BY ClassifiedType, DiskPolicy DEF PolicyResult, READ, HIGH_RISK
    <3>4. Invoke.tier \in Int /\ Invoke.capability \in {"actions", "playbook_create"}
      BY DEF Invoke, Tool, CONTROL
    <3> QED BY <3>1, <3>2, <3>3, <3>4
  <2> QED BY <1>2, <2>1, <2>2 DEF Answers
<1>4. PICK tool, verdict :
        /\ r = [tool |-> tool, answer |-> enforce(s, tool, verdict)]
        /\ tool.tier \in Int /\ tool.capability \in {"actions", "playbook_create"}
        /\ verdict # None => verdict.tier \in Int
  BY <1>3
<1>5. tool.capability \in HighCapabilities /\ tool.capability \in Switches
  BY <1>4 DEF HighCapabilities, Switches, CapabilitiesOf, DOCUMENTATION, MODIFICATION, CONTROL, AUTOMATION
<1> DEFINE env == Env(g)
<1>6. LET a == enforce(s, tool, verdict) IN
        /\ a.tier < HIGH_RISK /\ s.transport = "stdio" /\ env[tool.capability] = "on"
        /\ IF a.code = "ALLOW"
           THEN /\ env.lab_mode = "on"
                /\ \/ env.approval_mode = "disabled"
                   \/ "off" \in {env.require_action_confirmation, env.require_playbook_confirmation}
           ELSE env.approval_mode \notin {"in_band", "disabled"} \/ env.lab_mode = "on"
  <2>1. enforce(s, tool, verdict) = r.answer
    BY <1>4
  <2> QED BY <1>2, <1>4, <1>5, <2>1, HumanAtHighTier DEF runtime
<1>7. /\ env[tool.capability] = g[tool.capability] /\ env.lab_mode = g.lab_mode /\ env.approval_mode = g.approval_mode
      /\ env.require_action_confirmation = g.require_action_confirmation
      /\ env.require_playbook_confirmation = g.require_playbook_confirmation
  BY <1>1, <1>5 DEF Switches
<1>8. r.tool = tool /\ r.answer = enforce(s, tool, verdict)
  BY <1>4
<1> HIDE DEF env, s
<1> QED BY <1>6, <1>7, <1>8 DEF s

--------------------------------------------------------------------------------
(* What the client verifies SOAR with.                                           *)

(* The bundles an environment names.                                             *)
NamedBy(env) == ({env.verify_ssl} \ {None, "on", "off"}) \cup ({env.ca_bundle} \ {None})

(* Whatever is set and whatever files there are: every bundle that is named resolves to *)
(* the one the client verifies with, and to verify nothing takes both variables that    *)
(* say so.  No file has the name of one of the two other outcomes.                   *)
THEOREM TrustFollowsNames ==
  ASSUME NEW env, NEW override, NEW disk, Build(env, override, disk) # None,
         Build(env, override, disk).trust # None,
         env.verify_ssl \notin {"yes", "no"}, {"nothing", "python default"} \cap disk.loadable = {}
  PROVE  LET trust == Build(env, override, disk).trust IN
         /\ trust = "nothing" => env.verify_ssl = "off" /\ env.lab_mode = "on" /\ NamedBy(env) = {}
         /\ trust = "python default" => env.verify_ssl \in {None, "on"} /\ NamedBy(env) = {}
         /\ trust \notin {"nothing", "python default"} => \E b \in NamedBy(env) :
               trust = b /\ {disk.real[n] : n \in NamedBy(env)} = {disk.real[b]}
<1> DEFINE p == Parsed(env)
           s == IF override = None THEN p ELSE [p EXCEPT !.transport = override]
           trust == Build(env, override, disk).trust
<1>1. Loads(p, disk) /\ trust = BuildTrust(s, disk)
  BY DEF Build
<1>2. /\ p.verify = IF env.verify_ssl \in {None, "on"} THEN "yes"
                    ELSE IF env.verify_ssl = "off" THEN "no" ELSE env.verify_ssl
      /\ p.bundle = env.ca_bundle /\ (p.lab => env.lab_mode = "on")
  BY DEF Parsed, ParsedBool
<1>3. s.verify = p.verify /\ s.bundle = p.bundle /\ s.lab = p.lab
  BY DEF Parsed
<1>4. BuildTrust(s, disk) = BuildTrust(p, disk)
  BY <1>3 DEF BuildTrust, TlsBundle, Legacy
<1>5. TlsRules(p, disk) /\ trust # None
  BY <1>1 DEF Loads
<1> HIDE DEF p, s, trust
<1>6. CASE p.verify = "no"
  <2>1. trust = "nothing" /\ p.bundle = None /\ p.lab
    BY <1>1, <1>4, <1>5, <1>6 DEF BuildTrust, TlsRules
  <2>2. env.verify_ssl = "off"
    BY <1>2, <1>6
  <2> QED BY <1>2, <2>1, <2>2 DEF NamedBy, trust
<1>7. CASE p.verify # "no" /\ TlsBundle(p) = None
  <2>1. trust = "python default"
    BY <1>1, <1>4, <1>7 DEF BuildTrust
  <2>2. p.verify = "yes" /\ env.ca_bundle = None
    BY <1>2, <1>7, EnforceAssumption DEF TlsBundle, Legacy
  <2>3. env.verify_ssl \in {None, "on"}
    BY <1>2, <2>2
  <2> QED BY <2>1, <2>2, <2>3 DEF NamedBy, trust
<1>8. CASE p.verify # "no" /\ TlsBundle(p) # None
  <2>1. trust = TlsBundle(p) /\ TlsBundle(p) \in disk.loadable
    BY <1>1, <1>4, <1>5, <1>8 DEF BuildTrust
  <2>2. CASE Legacy(p)
    <3>1. TlsBundle(p) = env.verify_ssl /\ env.verify_ssl \notin {None, "on", "off"}
      BY <1>2, <2>2 DEF TlsBundle, Legacy
    <3>2. env.ca_bundle # None => disk.real[env.ca_bundle] = disk.real[env.verify_ssl]
      BY <1>2, <1>5, <2>2, <3>1 DEF TlsRules, Legacy, TlsBundle
    <3>3. env.verify_ssl \in NamedBy(env) /\ \A n \in NamedBy(env) : disk.real[n] = disk.real[env.verify_ssl]
      BY <3>1, <3>2 DEF NamedBy
    <3>4. {disk.real[n] : n \in NamedBy(env)} = {disk.real[env.verify_ssl]}
      BY <3>3
    <3> QED BY <2>1, <3>1, <3>3, <3>4 DEF trust
  <2>3. CASE ~Legacy(p)
    <3>1. env.verify_ssl \in {None, "on"} /\ TlsBundle(p) = env.ca_bundle /\ env.ca_bundle # None
      BY <1>2, <1>8, <2>3 DEF TlsBundle, Legacy
    <3>2. NamedBy(env) = {env.ca_bundle}
      BY <3>1 DEF NamedBy
    <3>3. {disk.real[n] : n \in NamedBy(env)} = {disk.real[env.ca_bundle]}
      BY <3>2
    <3> QED BY <2>1, <3>1, <3>2, <3>3 DEF trust
  <2> QED BY <2>2, <2>3
<1> QED BY <1>6, <1>7, <1>8

(* TrustIsAsNamed, whatever is asked of the bundles there may be.                    *)
THEOREM TrustAnswers ==
  ASSUME asked.kind = "trust" =>
           /\ {"verify_ssl", "ca_bundle", "lab_mode"} \subseteq DOMAIN asked.given
           /\ asked.given.verify_ssl \in {None, "on", "off", "odd"} \cup Bundles
           /\ asked.given.ca_bundle \in {None} \cup Bundles
           /\ asked.files \subseteq Bundles
  PROVE  TrustIsAsNamed
<1> DEFINE g == asked.given
           disk == [Disk EXCEPT !.files = asked.files, !.loadable = asked.loadable \cap asked.files,
                                !.real = [f \in Bundles |-> RealPath(f)]]
           runtime == Build(Env(g), None, disk)
           named == {RealPath(b) : b \in Bundles \cap {g.verify_ssl, g.ca_bundle}}
<1> SUFFICES ASSUME asked.kind = "trust", runtime # None, runtime.trust # None
             PROVE  CASE runtime.trust = "nothing"        -> g.verify_ssl = "off" /\ g.lab_mode = "on" /\ named = {}
                      [] runtime.trust = "python default" -> g.verify_ssl \in {None, "on"} /\ named = {}
                      [] OTHER                            -> named = {RealPath(runtime.trust)}
  BY DEF TrustIsAsNamed
<1> DEFINE env == Env(g)
<1>1. env.verify_ssl = g.verify_ssl /\ env.ca_bundle = g.ca_bundle /\ env.lab_mode = g.lab_mode
  <2>1. {"verify_ssl", "ca_bundle", "lab_mode"} \subseteq Names
    BY DEF Names
  <2> QED BY <2>1, EnvAsGiven
<1>2. /\ disk.files = asked.files /\ disk.loadable \subseteq asked.files
      /\ disk.real = [f \in Bundles |-> RealPath(f)]
  BY DEF Disk
<1>3. /\ g.verify_ssl \in {None, "on", "off", "odd"} \cup Bundles
      /\ g.ca_bundle \in {None} \cup Bundles /\ asked.files \subseteq Bundles
  OBVIOUS
<1>4. env.verify_ssl \notin {"yes", "no"} /\ {"nothing", "python default"} \cap disk.loadable = {}
  BY <1>1, <1>2, <1>3, EnforceAssumption DEF Bundles
<1>5. env.verify_ssl # "odd"
  <2>1. TlsRules(Parsed(env), disk)
    BY DEF Build, Loads
  <2>2. CASE env.verify_ssl = "odd"
    <3>1. Parsed(env).verify = "odd"
      BY <2>2, EnforceAssumption DEF Parsed
    <3>2. "odd" \in disk.files
      BY <2>1, <3>1 DEF TlsRules, Legacy
    <3> QED BY <1>2, <1>3, <3>2 DEF Bundles
  <2> QED BY <2>2
<1>6. Bundles \cap {None, "on", "off", "odd"} = {}
  <2>1. Bundles \cap {"on", "off", "odd"} = {}
    BY DEF Bundles
  <2> QED BY <2>1, BundlesAssumption
<1> HIDE DEF disk, runtime, g, env
<1>7. LET trust == runtime.trust IN
      /\ trust = "nothing" => env.verify_ssl = "off" /\ env.lab_mode = "on" /\ NamedBy(env) = {}
      /\ trust = "python default" => env.verify_ssl \in {None, "on"} /\ NamedBy(env) = {}
      /\ trust \notin {"nothing", "python default"} => \E b \in NamedBy(env) :
            trust = b /\ {disk.real[n] : n \in NamedBy(env)} = {disk.real[b]}
  BY <1>4, TrustFollowsNames DEF runtime, env
<1>8. Bundles \cap {g.verify_ssl, g.ca_bundle} = NamedBy(env)
  BY <1>1, <1>3, <1>5, <1>6 DEF NamedBy
<1>9. named = {disk.real[n] : n \in NamedBy(env)}
  BY <1>2, <1>8
<1> QED BY <1>1, <1>2, <1>7, <1>8, <1>9

--------------------------------------------------------------------------------
(* The merge gate. *)

(* A snapshot has these seven parts, whatever they are.                          *)
IsSnapshot(s) ==
  s = [pr |-> s.pr, files |-> s.files, ciRuns |-> s.ciRuns, reviews |-> s.reviews,
       inline |-> s.inline, threads |-> s.threads, comments |-> s.comments]

\* What is not by Codex, through its App and on this pull request, is not read.
LEMMA ReadsOnlyCodex ==
  ASSUME NEW s, NEW t, CodexReviews(t) = CodexReviews(s), CodexComments(t) = CodexComments(s),
         CodexInline(t) = CodexInline(s), t.threads = s.threads
  PROVE  assess(t) = assess(s)
<1>1. States(t) = States(s) /\ HeadReviews(t) = HeadReviews(s) /\ CleanReceipts(t) = CleanReceipts(s)
      /\ Receipts(t) = Receipts(s)
  BY DEF States, HeadReviews, CleanReceipts, Receipts
<1>2. Inconsistent(t) <=> Inconsistent(s)
  BY <1>1 DEF Inconsistent
<1>3. \A c : Thread(t, c) = Thread(s, c)
  BY DEF Thread
<1>4. Open(t) = Open(s)
  BY <1>3 DEF Open
<1>5. \A r : OfReview(t, r) = OfReview(s, r)
  BY DEF OfReview
<1>6. \A code : Untold(t, code) <=> Untold(s, code)
  BY <1>1, <1>3, <1>4, <1>5 DEF Untold
<1> QED BY <1>1, <1>2, <1>4, <1>6 DEF assess

LEMMA StrangersAreNobody ==
  ASSUME NEW s, IsSnapshot(s)
  PROVE  assess(Strangers(s)) = assess(s)
<1> DEFINE t == Strangers(s)
<1>1. /\ t.threads = s.threads
      /\ \A r : r \in t.reviews <=>
           \/ r \in s.reviews
           \/ r = [CodexReview EXCEPT !.user = Lookalike, !.id = 7]
           \/ r = [CodexReview EXCEPT !.pr = "another", !.id = 8, !.names = "other"]
      /\ \A c : c \in t.inline <=>
           \/ c \in s.inline
           \/ c = [Inline EXCEPT !.user = Lookalike, !.id = 7]
           \/ c = [Inline EXCEPT !.reply = TRUE, !.id = 8]
  BY DEF Strangers, IsSnapshot
<1>2. ASSUME NEW c
      PROVE  /\ c \in s.comments => c \in t.comments
             /\ c \in t.comments => c \in s.comments \/ c.user = Lookalike \/ c.app = None \/ c.pr = "another"
  <2> DEFINE said == [code : {[commit |-> "head", status |-> "completed", any |-> FALSE,
                               unresolved |-> FALSE]},
                      security : {NoReview}]
             Post(n, b) == [CodexComment EXCEPT !.receipt = TRUE, !.names = n, !.state = b]
             posts == {Post(n, b) : n \in {"head", None}, b \in said \cup {None}}
  <2>1. t.comments = s.comments \cup {[p EXCEPT !.user = Lookalike] : p \in posts}
                                \cup {[p EXCEPT !.app = None] : p \in posts}
                                \cup {[p EXCEPT !.pr = "another"] : p \in posts}
    BY DEF Strangers, IsSnapshot, said
  <2> HIDE DEF said, Post
  <2>2. ASSUME NEW p \in posts
        PROVE  /\ [p EXCEPT !.user = Lookalike].user = Lookalike
               /\ [p EXCEPT !.app = None].app = None
               /\ [p EXCEPT !.pr = "another"].pr = "another"
    <3>1. PICK n \in {"head", None}, b \in said \cup {None} :
            p = Post(n, b)
      BY <2>2
    <3> HIDE DEF posts
    <3>2. p = [user |-> Codex, app |-> "codex", pr |-> "this", association |-> "NONE",
               receipt |-> TRUE, names |-> n, state |-> b, approves |-> {}]
      BY <3>1 DEF CodexComment, Post
    <3> QED BY <3>2
  <2> HIDE DEF posts
  <2> QED BY <2>1, <2>2
<1> HIDE DEF t
<1>3. ~IsBot(Lookalike, "codex")
  BY DEF IsBot, Lookalike
<1>4. CodexComments(t) = CodexComments(s)
  BY <1>2, <1>3 DEF CodexComments, IsAppComment, BelongsToPr
<1>5. CodexReviews(t) = CodexReviews(s)
  BY <1>1, <1>3 DEF CodexReviews, CodexReview, BelongsToPr
<1>6. CodexInline(t) = CodexInline(s)
  BY <1>1, <1>3 DEF CodexInline, Inline, BelongsToPr
<1> QED BY <1>1, <1>4, <1>5, <1>6, ReadsOnlyCodex DEF t

\* Codex says what is open: then no missing page of what else was read makes it clean.
LEMMA MissingPagesDoNotClean ==
  ASSUME NEW s, NEW t, t.comments = s.comments, assess(s).status = "findings",
         \A c \in States(s) : c.state.code.unresolved = TRUE
  PROVE  assess(t).status # "clean"
<1>1. CodexComments(t) = CodexComments(s)
  BY DEF CodexComments
<1>2. States(t) = States(s)
  BY <1>1 DEF States
<1>3. States(s) # {}
  BY DEF assess, Verdict
<1> DEFINE code == (CHOOSE c \in States(t) : TRUE).state.code
<1>4. code.unresolved = TRUE
  BY <1>2, <1>3
<1>5. SUFFICES ASSUME assess(t).status = "clean" PROVE FALSE
  OBVIOUS
<1>6. ~Untold(t, code) /\ Open(t) = {}
  BY <1>5 DEF assess, Verdict
<1> QED BY <1>4, <1>6 DEF Untold

(* Whatever pull request is looked at: nobody but Codex moves its verdict, and findings  *)
(* it has told of do not turn clean because reviews, comments or threads are missing.   *)
THEOREM VerdictsStand ==
  ASSUME asked.kind = "assess" => IsSnapshot(asked.s)
  PROVE  VerdictStands
<1> SUFFICES ASSUME asked.kind = "assess" PROVE VerdictStands
  BY DEF VerdictStands
<1> DEFINE s == asked.s
<1>1. IsSnapshot(s)
  OBVIOUS
<1> HIDE DEF s
<1>3. assess(Strangers(s)) = assess(s)
  BY <1>1, StrangersAreNobody
<1>5. assess(s).status = "findings" /\ (\A c \in States(s) : c.state.code.unresolved = TRUE) =>
        \A R \in SUBSET s.reviews, I \in SUBSET s.inline, T \in SUBSET DOMAIN s.threads :
          assess([s EXCEPT !.reviews = R, !.inline = I,
                           !.threads = [i \in T |-> s.threads[i]]]).status # "clean"
  <2> SUFFICES ASSUME assess(s).status = "findings",
                      \A c \in States(s) : c.state.code.unresolved = TRUE,
                      NEW R \in SUBSET s.reviews, NEW I \in SUBSET s.inline,
                      NEW T \in SUBSET DOMAIN s.threads
               PROVE  assess([s EXCEPT !.reviews = R, !.inline = I,
                                       !.threads = [i \in T |-> s.threads[i]]]).status # "clean"
    OBVIOUS
  <2> DEFINE t == [s EXCEPT !.reviews = R, !.inline = I, !.threads = [i \in T |-> s.threads[i]]]
  <2>1. t.comments = s.comments
    BY <1>1 DEF IsSnapshot
  <2> HIDE DEF t
  <2>2. assess(t).status # "clean"
    BY <2>1, MissingPagesDoNotClean
  <2> QED BY <2>2 DEF t
<1> QED BY <1>3, <1>5 DEF s, VerdictStands

--------------------------------------------------------------------------------
(* What an open gate asks for. *)
LEMMA OpenGate ==
  ASSUME NEW s, NEW required, gate(s, required)
  PROVE  /\ TrustedRuns(s) # {} /\ latest_ci_run(s).status = "completed"
         /\ \E c \in States(s) : c.state.code.commit = "head"
         /\ sensitive_files(s) # None
         /\ sensitive_files(s) # {} => sensitive_approved(s)
<1>1. TrustedRuns(s) # {} /\ latest_ci_run(s).status = "completed"
  BY DEF gate, assess_ci
<1>2. \E c \in States(s) : c.state.code.commit = "head"
  BY DEF gate, assess, Verdict
<1> QED BY <1>1, <1>2 DEF gate, security_ok

\* A run of CI is a record, numbered as GitHub does, and one of the runs of a head is the newest.
IsRun(r) ==
  /\ r = [id |-> r.id, commit |-> r.commit, trusted |-> r.trusted, number |-> r.number,
          attempt |-> r.attempt, status |-> r.status, conclusion |-> r.conclusion, jobs |-> r.jobs]
  /\ r.id \in Nat /\ r.number \in Nat /\ r.attempt \in Nat /\ r.trusted \in BOOLEAN

Ordered(s) ==
  /\ \A r \in s.ciRuns : IsRun(r)
  /\ TrustedRuns(s) # {} =>
       \E r \in TrustedRuns(s) : \A q \in TrustedRuns(s) \ {r} : Newer(r, q)

\* Codex said that the head is clean, if anything, and the owner approved of it, if anybody.
SaysClean(s) ==
  /\ States(s) \subseteq {CleanComment}
  /\ \A c \in s.comments : /\ c.user.type = "User" /\ c.association = "OWNER" /\ c.app = None
                            /\ "head" \in c.approves
                            => c = Approval
  /\ Len(s.files) \in Nat \ {0}

LEMMA MovedRunsClose ==
  ASSUME NEW s, IsSnapshot(s), Ordered(s), NEW required
  PROVE  ~gate(MovedRuns(s), required)
<1>1. MovedRuns(s).ciRuns = {[r EXCEPT !.commit = "other"] : r \in s.ciRuns}
  BY DEF MovedRuns, IsSnapshot
<1>2. ASSUME NEW r \in s.ciRuns PROVE [r EXCEPT !.commit = "other"].commit = "other"
  BY <1>2 DEF Ordered, IsRun
<1>3. TrustedRuns(MovedRuns(s)) = {}
  BY <1>1, <1>2 DEF TrustedRuns
<1> QED BY <1>3, OpenGate

LEMMA MovedCodexCloses ==
  ASSUME NEW s, IsSnapshot(s), SaysClean(s), NEW required
  PROVE  ~gate(MovedComments(s, {CleanComment}), required)
<1> DEFINE t == MovedComments(s, {CleanComment})
<1>1. ASSUME NEW c \in t.comments
      PROVE  (c \in s.comments /\ c # CleanComment) \/ c.state = None \/ c.state.code.commit = "other"
  <2> DEFINE Old(b) == IF b = None THEN None ELSE [b EXCEPT !.code.commit = "other"]
             moved == [CleanComment EXCEPT !.names = IF @ = "head" THEN "other" ELSE @,
                                           !.state = Old(@), !.approves = {}]
  <2>1. t.comments = (s.comments \ {CleanComment}) \cup {moved}
    BY DEF MovedComments, IsSnapshot
  <2>2. moved.state = Old(CleanBlock)
    BY DEF CleanComment, CodexComment
  <2>3. Old(CleanBlock) = None \/ Old(CleanBlock).code.commit = "other"
    BY DEF CleanBlock
  <2> HIDE DEF moved, Old
  <2> QED BY <2>1, <2>2, <2>3
<1> HIDE DEF t
<1>2. ASSUME NEW c \in States(t) PROVE c.state.code.commit # "head"
  <2>1. c \in t.comments /\ c.state # None /\ IsAppComment(c, "codex", TRUE) /\ BelongsToPr(c)
    BY <1>2 DEF States, CodexComments
  <2>2. c \in s.comments => c \in States(s)
    BY <2>1 DEF States, CodexComments
  <2> QED BY <1>1, <2>1, <2>2 DEF SaysClean
<1> QED BY <1>2, OpenGate DEF t

LEMMA MovedApprovalCloses ==
  ASSUME NEW s, IsSnapshot(s), SaysClean(s), s.files[1].now = "sensitive", NEW required
  PROVE  ~gate(MovedComments(s, {Approval}), required)
<1> DEFINE t == MovedComments(s, {Approval})
<1>1. /\ t.files = s.files
      /\ \A c \in t.comments : (c \in s.comments /\ c # Approval) \/ c.approves = {}
  BY DEF MovedComments, IsSnapshot, Approval
<1> HIDE DEF t
<1>2. ~sensitive_approved(t)
  BY <1>1 DEF sensitive_approved, SaysClean
<1>3. sensitive_files(t) # None => 1 \in sensitive_files(t)
  BY <1>1 DEF sensitive_files, SaysClean
<1> QED BY <1>2, <1>3, OpenGate DEF t

\* A run that is newer than the newest is the newest.
LEMMA NewestChanges ==
  ASSUME NEW s, NEW t, NEW r, NEW next, Ordered(s), TrustedRuns(s) # {}, r = latest_ci_run(s),
         IsRun(next), TrustedRuns(t) = TrustedRuns(s) \cup {next},
         next.number > r.number \/ (next.number = r.number /\ next.attempt > r.attempt)
  PROVE  latest_ci_run(t) = next
<1> DEFINE Newest(S, x) == \A q \in S \ {x} : Newer(x, q)
<1>1. r \in TrustedRuns(s) /\ Newest(TrustedRuns(s), r)
  BY DEF Ordered, latest_ci_run
<1>2. \A q \in TrustedRuns(s) : q.id \in Nat /\ q.number \in Nat /\ q.attempt \in Nat
  BY DEF Ordered, TrustedRuns, IsRun
<1>3. next.id \in Nat /\ next.number \in Nat /\ next.attempt \in Nat
  BY DEF IsRun
<1>4. ASSUME NEW q \in TrustedRuns(s) PROVE Newer(next, q) /\ ~Newer(q, next)
  <2>1. CASE q = r
    BY <1>2, <1>3, <1>4, <2>1 DEF Newer
  <2>2. CASE q # r
    <3>1. Newer(r, q)
      BY <1>1, <1>4, <2>2
    <3> QED BY <1>1, <1>2, <1>3, <1>4, <3>1 DEF Newer
  <2> QED BY <2>1, <2>2
<1>5. next \in TrustedRuns(t) /\ Newest(TrustedRuns(t), next)
  BY <1>4
<1>6. ASSUME NEW x \in TrustedRuns(t), Newest(TrustedRuns(t), x) PROVE x = next
  BY <1>4, <1>5, <1>6
<1> QED BY <1>5, <1>6 DEF latest_ci_run

LEMMA NewestRunCounts ==
  ASSUME NEW s, IsSnapshot(s), Ordered(s), gate(s, Jobs)
  PROVE  NewestRunDecides(s)
<1> SUFFICES ASSUME NEW i \in {0, 9}, NEW rerun \in BOOLEAN
             PROVE  LET r    == latest_ci_run(s)
                        next == [r EXCEPT !.id = i, !.status = "in_progress",
                                          !.number = IF rerun THEN @ ELSE @ + 1,
                                          !.attempt = IF rerun THEN @ + 1 ELSE 1]
                    IN  /\ ~gate([s EXCEPT !.ciRuns = @ \cup {next}], Jobs)
                        /\ gate([s EXCEPT !.ciRuns = @ \cup {[next EXCEPT !.trusted = FALSE]}], Jobs)
  BY DEF NewestRunDecides
<1> DEFINE r     == latest_ci_run(s)
           next  == [r EXCEPT !.id = i, !.status = "in_progress",
                              !.number = IF rerun THEN @ ELSE @ + 1,
                              !.attempt = IF rerun THEN @ + 1 ELSE 1]
           alien == [next EXCEPT !.trusted = FALSE]
           t     == [s EXCEPT !.ciRuns = @ \cup {next}]
           u     == [s EXCEPT !.ciRuns = @ \cup {alien}]
<1>1. t.ciRuns = s.ciRuns \cup {next} /\ u.ciRuns = s.ciRuns \cup {alien}
  BY DEF IsSnapshot
<1>2. /\ u.pr = s.pr /\ u.files = s.files /\ u.comments = s.comments
      /\ u.reviews = s.reviews /\ u.inline = s.inline /\ u.threads = s.threads
  BY DEF IsSnapshot
<1>3. TrustedRuns(s) # {} /\ r \in TrustedRuns(s)
  BY OpenGate DEF Ordered, latest_ci_run
<1>4. IsRun(r) /\ r.commit = "head" /\ r.trusted
  BY <1>3 DEF Ordered, TrustedRuns
<1> HIDE DEF r
<1>5. next = [id |-> i, commit |-> r.commit, trusted |-> r.trusted,
              number |-> IF rerun THEN r.number ELSE r.number + 1,
              attempt |-> IF rerun THEN r.attempt + 1 ELSE 1,
              status |-> "in_progress", conclusion |-> r.conclusion, jobs |-> r.jobs]
  <2> DEFINE n == IF rerun THEN r.number ELSE r.number + 1
             a == IF rerun THEN r.attempt + 1 ELSE 1
  <2>1. r = [id |-> r.id, commit |-> r.commit, trusted |-> r.trusted, number |-> r.number,
             attempt |-> r.attempt, status |-> r.status, conclusion |-> r.conclusion,
             jobs |-> r.jobs]
    BY <1>4 DEF IsRun
  <2>2. next = [r EXCEPT !.id = i, !.status = "in_progress", !.number = n, !.attempt = a]
    OBVIOUS
  <2> HIDE DEF n, a, next
  <2>3. next = [id |-> i, commit |-> r.commit, trusted |-> r.trusted, number |-> n, attempt |-> a,
                status |-> "in_progress", conclusion |-> r.conclusion, jobs |-> r.jobs]
    BY <2>1, <2>2
  <2> QED BY <2>3 DEF n, a
<1> HIDE DEF t, u, next
<1>6. /\ IsRun(next) /\ next.commit = "head" /\ next.trusted /\ next.status = "in_progress"
      /\ next.number > r.number \/ (next.number = r.number /\ next.attempt > r.attempt)
  BY <1>4, <1>5 DEF IsRun
<1>7. alien.trusted = FALSE
  BY <1>6 DEF IsRun
<1> HIDE DEF alien
<1>8. TrustedRuns(t) = TrustedRuns(s) \cup {next} /\ TrustedRuns(u) = TrustedRuns(s)
  BY <1>1, <1>6, <1>7 DEF TrustedRuns
<1>9. ~gate(t, Jobs)
  <2>1. latest_ci_run(t) = next
    BY <1>3, <1>6, <1>8, NewestChanges DEF r
  <2> QED BY <1>6, <2>1, OpenGate
<1>10. gate(u, Jobs)
  <2>1. assess(u) = assess(s)
    BY <1>2, ReadsOnlyCodex DEF CodexReviews, CodexComments, CodexInline
  <2>2. latest_ci_run(u) = latest_ci_run(s)
    BY <1>8 DEF latest_ci_run
  <2>3. assess_ci(u, Jobs) = assess_ci(s, Jobs)
    BY <1>8, <2>2 DEF assess_ci
  <2>4. sensitive_files(u) = sensitive_files(s) /\ (sensitive_approved(u) <=> sensitive_approved(s))
    BY <1>2 DEF sensitive_files, sensitive_approved
  <2> QED BY <1>2, <2>1, <2>3, <2>4 DEF gate, security_ok
<1> QED BY <1>9, <1>10 DEF t, u, alien, next, r

(* Whatever runs, reviews, labels and files there are: a push closes the gate until CI,   *)
(* Codex and, for sensitive files, the owner have spoken of the new head, and a newer     *)
(* run of CI closes it until it is green.                                             *)
THEOREM ProofsAreOfTheHead ==
  ASSUME asked.kind = "gate" => IsSnapshot(asked.s) /\ Ordered(asked.s) /\ SaysClean(asked.s)
  PROVE  EachProofIsOfTheHead
<1> SUFFICES ASSUME asked.kind = "gate" PROVE EachProofIsOfTheHead
  BY DEF EachProofIsOfTheHead
<1> DEFINE s == asked.s
<1>1. IsSnapshot(s) /\ Ordered(s) /\ SaysClean(s)
  OBVIOUS
<1> HIDE DEF s
<1>2. /\ ~gate(MovedRuns(s), Jobs) /\ ~gate(MovedComments(s, {CleanComment}), Jobs)
      /\ s.files[1].now = "sensitive" => ~gate(MovedComments(s, {Approval}), Jobs)
      /\ gate(s, Jobs) => NewestRunDecides(s)
  BY <1>1, MovedRunsClose, MovedCodexCloses, MovedApprovalCloses, NewestRunCounts
<1> QED BY <1>2 DEF s, EachProofIsOfTheHead

--------------------------------------------------------------------------------
(* What is given to be used once: sessions of any length.                           *)

SessionSteps(calls, g, n) ==
  g = [i \in 0..n |-> IF i = 0 THEN [broker |-> NewBroker, answers |-> <<>>] ELSE InBand(g[i - 1], calls[i])]

(* The sessions of a broker, and the lives of a client, are what their recursion says. *)

LEMMA SessionThere ==
  ASSUME NEW calls
  PROVE  \A n \in Nat : \E g : SessionSteps(calls, g, n)
<1> DEFINE S == {n \in Nat : \E g : SessionSteps(calls, g, n)}
           s0 == [broker |-> NewBroker, answers |-> <<>>]
<1>1. 0 \in S
  <2> DEFINE h == [i \in 0..0 |-> s0]
  <2>1. SessionSteps(calls, h, 0)
    BY DEF SessionSteps
  <2> QED BY <2>1
<1>2. ASSUME NEW n \in Nat, NEW g, SessionSteps(calls, g, n)
      PROVE  \E h : SessionSteps(calls, h, n + 1)
  <2> DEFINE h == [i \in 0..(n + 1) |-> IF i <= n THEN g[i] ELSE InBand(g[n], calls[n + 1])]
  <2>1. SessionSteps(calls, h, n + 1)
    BY <1>2 DEF SessionSteps
  <2> QED BY <2>1
<1>3. Nat \subseteq S
  <2>1. \A n \in Nat : n \in S => n + 1 \in S
    BY <1>2
  <2> HIDE DEF S
  <2> QED BY <1>1, <2>1, AtEveryLength
<1> QED BY <1>3

LEMMA SessionIs ==
  ASSUME NEW calls, Len(calls) \in Nat
  PROVE  SessionSteps(calls, SessionOf(calls), Len(calls))
<1> DEFINE G == CHOOSE g : SessionSteps(calls, g, Len(calls))
<1>1. SessionSteps(calls, G, Len(calls))
  BY SessionThere
<1>2. SessionOf(calls) = G
  BY DEF SessionOf, SessionSteps
<1> QED BY <1>1, <1>2

--------------------------------------------------------------------------------
(* In-band tokens.                                                                 *)

IsSession(calls) ==
  /\ \E S : calls \in Seq(S)
  /\ \A i \in DOMAIN calls : calls[i].at \in Int /\ (calls[i].tool = "restart" => calls[i].approval = None)

After(calls, n)  == SessionOf(calls)[n]
AnsweredTo(calls, i) == After(calls, i).answers[i]
AskedBy(calls, n)  == {k \in 1..n : AnsweredTo(calls, k) = "asked"}
TokenOf(calls, j)  == Cardinality(AskedBy(calls, j))

\* The token issued at j is good for one more call after n of them.
Live(calls, j, t, n) ==
  /\ j \in AskedBy(calls, n) /\ t = TokenOf(calls, j)
  /\ \A k \in (j + 1)..n : calls[k].tool # "restart" /\ calls[k].approval # t

TokenFor(call) == [tool |-> call.tool, hash |-> canonical_args_hash(call), exp |-> call.at + Ttl]

TokensInv(calls, n) ==
  LET broker == After(calls, n).broker
  IN  /\ DOMAIN broker = {"tokens", "issued"}
      /\ broker.issued = TokenOf(calls, n)
      /\ \A t : t \in DOMAIN broker.tokens <=> \E j \in 1..n : Live(calls, j, t, n)
      /\ \A t : \A j \in 1..n : Live(calls, j, t, n) => broker.tokens[t] = TokenFor(calls[j])

AnswersInv(calls, n) ==
  /\ After(calls, n).answers \in [1..n -> {"restarted", "asked", "approved", "expired", "invalid"}]
  /\ \A i \in 1..n : After(calls, n).answers[i] = AnsweredTo(calls, i)

LEMMA AfterIs ==
  ASSUME NEW calls, IsSession(calls)
  PROVE  /\ Len(calls) \in Nat /\ DOMAIN calls = 1..Len(calls)
         /\ After(calls, 0) = [broker |-> NewBroker, answers |-> <<>>]
         /\ \A i \in 1..Len(calls) : After(calls, i) = InBand(After(calls, i - 1), calls[i])
<1>1. Len(calls) \in Nat /\ DOMAIN calls = 1..Len(calls)
  BY DEF IsSession
<1>2. SessionSteps(calls, SessionOf(calls), Len(calls))
  BY <1>1, SessionIs
<1> QED BY <1>1, <1>2 DEF SessionSteps, After

LEMMA OneMore ==
  ASSUME NEW S, NEW n \in Nat, NEW q \in [1..n -> S], NEW x \in S
  PROVE  /\ Append(q, x) \in [1..(n + 1) -> S]
         /\ \A i \in 1..n : Append(q, x)[i] = q[i]
         /\ Append(q, x)[n + 1] = x
<1>1. q \in Seq(S) /\ Len(q) = n
  OBVIOUS
<1>2. Append(q, x) \in Seq(S) /\ Len(Append(q, x)) = n + 1
  BY <1>1
<1>3. Append(q, x) \in [1..(n + 1) -> S]
  BY <1>2, LenProperties
<1>4. \A i \in 1..n : Append(q, x)[i] = q[i]
  BY <1>1, AppendProperties
<1>5. Append(q, x)[n + 1] = x
  BY <1>1, AppendProperties
<1> QED BY <1>3, <1>4, <1>5

LEMMA Said ==
  ASSUME NEW session, NEW call, NEW n \in Nat,
         session.answers \in [1..n -> {"restarted", "asked", "approved", "expired", "invalid"}]
  PROVE  LET next == InBand(session, call) IN
         /\ next.answers \in [1..(n + 1) -> {"restarted", "asked", "approved", "expired", "invalid"}]
         /\ \A i \in 1..n : next.answers[i] = session.answers[i]
         /\ next.answers[n + 1] = IF call.tool = "restart" THEN "restarted"
                                  ELSE IF call.approval = None THEN "asked" ELSE Outcome(session.broker, call)
<1> DEFINE says == {"restarted", "asked", "approved", "expired", "invalid"}
           said == IF call.tool = "restart" THEN "restarted"
                   ELSE IF call.approval = None THEN "asked" ELSE Outcome(session.broker, call)
<1>1. Outcome(session.broker, call) \in says
  BY DEF Outcome
<1>2. said \in says
  BY <1>1
<1>3. InBand(session, call).answers = Append(session.answers, said)
  BY DEF InBand
<1>4. PICK q \in [1..n -> says] : q = session.answers
  OBVIOUS
<1> HIDE DEF says, said
<1>8. q \in [1..n -> says]
  BY <1>4
<1>5. Append(q, said) \in [1..(n + 1) -> says]
  BY <1>2, <1>8, OneMore
<1>6. \A i \in 1..n : Append(q, said)[i] = q[i]
  BY <1>2, <1>8, OneMore
<1>7. Append(q, said)[n + 1] = said
  BY <1>2, <1>8, OneMore
<1> QED BY <1>3, <1>4, <1>5, <1>6, <1>7 DEF says, said

LEMMA AnswersHold ==
  ASSUME NEW calls, IsSession(calls)
  PROVE  \A n \in 0..Len(calls) : AnswersInv(calls, n)
<1> DEFINE S == {n \in Nat : n <= Len(calls) => AnswersInv(calls, n)}
<1>1. 0 \in S
  <2>1. After(calls, 0).answers = <<>>
    BY AfterIs
  <2>2. <<>> \in [1..0 -> {"restarted", "asked", "approved", "expired", "invalid"}]
    OBVIOUS
  <2>3. \A i \in 1..0 : After(calls, 0).answers[i] = AnsweredTo(calls, i)
    OBVIOUS
  <2>4. AnswersInv(calls, 0)
    BY <2>1, <2>2, <2>3, Zenon DEF AnswersInv
  <2> QED BY <2>4
<1>2. ASSUME NEW n \in Nat, n + 1 <= Len(calls), AnswersInv(calls, n)
      PROVE  AnswersInv(calls, n + 1)
  <2>1. After(calls, n + 1) = InBand(After(calls, n), calls[n + 1])
    <3>1. n + 1 \in 1..Len(calls) /\ (n + 1) - 1 = n
      BY <1>2, AfterIs
    <3> QED BY <3>1, AfterIs
  <2>2. /\ After(calls, n + 1).answers \in [1..(n + 1) -> {"restarted", "asked", "approved", "expired", "invalid"}]
        /\ \A i \in 1..n : After(calls, n + 1).answers[i] = After(calls, n).answers[i]
    BY <1>2, <2>1, Said DEF AnswersInv
  <2>3. \A i \in 1..(n + 1) : i \in 1..n \/ i = n + 1
    OBVIOUS
  <2> QED BY <1>2, <2>2, <2>3 DEF AnswersInv, AnsweredTo
<1>3. Nat \subseteq S
  <2>1. \A n \in Nat : n \in S => n + 1 \in S
    BY <1>2, AfterIs
  <2> HIDE DEF S
  <2> QED BY <1>1, <2>1, AtEveryLength
<1> QED BY <1>3, AfterIs

LEMMA Answered ==
  ASSUME NEW calls, IsSession(calls), NEW i \in 1..Len(calls)
  PROVE  AnsweredTo(calls, i) = IF calls[i].tool = "restart" THEN "restarted"
                            ELSE IF calls[i].approval = None THEN "asked"
                            ELSE Outcome(After(calls, i - 1).broker, calls[i])
<1>1. i - 1 \in 0..Len(calls) /\ i - 1 \in Nat /\ (i - 1) + 1 = i
  BY AfterIs
<1>2. AnswersInv(calls, i - 1) /\ After(calls, i) = InBand(After(calls, i - 1), calls[i])
  BY <1>1, AnswersHold, AfterIs
<1>3. After(calls, i).answers[(i - 1) + 1] =
        IF calls[i].tool = "restart" THEN "restarted"
        ELSE IF calls[i].approval = None THEN "asked" ELSE Outcome(After(calls, i - 1).broker, calls[i])
  BY <1>1, <1>2, Said DEF AnswersInv
<1> QED BY <1>1, <1>3 DEF AnsweredTo

\* Tokens are numbered in the order they are issued.
LEMMA TokensCount ==
  ASSUME NEW calls, NEW n \in Nat
  PROVE  /\ TokenOf(calls, n) \in Nat
         /\ \A j \in 1..n : TokenOf(calls, j) <= TokenOf(calls, n)
         /\ TokenOf(calls, n + 1) = TokenOf(calls, n) + (IF AnsweredTo(calls, n + 1) = "asked" THEN 1 ELSE 0)
<1>1. \A j \in Nat : IsFiniteSet(AskedBy(calls, j))
  <2> TAKE j \in Nat
  <2>1. IsFiniteSet(1..j) /\ AskedBy(calls, j) \subseteq 1..j
    BY FS_Interval DEF AskedBy
  <2> QED BY <2>1, FS_Subset
<1>2. TokenOf(calls, n) \in Nat
  BY <1>1, FS_CardinalityType DEF TokenOf
<1>3. ASSUME NEW j \in 1..n PROVE TokenOf(calls, j) <= TokenOf(calls, n)
  <2>1. AskedBy(calls, j) \subseteq AskedBy(calls, n)
    BY DEF AskedBy
  <2> QED BY <1>1, <2>1, FS_Subset DEF TokenOf
<1>4. CASE AnsweredTo(calls, n + 1) = "asked"
  <2>1. AskedBy(calls, n + 1) = AskedBy(calls, n) \cup {n + 1} /\ n + 1 \notin AskedBy(calls, n)
    BY <1>4 DEF AskedBy
  <2> QED BY <1>1, <1>2, <1>3, <1>4, <2>1, FS_AddElement DEF TokenOf
<1>5. CASE AnsweredTo(calls, n + 1) # "asked"
  <2>1. AskedBy(calls, n + 1) = AskedBy(calls, n)
    BY <1>5 DEF AskedBy
  <2> QED BY <1>2, <1>3, <1>5, <2>1 DEF TokenOf
<1> QED BY <1>4, <1>5

\* What one more call does to what is live.
LEMMA StillLive ==
  ASSUME NEW calls, NEW n \in Nat, NEW j \in 1..n, NEW t
  PROVE  Live(calls, j, t, n + 1) <=>
           Live(calls, j, t, n) /\ calls[n + 1].tool # "restart" /\ calls[n + 1].approval # t
<1>1. \A k : k \in (j + 1)..(n + 1) <=> k \in (j + 1)..n \/ k = n + 1
  OBVIOUS
<1>2. j \in AskedBy(calls, n + 1) <=> j \in AskedBy(calls, n)
  BY DEF AskedBy
<1> QED BY <1>1, <1>2 DEF Live

LEMMA NewlyLive ==
  ASSUME NEW calls, NEW n \in Nat, NEW t
  PROVE  Live(calls, n + 1, t, n + 1) <=> AnsweredTo(calls, n + 1) = "asked" /\ t = TokenOf(calls, n + 1)
BY DEF Live, AskedBy

LEMMA TokensStep ==
  ASSUME NEW calls, IsSession(calls), NEW n \in Nat, n + 1 <= Len(calls), TokensInv(calls, n)
  PROVE  TokensInv(calls, n + 1)
<1> DEFINE before == After(calls, n).broker
           after  == After(calls, n + 1).broker
           call   == calls[n + 1]
<1>1. n + 1 \in 1..Len(calls) /\ (n + 1) - 1 = n
  BY AfterIs
<1>2. After(calls, n + 1) = InBand(After(calls, n), call)
  BY <1>1, AfterIs
<1>3. AnsweredTo(calls, n + 1) = IF call.tool = "restart" THEN "restarted"
                             ELSE IF call.approval = None THEN "asked" ELSE Outcome(before, call)
  BY <1>1, Answered
<1>4. Outcome(before, call) # "asked"
  BY DEF Outcome
<1>5. \A t : \A j \in 1..(n + 1) : Live(calls, j, t, n + 1) <=>
        \/ j \in 1..n /\ Live(calls, j, t, n) /\ call.tool # "restart" /\ call.approval # t
        \/ j = n + 1 /\ AnsweredTo(calls, n + 1) = "asked" /\ t = TokenOf(calls, n + 1)
  <2>1. \A j \in 1..(n + 1) : (j \in 1..n /\ j # n + 1) \/ (j = n + 1 /\ j \notin 1..n)
    OBVIOUS
  <2> QED BY <2>1, StillLive, NewlyLive
<1>6. \A t : \A j \in 1..n : Live(calls, j, t, n) => t \in Nat /\ t <= TokenOf(calls, n)
  BY TokensCount DEF Live
<1>7. TokenOf(calls, n) \in Nat
  BY TokensCount
<1>8. \A t : t \in DOMAIN before.tokens <=> \E j \in 1..n : Live(calls, j, t, n)
  BY DEF TokensInv
<1>9. \A t : \A j \in 1..n : Live(calls, j, t, n) => before.tokens[t] = TokenFor(calls[j])
  BY DEF TokensInv
<1>10. before.issued = TokenOf(calls, n)
  BY DEF TokensInv
<1>11. \A j \in 1..n : j \in 1..(n + 1)
  OBVIOUS
<1>12. CASE call.tool = "restart"
  <2>1. after.issued = before.issued /\ DOMAIN after.tokens = {} /\ DOMAIN after = {"tokens", "issued"}
    BY <1>2, <1>12 DEF InBand, NewBroker
  <2>2. TokenOf(calls, n + 1) = TokenOf(calls, n) + 0
    <3>1. AnsweredTo(calls, n + 1) # "asked"
      BY <1>3, <1>12
    <3> QED BY <3>1, TokensCount
  <2>3. \A t : \A j \in 1..(n + 1) : ~Live(calls, j, t, n + 1)
    BY <1>3, <1>5, <1>12
  <2> QED BY <1>2, <1>7, <1>10, <1>12, <2>1, <2>2, <2>3 DEF TokensInv, InBand, NewBroker
<1>13. CASE call.tool # "restart" /\ call.approval = None
  <2> DEFINE token == before.issued + 1
  <2>1. /\ after.issued = token /\ DOMAIN after = {"tokens", "issued"}
        /\ after.tokens = [t \in DOMAIN before.tokens \cup {token} |-> IF t = token THEN TokenFor(call) ELSE before.tokens[t]]
    BY <1>2, <1>13 DEF InBand, issue_in_band_token, NewToken, TokenFor
  <2>2. TokenOf(calls, n + 1) = token /\ AnsweredTo(calls, n + 1) = "asked"
    BY <1>3, <1>7, <1>10, <1>13, TokensCount
  <2>3. \A t : \A j \in 1..n : Live(calls, j, t, n) => t # token /\ t # call.approval
    BY <1>6, <1>7, <1>10, <1>13, TokensAssumption
  <2>4. \A t : \A j \in 1..(n + 1) : Live(calls, j, t, n + 1) <=>
          \/ j \in 1..n /\ Live(calls, j, t, n)
          \/ j = n + 1 /\ t = token
    BY <1>5, <1>13, <2>2, <2>3
  <2>5. n + 1 \in 1..(n + 1)
    OBVIOUS
  <2> HIDE DEF token
  <2>6. \A t : t \in DOMAIN after.tokens <=> \E j \in 1..(n + 1) : Live(calls, j, t, n + 1)
    BY <1>8, <1>11, <2>1, <2>4, <2>5
  <2>7. ASSUME NEW t, NEW j \in 1..(n + 1), Live(calls, j, t, n + 1)
        PROVE  after.tokens[t] = TokenFor(calls[j])
    BY <1>8, <1>9, <2>1, <2>3, <2>4, <2>7
  <2> QED BY <2>1, <2>2, <2>6, <2>7 DEF TokensInv
<1>14. CASE call.tool # "restart" /\ call.approval # None
  <2>1. /\ after.issued = before.issued /\ DOMAIN after = {"tokens", "issued"}
        /\ after.tokens = [t \in DOMAIN before.tokens \ {call.approval} |-> before.tokens[t]]
    BY <1>2, <1>14 DEF InBand, Spent, TokensInv
  <2>2. TokenOf(calls, n + 1) = TokenOf(calls, n) /\ AnsweredTo(calls, n + 1) # "asked"
    BY <1>3, <1>4, <1>7, <1>14, TokensCount
  <2>3. \A t : \A j \in 1..(n + 1) : Live(calls, j, t, n + 1) <=>
          j \in 1..n /\ Live(calls, j, t, n) /\ call.approval # t
    BY <1>5, <1>14, <2>2
  <2>4. \A t : t \in DOMAIN after.tokens <=> \E j \in 1..(n + 1) : Live(calls, j, t, n + 1)
    BY <1>8, <1>11, <2>1, <2>3
  <2>5. ASSUME NEW t, NEW j \in 1..(n + 1), Live(calls, j, t, n + 1)
        PROVE  after.tokens[t] = TokenFor(calls[j])
    BY <1>8, <1>9, <2>1, <2>3, <2>5
  <2> QED BY <1>10, <2>1, <2>2, <2>4, <2>5 DEF TokensInv
<1> QED BY <1>12, <1>13, <1>14

LEMMA TokensHold ==
  ASSUME NEW calls, IsSession(calls)
  PROVE  \A n \in 0..Len(calls) : TokensInv(calls, n)
<1> DEFINE S == {n \in Nat : n <= Len(calls) => TokensInv(calls, n)}
<1>1. TokensInv(calls, 0)
  <2>1. /\ After(calls, 0).broker.issued = 0 /\ DOMAIN After(calls, 0).broker.tokens = {}
        /\ DOMAIN After(calls, 0).broker = {"tokens", "issued"}
    BY AfterIs DEF NewBroker
  <2>2. AskedBy(calls, 0) = {}
    BY DEF AskedBy
  <2>3. TokenOf(calls, 0) = 0
    BY <2>2, FS_EmptySet DEF TokenOf
  <2>4. ~\E j \in 1..0 : TRUE
    OBVIOUS
  <2> QED BY <2>1, <2>3, <2>4 DEF TokensInv
<1>2. Nat \subseteq S
  <2>1. \A n \in Nat : n \in S => n + 1 \in S
    BY TokensStep, AfterIs
  <2>2. 0 \in S
    BY <1>1
  <2> HIDE DEF S
  <2> QED BY <2>1, <2>2, AtEveryLength
<1> QED BY <1>2, AfterIs

(* A call that shows a token goes through exactly when the token was given to the      *)
(* identical call, no longer ago than it lives, and nobody has shown it since.         *)
THEOREM TokensSpentOnce ==
  ASSUME asked.kind = "tokens" => IsSession(asked.calls)
  PROVE  TokenIsSpentOnce
<1> SUFFICES ASSUME asked.kind = "tokens" PROVE TokenIsSpentOnce
  BY DEF TokenIsSpentOnce
<1> DEFINE calls == asked.calls
           answers == AnswersTo(calls)
<1>1. IsSession(calls)
  OBVIOUS
<1>2. Len(calls) \in Nat /\ DOMAIN calls = 1..Len(calls)
  BY <1>1, AfterIs
<1>3. \A i \in 1..Len(calls) : answers[i] = AnsweredTo(calls, i)
  BY <1>1, <1>2, AnswersHold DEF AnswersInv, AnswersTo, After
<1>4. \A j \in 1..Len(calls) : {k \in 1..j : answers[k] = "asked"} = AskedBy(calls, j)
  BY <1>2, <1>3 DEF AskedBy
<1> HIDE DEF answers, calls
<1>5. ASSUME NEW i \in 1..Len(calls)
      PROVE  AnsweredTo(calls, i) = "approved" <=>
               /\ calls[i].approval # None
               /\ \E j \in 1..(i - 1) : /\ Live(calls, j, calls[i].approval, i - 1)
                                        /\ calls[i].at <= calls[j].at + Ttl
                                        /\ calls[j].tool = calls[i].tool /\ calls[j].args = calls[i].args
  <2> DEFINE call == calls[i]
             broker == After(calls, i - 1).broker
  <2>1. AnsweredTo(calls, i) = IF call.tool = "restart" THEN "restarted"
                           ELSE IF call.approval = None THEN "asked" ELSE Outcome(broker, call)
    BY <1>1, Answered
  <2>2. call.tool = "restart" => call.approval = None
    BY <1>1, <1>2 DEF IsSession
  <2>3. i - 1 \in 0..Len(calls) /\ \A j \in 1..(i - 1) : j \in 1..Len(calls)
    BY <1>2
  <2>4. TokensInv(calls, i - 1)
    BY <1>1, <2>3, TokensHold
  <2>5. call.at \in Int /\ \A j \in 1..(i - 1) : calls[j].at \in Int
    BY <1>1, <1>2, <2>3 DEF IsSession
  <2>6. Outcome(broker, call) = "approved" <=>
          /\ call.approval \in DOMAIN broker.tokens
          /\ ~(call.at > broker.tokens[call.approval].exp)
          /\ broker.tokens[call.approval].tool = call.tool
          /\ broker.tokens[call.approval].hash = canonical_args_hash(call)
    BY DEF Outcome
  <2>7. \A j \in 1..(i - 1) : Live(calls, j, call.approval, i - 1) =>
          /\ broker.tokens[call.approval] = TokenFor(calls[j])
          /\ call.approval \in DOMAIN broker.tokens
    BY <2>4 DEF TokensInv
  <2>8. \A j \in 1..(i - 1) :
          /\ TokenFor(calls[j]).tool = calls[j].tool
          /\ TokenFor(calls[j]).hash = canonical_args_hash(call) <=> calls[j].tool = call.tool /\ calls[j].args = call.args
          /\ TokenFor(calls[j]).exp = calls[j].at + Ttl
    BY DEF TokenFor, canonical_args_hash
  <2>9. \A j \in 1..(i - 1) : call.at > calls[j].at + Ttl <=> ~(call.at <= calls[j].at + Ttl)
    BY <2>5, TokensAssumption
  <2>10. call.approval \in DOMAIN broker.tokens => \E j \in 1..(i - 1) : Live(calls, j, call.approval, i - 1)
    BY <2>4 DEF TokensInv
  <2> HIDE DEF call, broker
  <2>11. Outcome(broker, call) = "approved" <=>
           \E j \in 1..(i - 1) : /\ Live(calls, j, call.approval, i - 1)
                                 /\ call.at <= calls[j].at + Ttl
                                 /\ calls[j].tool = call.tool /\ calls[j].args = call.args
    BY <2>6, <2>7, <2>8, <2>9, <2>10
  <2> QED BY <2>1, <2>2, <2>11 DEF call
<1>6. ASSUME NEW i \in 1..Len(calls), NEW j
      PROVE  /\ j \in {m \in DOMAIN calls : answers[m] = "asked"
                        /\ calls[i].approval = Cardinality({k \in 1..m : answers[k] = "asked"})}
             /\ j < i /\ \A k \in (j + 1)..(i - 1) : calls[k].tool # "restart" /\ calls[k].approval # calls[i].approval
             <=> j \in 1..(i - 1) /\ Live(calls, j, calls[i].approval, i - 1)
  <2>1. j \in 1..(i - 1) <=> j \in 1..Len(calls) /\ j < i
    BY <1>2
  <2>2. j \in 1..(i - 1) => (j \in AskedBy(calls, i - 1) <=> answers[j] = "asked")
    BY <1>2, <1>3 DEF AskedBy
  <2> QED BY <1>2, <1>4, <2>1, <2>2 DEF Live, TokenOf
<1>7. ASSUME NEW i \in DOMAIN calls
      PROVE  answers[i] = "approved" <=>
               /\ calls[i].approval # None
               /\ \E j \in {m \in DOMAIN calls : answers[m] = "asked"
                              /\ calls[i].approval = Cardinality({k \in 1..m : answers[k] = "asked"})} :
                    /\ j < i /\ calls[i].at <= calls[j].at + Ttl
                    /\ calls[j].tool = calls[i].tool /\ calls[j].args = calls[i].args
                    /\ \A k \in (j + 1)..(i - 1) : calls[k].tool # "restart" /\ calls[k].approval # calls[i].approval
  <2> DEFINE M == {m \in DOMAIN calls : answers[m] = "asked"
                     /\ calls[i].approval = Cardinality({k \in 1..m : answers[k] = "asked"})}
             Spares(j) == \A k \in (j + 1)..(i - 1) : calls[k].tool # "restart" /\ calls[k].approval # calls[i].approval
  <2>1. i \in 1..Len(calls)
    BY <1>2
  <2>2. \A j : j \in M /\ j < i /\ Spares(j) <=> j \in 1..(i - 1) /\ Live(calls, j, calls[i].approval, i - 1)
    BY <1>6, <2>1
  <2> HIDE DEF M, Spares
  <2>3. answers[i] = "approved" <=>
          /\ calls[i].approval # None
          /\ \E j \in M : /\ j < i /\ calls[i].at <= calls[j].at + Ttl
                          /\ calls[j].tool = calls[i].tool /\ calls[j].args = calls[i].args
                          /\ Spares(j)
    BY <1>3, <1>5, <2>1, <2>2
  <2> QED BY <2>3, Zenon DEF M, Spares
<1> QED BY <1>7, Zenon DEF TokenIsSpentOnce, calls, answers

--------------------------------------------------------------------------------
(* The probe's client.                                                             *)

ClientSteps(requests, g, n) ==
  g = [i \in 0..n |-> IF i = 0 THEN NewClient ELSE Request(g[i - 1], requests[i])]

LEMMA ClientThere ==
  ASSUME NEW requests
  PROVE  \A n \in Nat : \E g : ClientSteps(requests, g, n)
<1> DEFINE S == {n \in Nat : \E g : ClientSteps(requests, g, n)}
<1>1. 0 \in S
  <2> DEFINE h == [i \in 0..0 |-> NewClient]
  <2>1. ClientSteps(requests, h, 0)
    BY DEF ClientSteps
  <2> QED BY <2>1
<1>2. ASSUME NEW n \in Nat, NEW g, ClientSteps(requests, g, n)
      PROVE  \E h : ClientSteps(requests, h, n + 1)
  <2> DEFINE h == [i \in 0..(n + 1) |-> IF i <= n THEN g[i] ELSE Request(g[n], requests[n + 1])]
  <2>1. ClientSteps(requests, h, n + 1)
    BY <1>2 DEF ClientSteps
  <2> QED BY <2>1
<1>3. Nat \subseteq S
  <2>1. \A n \in Nat : n \in S => n + 1 \in S
    BY <1>2
  <2> HIDE DEF S
  <2> QED BY <1>1, <2>1, AtEveryLength
<1> QED BY <1>3

LEMMA ClientIs ==
  ASSUME NEW requests, Len(requests) \in Nat
  PROVE  ClientSteps(requests, ClientOf(requests), Len(requests))
<1> DEFINE G == CHOOSE g : ClientSteps(requests, g, Len(requests))
<1>1. ClientSteps(requests, G, Len(requests))
  BY ClientThere
<1>2. ClientOf(requests) = G
  BY DEF ClientOf, ClientSteps
<1> QED BY <1>1, <1>2

\* What there is of a number and of a body.
IsNumber(v) == v \notin {None, Malformed} => v = [is |-> v.is, n |-> v.n]

IsBody(b) ==
  b \notin {None, Malformed} =>
    /\ b = [keys |-> b.keys, start |-> b.start, length |-> b.length, filters |-> b.filters,
            sorts |-> b.sorts, switches |-> b.switches]
    /\ IsNumber(b.start) /\ IsNumber(b.length)
    /\ "sorts" \notin b.keys => b.sorts = <<>>
    /\ b.keys \cap QueryBodyKeys # {} => b.switches = TRUE

IsRequests(requests) ==
  /\ \E S : requests \in Seq(S)
  /\ \A i \in DOMAIN requests :
       /\ \E S : requests[i].path \in Seq(S)
       /\ IsBody(requests[i].body)
       /\ Received(requests[i].wire) # None

ClientAfter(requests, n) == ClientOf(requests)[n]

\* Whether a request is sent.
Passes(requests, i) ==
  LET r == requests[i]
  IN  /\ r.headers \subseteq FormatHeaders
      /\ Check(ClientAfter(requests, i - 1), r, r.params \cup IF r.defaults THEN DefaultParams ELSE {})

SentBy(requests, n) == {i \in 1..n : Passes(requests, i)}

Result(requests, i) == IF Passes(requests, i) THEN Received(requests[i].wire) ELSE None

ClientInv(requests, n) ==
  LET client == ClientAfter(requests, n)
      Possible == {None} \cup {Received(requests[i].wire) : i \in DOMAIN requests}
  IN  /\ client.results \in [1..n -> Possible]
      /\ \A i \in 1..n : client.results[i] = Result(requests, i)
      /\ client.spent <=> \E i \in SentBy(requests, n) : Target(requests[i].path) = ExecutionQueryPath
      /\ client.requests_sent = Cardinality(SentBy(requests, n))
      /\ client.refused = n - Cardinality(SentBy(requests, n))
      /\ client = [spent |-> client.spent, requests_sent |-> client.requests_sent, refused |-> client.refused,
                   results |-> client.results]

LEMMA ClientAfterIs ==
  ASSUME NEW requests, IsRequests(requests)
  PROVE  /\ Len(requests) \in Nat /\ DOMAIN requests = 1..Len(requests)
         /\ ClientAfter(requests, 0) = NewClient
         /\ \A i \in 1..Len(requests) :
              ClientAfter(requests, i) = Request(ClientAfter(requests, i - 1), requests[i])
<1>1. Len(requests) \in Nat /\ DOMAIN requests = 1..Len(requests)
  BY DEF IsRequests
<1>2. ClientSteps(requests, ClientOf(requests), Len(requests))
  BY <1>1, ClientIs
<1> QED BY <1>1, <1>2 DEF ClientSteps, ClientAfter

LEMMA SentCount ==
  ASSUME NEW requests, NEW n \in Nat
  PROVE  /\ IsFiniteSet(SentBy(requests, n)) /\ Cardinality(SentBy(requests, n)) \in Nat
         /\ SentBy(requests, n + 1) = SentBy(requests, n) \cup (IF Passes(requests, n + 1) THEN {n + 1} ELSE {})
         /\ Cardinality(SentBy(requests, n + 1)) =
              Cardinality(SentBy(requests, n)) + (IF Passes(requests, n + 1) THEN 1 ELSE 0)
<1>1. IsFiniteSet(SentBy(requests, n)) /\ Cardinality(SentBy(requests, n)) \in Nat
  <2>1. IsFiniteSet(1..n) /\ SentBy(requests, n) \subseteq 1..n
    BY FS_Interval DEF SentBy
  <2> QED BY <2>1, FS_Subset, FS_CardinalityType
<1>2. n + 1 \notin SentBy(requests, n)
  BY DEF SentBy
<1>3. SentBy(requests, n + 1) = SentBy(requests, n) \cup (IF Passes(requests, n + 1) THEN {n + 1} ELSE {})
  BY DEF SentBy
<1>4. CASE Passes(requests, n + 1)
  BY <1>1, <1>2, <1>3, <1>4, FS_AddElement
<1>5. CASE ~Passes(requests, n + 1)
  BY <1>1, <1>3, <1>5
<1> QED BY <1>4, <1>5

LEMMA ClientStep ==
  ASSUME NEW requests, IsRequests(requests), NEW n \in Nat, n + 1 <= Len(requests), ClientInv(requests, n)
  PROVE  ClientInv(requests, n + 1)
<1> DEFINE before == ClientAfter(requests, n)
           after  == ClientAfter(requests, n + 1)
           r      == requests[n + 1]
           Possible == {None} \cup {Received(requests[i].wire) : i \in DOMAIN requests}
           result == Result(requests, n + 1)
<1>1. n + 1 \in 1..Len(requests) /\ (n + 1) - 1 = n /\ n + 1 \in DOMAIN requests
  BY ClientAfterIs
<1>2. after = Request(before, r)
  BY <1>1, ClientAfterIs
<1>3. after = IF Passes(requests, n + 1)
              THEN [before EXCEPT !.spent = SpentAfter(before, r), !.requests_sent = @ + 1,
                                  !.results = Append(@, Received(r.wire))]
              ELSE [before EXCEPT !.refused = @ + 1, !.results = Append(@, None)]
  BY <1>1, <1>2 DEF Request, Passes
<1>4. result \in Possible
  BY <1>1 DEF Result
<1>5. before = [spent |-> before.spent, requests_sent |-> before.requests_sent, refused |-> before.refused,
                results |-> before.results]
  BY DEF ClientInv
<1>6. /\ after.results = Append(before.results, result)
      /\ after.spent = IF Passes(requests, n + 1) THEN SpentAfter(before, r) ELSE before.spent
      /\ after.requests_sent = IF Passes(requests, n + 1) THEN before.requests_sent + 1 ELSE before.requests_sent
      /\ after.refused = IF Passes(requests, n + 1) THEN before.refused ELSE before.refused + 1
      /\ after = [spent |-> after.spent, requests_sent |-> after.requests_sent, refused |-> after.refused,
                  results |-> after.results]
  <2> HIDE DEF before, after
  <2> QED BY <1>3, <1>5 DEF Result
<1>7. /\ before.results \in [1..n -> Possible]
      /\ \A i \in 1..n : before.results[i] = Result(requests, i)
  BY DEF ClientInv
<1>8. /\ after.results \in [1..(n + 1) -> Possible]
      /\ \A i \in 1..(n + 1) : after.results[i] = Result(requests, i)
  <2>1. PICK q : q = before.results
    OBVIOUS
  <2>2. q \in [1..n -> Possible] /\ \A i \in 1..n : q[i] = Result(requests, i)
    BY <1>7, <2>1
  <2>3. after.results = Append(q, result)
    BY <1>6, <2>1
  <2> HIDE DEF Possible, result, before, after
  <2>4. Append(q, result) \in [1..(n + 1) -> Possible]
    BY <1>4, <2>2, OneMore
  <2>5. \A i \in 1..n : Append(q, result)[i] = q[i]
    BY <1>4, <2>2, OneMore
  <2>6. Append(q, result)[n + 1] = result
    BY <1>4, <2>2, OneMore
  <2>7. \A i \in 1..(n + 1) : i \in 1..n \/ i = n + 1
    OBVIOUS
  <2> QED BY <2>2, <2>3, <2>4, <2>5, <2>6, <2>7 DEF result
<1>9. after.spent <=> \E i \in SentBy(requests, n + 1) : Target(requests[i].path) = ExecutionQueryPath
  <2>1. before.spent <=> \E i \in SentBy(requests, n) : Target(requests[i].path) = ExecutionQueryPath
    BY DEF ClientInv
  <2>2. SentBy(requests, n + 1) = SentBy(requests, n) \cup (IF Passes(requests, n + 1) THEN {n + 1} ELSE {})
    BY SentCount
  <2> HIDE DEF before, after
  <2> QED BY <1>6, <2>1, <2>2 DEF SpentAfter, r
<1>10. /\ after.requests_sent = Cardinality(SentBy(requests, n + 1))
       /\ after.refused = (n + 1) - Cardinality(SentBy(requests, n + 1))
  <2>1. before.requests_sent = Cardinality(SentBy(requests, n)) /\ before.refused = n - Cardinality(SentBy(requests, n))
    BY DEF ClientInv
  <2>2. /\ Cardinality(SentBy(requests, n)) \in Nat
        /\ Cardinality(SentBy(requests, n + 1)) =
             Cardinality(SentBy(requests, n)) + (IF Passes(requests, n + 1) THEN 1 ELSE 0)
    BY SentCount
  <2> HIDE DEF before, after
  <2>3. CASE Passes(requests, n + 1)
    BY <1>6, <2>1, <2>2, <2>3
  <2>4. CASE ~Passes(requests, n + 1)
    BY <1>6, <2>1, <2>2, <2>4
  <2> QED BY <2>3, <2>4
<1> QED BY <1>6, <1>8, <1>9, <1>10 DEF ClientInv

LEMMA ClientHolds ==
  ASSUME NEW requests, IsRequests(requests)
  PROVE  \A n \in 0..Len(requests) : ClientInv(requests, n)
<1> DEFINE S == {n \in Nat : n <= Len(requests) => ClientInv(requests, n)}
<1>1. ClientInv(requests, 0)
  <2>1. SentBy(requests, 0) = {}
    BY DEF SentBy
  <2>2. Cardinality(SentBy(requests, 0)) = 0
    BY <2>1, FS_EmptySet
  <2>3. ClientAfter(requests, 0) = NewClient
    BY ClientAfterIs
  <2>4. NewClient.results \in [1..0 -> {None} \cup {Received(requests[i].wire) : i \in DOMAIN requests}]
    BY DEF NewClient
  <2>5. \A i \in 1..0 : NewClient.results[i] = Result(requests, i)
    OBVIOUS
  <2>6. /\ ~NewClient.spent /\ NewClient.requests_sent = 0 /\ NewClient.refused = 0 - 0
        /\ NewClient = [spent |-> NewClient.spent, requests_sent |-> NewClient.requests_sent,
                        refused |-> NewClient.refused, results |-> NewClient.results]
    BY DEF NewClient
  <2> QED BY <2>1, <2>2, <2>3, <2>4, <2>5, <2>6, Zenon DEF ClientInv
<1>2. Nat \subseteq S
  <2>1. \A n \in Nat : n \in S => n + 1 \in S
    BY ClientStep, ClientAfterIs
  <2>2. 0 \in S
    BY <1>1
  <2> HIDE DEF S
  <2> QED BY <2>1, <2>2, AtEveryLength
<1> QED BY <1>2, ClientAfterIs

LEMMA SegmentsJoined ==
  ASSUME NEW S, NEW p \in Seq(S), NEW q \in Seq(S)
  PROVE  ToSet(p \o q) = ToSet(p) \cup ToSet(q)
<1>1. DOMAIN (p \o q) = 1..(Len(p) + Len(q))
  BY ConcatProperties, LenProperties
<1>2. \A i \in 1..(Len(p) + Len(q)) : (p \o q)[i] = IF i <= Len(p) THEN p[i] ELSE q[i - Len(p)]
  BY ConcatProperties
<1>3. DOMAIN p = 1..Len(p) /\ DOMAIN q = 1..Len(q)
  BY LenProperties
<1>4. Len(p) \in Nat /\ Len(q) \in Nat
  BY LenProperties
<1> DEFINE both == p \o q
           m == Len(p)
           k == Len(q)
<1>5. both = p \o q /\ m \in Nat /\ k \in Nat /\ DOMAIN p = 1..m /\ DOMAIN q = 1..k /\ DOMAIN both = 1..(m + k)
  BY <1>1, <1>3, <1>4
<1>6. \A i \in 1..(m + k) : both[i] = IF i <= m THEN p[i] ELSE q[i - m]
  BY <1>2
<1> HIDE DEF both, m, k
<1>7. \A i \in 1..(m + k) : (i \in 1..m /\ i <= m) \/ (i - m \in 1..k /\ ~(i <= m))
  BY <1>5
<1>8. \A i \in 1..m : i \in 1..(m + k) /\ i <= m
  BY <1>5
<1>9. \A i \in 1..k : i + m \in 1..(m + k) /\ ~(i + m <= m) /\ (i + m) - m = i
  BY <1>5
<1>10. ToSet(both) \subseteq ToSet(p) \cup ToSet(q)
  BY <1>5, <1>6, <1>7 DEF ToSet
<1>11. ToSet(p) \subseteq ToSet(both)
  BY <1>5, <1>6, <1>8 DEF ToSet
<1>12. ASSUME NEW i \in 1..k PROVE q[i] \in ToSet(both)
  <2>1. both[i + m] = q[i] /\ i + m \in DOMAIN both
    BY <1>5, <1>6, <1>9
  <2> QED BY <2>1 DEF ToSet
<1>13. ToSet(q) \subseteq ToSet(both)
  BY <1>5, <1>12 DEF ToSet
<1> QED BY <1>5, <1>10, <1>11, <1>13

LEMMA UnderPrefix ==
  ASSUME NEW S, "rest" \in S, "orgs" \in S, "org" \in S, NEW q \in Seq(S)
  PROVE  ToSet(Prefix \o q) = {"rest", "orgs", "org"} \cup ToSet(q)
<1>1. <<"rest", "orgs", "org">> \in Seq(S)
  OBVIOUS
<1>2. ToSet(<<"rest", "orgs", "org">>) = {"rest", "orgs", "org"}
  BY DEF ToSet
<1>3. ToSet(<<"rest", "orgs", "org">> \o q) = ToSet(<<"rest", "orgs", "org">>) \cup ToSet(q)
  BY <1>1, SegmentsJoined
<1> QED BY <1>2, <1>3 DEF Prefix

LEMMA SegmentsFixed ==
  /\ ToSet(ExportPath) = {"rest", "orgs", "org", "configurations", "exports"}
  /\ \A T \in QueryPaths : ToSet(T) \subseteq {"rest", "orgs", "org", "incidents", "playbooks", "query_paged"}
  /\ ToSet(ExecutionQueryPath) = {"rest", "orgs", "org", "playbooks", "execution", "query_paged"}
<1>1. ToSet(<<"configurations", "exports">>) = {"configurations", "exports"}
  BY DEF ToSet
<1>2. ToSet(<<"incidents", "query_paged">>) = {"incidents", "query_paged"}
  BY DEF ToSet
<1>3. ToSet(<<"playbooks", "query_paged">>) = {"playbooks", "query_paged"}
  BY DEF ToSet
<1>4. ToSet(<<"playbooks", "execution", "query_paged">>) = {"playbooks", "execution", "query_paged"}
  BY DEF ToSet
<1> DEFINE Words == {"rest", "orgs", "org", "configurations", "exports", "incidents", "playbooks", "execution", "query_paged"}
<1>5. \A q \in Seq(Words) : ToSet(Prefix \o q) = {"rest", "orgs", "org"} \cup ToSet(q)
  BY UnderPrefix
<1>6. <<"configurations", "exports">> \in Seq(Words)
  OBVIOUS
<1>7. <<"incidents", "query_paged">> \in Seq(Words) /\ <<"playbooks", "query_paged">> \in Seq(Words)
  OBVIOUS
<1>8. <<"playbooks", "execution", "query_paged">> \in Seq(Words)
  OBVIOUS
<1> HIDE DEF Words
<1>9. ToSet(ExportPath) = {"rest", "orgs", "org"} \cup {"configurations", "exports"}
  BY <1>1, <1>5, <1>6, Zenon DEF ExportPath
<1>10. /\ ToSet(Prefix \o <<"incidents", "query_paged">>) = {"rest", "orgs", "org"} \cup {"incidents", "query_paged"}
       /\ ToSet(Prefix \o <<"playbooks", "query_paged">>) = {"rest", "orgs", "org"} \cup {"playbooks", "query_paged"}
  BY <1>2, <1>3, <1>5, <1>7, Zenon
<1>11. \A T \in QueryPaths : ToSet(T) = {"rest", "orgs", "org"} \cup {"incidents", "query_paged"}
                              \/ ToSet(T) = {"rest", "orgs", "org"} \cup {"playbooks", "query_paged"}
  BY <1>10, Zenon DEF QueryPaths
<1>12. ToSet(ExecutionQueryPath) = {"rest", "orgs", "org"} \cup {"playbooks", "execution", "query_paged"}
  BY <1>4, <1>5, <1>8, Zenon DEF ExecutionQueryPath
<1> QED BY <1>9, <1>11, <1>12

LEMMA SegmentsOfTarget ==
  ASSUME NEW S, NEW path \in Seq(S)
  PROVE  ToSet(Target(path)) \subseteq ToSet(path) /\ ToSet(path) \subseteq ToSet(Target(path)) \cup {""}
<1>1. CASE path # <<>> /\ Last(path) = ""
  <2>1. PICK k \in Nat : k = Len(path)
    BY LenProperties
  <2>2. k # 0 /\ DOMAIN path = 1..k /\ path[k] = ""
    BY <1>1, <2>1, EmptySeq, LenProperties DEF Last
  <2>3. \A i \in 1..(k - 1) : path[i] \in S
    <3>1. \A i \in 1..Len(path) : path[i] \in S
      BY ElementOfSeq
    <3>2. \A i \in 1..(k - 1) : i \in 1..k
      OBVIOUS
    <3> QED BY <2>1, <3>1, <3>2
  <2>4. Target(path) = SubSeq(path, 1, k - 1)
    BY <1>1, <2>1 DEF Target, Front
  <2>5. PICK m \in Nat : m = k - 1
    <3>1. k \in Nat /\ k # 0
      BY <2>1, <2>2
    <3>2. k - 1 \in Nat
      BY <3>1
    <3> QED BY <3>2
  <2>9. \A i \in 1..m : path[i] \in S
    BY <2>3, <2>5
  <2>10. SubSeq(path, 1, m) \in Seq(S)
    BY <2>9, SubSeqProperties
  <2>11. Len(SubSeq(path, 1, m)) = m
    BY <2>9, SubSeqProperties
  <2>12. \A i \in 1..m : SubSeq(path, 1, m)[i] = path[i]
    BY <2>9, SubSeqProperties
  <2>6. DOMAIN Target(path) = 1..(k - 1) /\ \A i \in 1..(k - 1) : Target(path)[i] = path[i]
    BY <2>4, <2>5, <2>10, <2>11, <2>12, LenProperties
  <2>7. \A i \in 1..k : i \in 1..(k - 1) \/ i = k
    OBVIOUS
  <2>8. \A i \in 1..(k - 1) : i \in 1..k
    OBVIOUS
  <2> QED BY <2>2, <2>6, <2>7, <2>8 DEF ToSet
<1>2. CASE ~(path # <<>> /\ Last(path) = "")
  BY <1>2 DEF Target
<1> QED BY <1>1, <1>2

\* What a request that passes is.
LEMMA PassedIsSafe ==
  ASSUME NEW requests, IsRequests(requests), NEW i \in DOMAIN requests, Passes(requests, i)
  PROVE  /\ SentOnlyReads(requests[i])
         /\ requests[i].verb = "POST" /\ "execution" \in ToSet(requests[i].path) =>
              /\ Target(requests[i].path) = ExecutionQueryPath
              /\ requests[i].body = TheOne
              /\ ~ClientAfter(requests, i - 1).spent
<1> DEFINE r == requests[i]
           client == ClientAfter(requests, i - 1)
           query == r.params \cup IF r.defaults THEN DefaultParams ELSE {}
           search == {"rest", "orgs", "org", "incidents", "playbooks", "query_paged"}
<1>1. r.headers \subseteq FormatHeaders /\ Check(client, r, query)
  BY DEF Passes
<1>2. PICK S : r.path \in Seq(S)
  BY DEF IsRequests
<1>3. ToSet(Target(r.path)) \subseteq ToSet(r.path) /\ ToSet(r.path) \subseteq ToSet(Target(r.path)) \cup {""}
  BY <1>2, SegmentsOfTarget
<1>4. IsBody(r.body)
  BY DEF IsRequests
<1> HIDE DEF r, client
<1>5. \A h \in r.headers : h[1] # "x-method"
  BY <1>1 DEF FormatHeaders
<1>6. CASE r.verb = "GET"
  <2>1. r.body = None /\ Head(r.path) \in {"rest", "docs"}
    BY <1>1, <1>6 DEF Check
  <2> QED BY <1>5, <1>6, <2>1 DEF SentOnlyReads, r
<1>7. CASE r.verb # "GET"
  <2>1. r.verb = "POST" /\ query \subseteq PostQueryParams
    BY <1>1, <1>7 DEF Check
  <2>2. "force" \notin r.params
    BY <2>1 DEF PostQueryParams
  <2>3. CASE Target(r.path) = ExportPath /\ ExportBodyOK(r.body)
    <3>1. ToSet(r.path) \subseteq {"rest", "orgs", "org", "configurations", "exports", ""} /\ "exports" \in ToSet(r.path)
      BY <1>3, <2>3, SegmentsFixed
    <3>2. r.body.keys \subseteq {"layouts", "actions", "phases_and_tasks"} /\ r.body.switches
      BY <2>3 DEF ExportBodyOK, ExportBodyKeys
    <3> QED BY <1>5, <1>7, <2>1, <2>2, <3>1, <3>2 DEF SentOnlyReads, r
  <2>4. QueryBodyOK(r.body) => OnlySearches(r.body)
    <3>1. ASSUME QueryBodyOK(r.body)
          PROVE  r.body.keys \cap {"status", "layouts", "scripts"} = {} /\ r.body.length.n <= MaxQueryLength
      BY <3>1 DEF QueryBodyOK, QueryBodyKeys
    <3>2. ASSUME QueryBodyOK(r.body), "filters" \in r.body.keys, NEW m \in DOMAIN r.body.filters
          PROVE  /\ "close" \notin r.body.filters[m].keys
                 /\ \A k \in DOMAIN r.body.filters[m].conditions :
                      LET c == r.body.filters[m].conditions[k]
                      IN  "delete" \notin c.keys \cup {c.method} /\ c.value # "object"
      <4>1. GroupOK(r.body.filters[m])
        BY <3>2 DEF QueryBodyOK
      <4>2. \A k \in DOMAIN r.body.filters[m].conditions : ConditionOK(r.body.filters[m].conditions[k])
        BY <4>1 DEF GroupOK
      <4> QED BY <4>1, <4>2 DEF GroupOK, ConditionOK, ConditionKeys, ProbeSearchMethods
    <3> QED BY <3>1, <3>2 DEF OnlySearches
  <2>5. CASE Target(r.path) \in QueryPaths /\ QueryBodyOK(r.body)
    <3>1. ToSet(r.path) \subseteq search \cup {""}
      BY <1>3, <2>5, SegmentsFixed
    <3> QED BY <1>5, <1>7, <2>1, <2>2, <2>4, <2>5, <3>1 DEF SentOnlyReads, r
  <2>6. CASE Target(r.path) = ExecutionQueryPath /\ ExecutionOK(client, r.body)
    <3>1. ToSet(r.path) \subseteq search \cup {"execution", ""}
      BY <1>3, <2>6, SegmentsFixed
    <3>2. QueryBodyOK(r.body) /\ IsApproved(r.body) /\ ~client.spent
      BY <2>6 DEF ExecutionOK
    <3>3. r.body = TheOne
      <4>1. /\ r.body.keys = {"filters", "start", "length"} /\ r.body.filters = <<>>
            /\ r.body.start.n = 0 /\ r.body.length.n = 1
        BY <3>2 DEF IsApproved
      <4>2. IsInteger(r.body.start) /\ IsInteger(r.body.length)
        BY <3>2, <4>1 DEF QueryBodyOK
      <4>3. r.body.start = Number(0) /\ r.body.length = Number(1)
        BY <1>4, <3>2, <4>1, <4>2 DEF IsBody, IsNumber, IsInteger, Number, QueryBodyOK
      <4>4. r.body.sorts = <<>> /\ r.body.switches = TRUE
        BY <1>4, <3>2, <4>1 DEF IsBody, QueryBodyOK, QueryBodyKeys
      <4>5. r.body = [keys |-> r.body.keys, start |-> r.body.start, length |-> r.body.length,
                      filters |-> r.body.filters, sorts |-> r.body.sorts, switches |-> r.body.switches]
        BY <1>4, <3>2 DEF IsBody, QueryBodyOK
      <4>6. TheOne = [keys |-> {"filters", "start", "length"}, start |-> Number(0), length |-> Number(1),
                      filters |-> <<>>, sorts |-> <<>>, switches |-> TRUE]
        BY DEF TheOne
      <4> QED BY <4>1, <4>3, <4>4, <4>5, <4>6
    <3> QED BY <1>5, <1>7, <2>1, <2>2, <2>4, <2>6, <3>1, <3>2, <3>3 DEF SentOnlyReads, r, client
  <2> QED BY <1>1, <1>7, <2>3, <2>5, <2>6 DEF Check
<1> QED BY <1>6, <1>7

LEMMA NoneMadeUp ==
  ASSUME NEW wire
  PROVE  NothingMadeUp(wire, Received(wire))
<1>1. ASSUME Received(wire).json
      PROVE  /\ wire.breaks = "never" /\ Size(wire) <= MaxBytes /\ wire.text = "json"
             /\ ~Received(wire).truncated /\ ~Received(wire).error
  BY <1>1 DEF Received
<1> QED BY <1>1 DEF NothingMadeUp

(* What the probe's client sends only reads, and of the queries for executions there   *)
(* is one at most, whatever it is asked to send and whatever comes of it.              *)
THEOREM ProbesOnlyRead ==
  ASSUME asked.kind = "probe" => IsRequests(asked.requests)
  PROVE  ProbeOnlyReads
<1> SUFFICES ASSUME asked.kind = "probe" PROVE ProbeOnlyReads
  BY DEF ProbeOnlyReads
<1> DEFINE requests == asked.requests
           n == Len(requests)
           client == AfterRequests(requests)
           sent == {i \in DOMAIN requests : client.results[i] # None}
           executions == {i \in sent : requests[i].verb = "POST" /\ "execution" \in ToSet(requests[i].path)}
<1>1. IsRequests(requests)
  OBVIOUS
<1>2. n \in Nat /\ DOMAIN requests = 1..n
  BY <1>1, ClientAfterIs
<1>3. ClientInv(requests, n) /\ client = ClientAfter(requests, n)
  BY <1>1, <1>2, ClientHolds DEF AfterRequests, ClientAfter
<1> HIDE DEF client
<1>4. \A i \in 1..n : client.results[i] = Result(requests, i)
  BY <1>3 DEF ClientInv
<1>5. \A i \in 1..n : Received(requests[i].wire) # None
  BY <1>1, <1>2 DEF IsRequests
<1>6. sent = SentBy(requests, n)
  BY <1>2, <1>4, <1>5 DEF SentBy, Result
<1>7. client.requests_sent = Cardinality(sent) /\ client.refused = n - Cardinality(sent)
  BY <1>3, <1>6 DEF ClientInv
<1> HIDE DEF requests, sent
<1>8. \A i \in sent : i \in 1..n /\ i \in DOMAIN requests /\ Passes(requests, i)
  BY <1>2, <1>6 DEF SentBy
<1>9. \A i \in sent : SentOnlyReads(requests[i]) /\ NothingMadeUp(requests[i].wire, client.results[i])
  BY <1>1, <1>4, <1>8, PassedIsSafe, NoneMadeUp DEF Result
<1>10. ASSUME NEW i \in executions
       PROVE  /\ Target(requests[i].path) = ExecutionQueryPath /\ requests[i].body = TheOne
              /\ \A j \in sent : j < i => Target(requests[j].path) # ExecutionQueryPath
  <2>1. i \in sent /\ requests[i].verb = "POST" /\ "execution" \in ToSet(requests[i].path)
    OBVIOUS
  <2>2. /\ Target(requests[i].path) = ExecutionQueryPath /\ requests[i].body = TheOne
        /\ ~ClientAfter(requests, i - 1).spent
    BY <1>1, <1>8, <2>1, PassedIsSafe
  <2>3. i - 1 \in 0..n /\ i \in 1..n
    BY <1>2, <1>8, <2>1
  <2>4. ClientInv(requests, i - 1)
    BY <1>1, <2>3, ClientHolds
  <2>5. \A j \in SentBy(requests, i - 1) : Target(requests[j].path) # ExecutionQueryPath
    BY <2>2, <2>4 DEF ClientInv
  <2>6. \A j \in sent : j < i => j \in SentBy(requests, i - 1)
    <3>1. \A j \in 1..n : j < i => j \in 1..(i - 1)
      BY <1>2, <2>3
    <3> QED BY <1>8, <3>1 DEF SentBy
  <2> QED BY <2>2, <2>5, <2>6
<1>11. Cardinality(executions) <= 1
  <2>1. \A i, j \in executions : i = j
    <3>1. \A i \in executions : i \in sent /\ i \in 1..n
      BY <1>8
    <3>2. \A i, j \in executions : ~(j < i)
      BY <1>10, <3>1
    <3> HIDE DEF executions
    <3> QED BY <1>2, <3>1, <3>2
  <2> HIDE DEF executions
  <2>2. CASE executions = {}
    BY <2>2, FS_EmptySet
  <2>3. CASE executions # {}
    <3>1. PICK i : i \in executions
      BY <2>3
    <3>2. executions = {i}
      BY <2>1, <3>1
    <3>3. Cardinality({i}) = 1
      BY FS_Singleton
    <3> QED BY <3>2, <3>3
  <2> QED BY <2>2, <2>3
<1>12. /\ \A i \in executions : /\ requests[i].body = TheOne
                               /\ \A j \in sent : j < i => Target(requests[j].path) # ExecutionQueryPath
  BY <1>10
<1> QED BY <1>7, <1>9, <1>11, <1>12, Zenon DEF ProbeOnlyReads, requests, client, sent

(* The sessions that the run asks about are such sessions.                            *)
LEMMA RunAsksOfSessions == AskTokens => IsSession(asked'.calls)
<1> SUFFICES ASSUME AskTokens PROVE IsSession(asked'.calls)
  OBVIOUS
<1>1. PICK kinds \in [1..4 -> {<<"close", 1>>, <<"close", 2>>, <<"assign", 1>>, <<"restart", 0>>}],
       approvals \in [1..4 -> {None, 1, 2}], at \in {<<0, 0, 0, 0>>, <<0, 1, 2, 3>>, <<0, 2, 2, 2>>, <<0, 0, 3, 5>>} :
        /\ kinds[1] = <<"close", 1>> /\ approvals[1] = None
        /\ \A i \in 2..4 : kinds[i][1] = "restart" => approvals[i] = None
        /\ asked' = [kind |-> "tokens",
                     calls |-> [i \in 1..4 |-> TokenCall(kinds[i][1], kinds[i][2], approvals[i], at[i])]]
  BY DEF AskTokens
<1> DEFINE calls == [i \in 1..4 |-> TokenCall(kinds[i][1], kinds[i][2], approvals[i], at[i])]
<1>2. asked'.calls = calls
  BY <1>1
<1>3. \A i \in 1..4 : at[i] \in Int
  BY <1>1
<1>4. \A i \in 1..4 : kinds[i][1] = "restart" => approvals[i] = None
  <2>1. \A i \in 1..4 : i = 1 \/ i \in 2..4
    OBVIOUS
  <2> QED BY <1>1, <2>1
<1>5. \A i \in 1..4 : calls[i].at = at[i] /\ calls[i].tool = kinds[i][1] /\ calls[i].approval = approvals[i]
  BY DEF TokenCall
<1>6. calls \in Seq({calls[i] : i \in 1..4}) /\ DOMAIN calls = 1..4
  OBVIOUS
<1> HIDE DEF calls
<1>7. IsSession(calls)
  BY <1>3, <1>4, <1>5, <1>6 DEF IsSession
<1> QED BY <1>2, <1>7

(* Whatever the calls and the requests, as many as there may be, a token lets one call *)
(* through, the one it was given for, and the probe asks for executions once and       *)
(* otherwise only reads (consume_in_band_token, ReadOnlyClient).                       *)
THEOREM GivenOnceIsSpentOnce ==
  ASSUME asked.kind = "tokens" => IsSession(asked.calls),
         asked.kind = "probe" => IsRequests(asked.requests)
  PROVE  SpentOnce
BY TokensSpentOnce, ProbesOnlyRead DEF SpentOnce

--------------------------------------------------------------------------------
(* What a client is told.  First, what str.replace leaves of a text, from a place on. *)

\* Where the secret ends that begins at i, or 0.
EndAt(text, secret, i) ==
  LET end == i + Len(secret) - 1 IN IF end <= Len(text) /\ SubSeq(text, i, end) = secret THEN end ELSE 0

NextPlace(text, secret, i) == (IF EndAt(text, secret, i) < i THEN i ELSE EndAt(text, secret, i)) + 1

Shown(text, secret, i) == IF EndAt(text, secret, i) < i THEN <<text[i]>> ELSE REDACTED

RestFrom(text, secret, g, m) ==
  g = [i \in m..Len(text) + 1 |->
         IF i > Len(text) THEN <<>> ELSE Shown(text, secret, i) \o g[NextPlace(text, secret, i)]]

Rest(text, secret) == CHOOSE g : RestFrom(text, secret, g, 1)

LEMMA RestThere ==
  ASSUME NEW text, Len(text) \in Nat, NEW secret, Len(secret) \in Nat
  PROVE  /\ \E g : RestFrom(text, secret, g, 1)
         /\ \A i \in 1..Len(text) : NextPlace(text, secret, i) \in (i + 1)..(Len(text) + 1)
<1> DEFINE L == Len(text)
           To(i) == NextPlace(text, secret, i)
           S == {n \in Nat : n <= L => \E g : RestFrom(text, secret, g, L + 1 - n)}
<1>1. \A i \in 1..L : To(i) \in (i + 1)..(L + 1)
  BY DEF NextPlace, EndAt
<1>a. L \in Nat
  OBVIOUS
<1> HIDE DEF To, L
<1>2. 0 \in S
  <2> DEFINE h == [i \in (L + 1)..(L + 1) |-> <<>>]
  <2>1. \A i \in (L + 1)..(L + 1) : i > L
    BY <1>a
  <2>2. RestFrom(text, secret, h, L + 1)
    BY <2>1 DEF RestFrom, L
  <2>3. L + 1 - 0 = L + 1
    BY <1>a
  <2> QED BY <2>2, <2>3
<1>3. ASSUME NEW n \in Nat, n \in S PROVE n + 1 \in S
  <2> SUFFICES ASSUME n + 1 <= L PROVE \E h : RestFrom(text, secret, h, L + 1 - (n + 1))
    OBVIOUS
  <2> DEFINE m == L + 1 - n
  <2>1. PICK g : RestFrom(text, secret, g, m)
    BY <1>a, <1>3
  <2>2. /\ m \in 2..(L + 1) /\ L + 1 - (n + 1) = m - 1
    BY <1>a
  <2> HIDE DEF m
  <2> DEFINE h == [i \in (m - 1)..(L + 1) |-> IF i >= m THEN g[i] ELSE Shown(text, secret, i) \o g[To(i)]]
  <2>3. \A i \in m..(L + 1) : h[i] = g[i]
    BY <2>2
  <2>4. \A i \in m..(L + 1) : g[i] = IF i > L THEN <<>> ELSE Shown(text, secret, i) \o g[To(i)]
    BY <2>1 DEF RestFrom, To, L
  <2>5. ASSUME NEW i \in (m - 1)..(L + 1)
        PROVE  h[i] = IF i > L THEN <<>> ELSE Shown(text, secret, i) \o h[To(i)]
    <3>1. i <= L => To(i) \in m..(L + 1)
      BY <1>1, <1>a, <2>2
    <3>2. CASE i >= m
      <4>1. i \in m..(L + 1)
        BY <2>2, <3>2
      <4>2. h[i] = IF i > L THEN <<>> ELSE Shown(text, secret, i) \o g[To(i)]
        BY <2>3, <2>4, <4>1
      <4>3. i <= L => h[To(i)] = g[To(i)]
        BY <2>3, <3>1
      <4> HIDE DEF h
      <4>4. CASE i <= L
        BY <1>a, <4>2, <4>3, <4>4
      <4>5. CASE i > L
        BY <4>2, <4>5
      <4> QED BY <1>a, <4>4, <4>5
    <3>3. CASE i < m
      <4>1. i <= L /\ ~(i > L) /\ ~(i >= m)
        BY <1>a, <2>2, <3>3
      <4>2. h[i] = Shown(text, secret, i) \o g[To(i)]
        BY <4>1
      <4>3. h[To(i)] = g[To(i)]
        BY <2>3, <3>1, <4>1
      <4> HIDE DEF h
      <4> QED BY <4>1, <4>2, <4>3
    <3> QED BY <1>a, <2>2, <3>2, <3>3
  <2> HIDE DEF h
  <2>6. DOMAIN h = (m - 1)..(L + 1) /\ h = [i \in (m - 1)..(L + 1) |-> h[i]]
    BY DEF h
  <2>7. RestFrom(text, secret, h, m - 1)
    BY <2>5, <2>6 DEF RestFrom, To, L
  <2> QED BY <2>2, <2>7
<1>4. Nat \subseteq S
  <2> HIDE DEF S
  <2> QED BY <1>2, <1>3, AtEveryLength
<1>5. L \in S /\ L <= L /\ L + 1 - L = 1
  BY <1>a, <1>4
<1> QED BY <1>1, <1>5 DEF To, L

LEMMA ReplacedIs ==
  ASSUME NEW text, NEW secret
  PROVE  Replaced(text, secret) = Rest(text, secret)[1]
BY DEF Replaced, Substituted, Rest, RestFrom, EndAt, NextPlace, Shown

LEMMA RestIs ==
  ASSUME NEW text, Len(text) \in Nat, NEW secret, Len(secret) \in Nat
  PROVE  /\ Rest(text, secret)[Len(text) + 1] = <<>>
         /\ \A i \in 1..Len(text) :
              Rest(text, secret)[i] = Shown(text, secret, i) \o Rest(text, secret)[NextPlace(text, secret, i)]
<1> DEFINE G == Rest(text, secret)
           L == Len(text)
<1>1. RestFrom(text, secret, G, 1)
  BY RestThere DEF Rest
<1> HIDE DEF G
<1>2. G = [i \in 1..L + 1 |-> IF i > L THEN <<>> ELSE Shown(text, secret, i) \o G[NextPlace(text, secret, i)]]
  BY <1>1 DEF RestFrom
<1>4. L \in Nat
  OBVIOUS
<1> HIDE DEF L
<1>3. \A i \in 1..L + 1 : G[i] = IF i > L THEN <<>> ELSE Shown(text, secret, i) \o G[NextPlace(text, secret, i)]
  BY <1>2
<1>5. G[L + 1] = <<>>
  <2>1. L + 1 \in 1..L + 1 /\ L + 1 > L
    BY <1>4
  <2> QED BY <1>3, <2>1
<1>6. ASSUME NEW i \in 1..L PROVE G[i] = Shown(text, secret, i) \o G[NextPlace(text, secret, i)]
  <2>1. i \in 1..L + 1 /\ ~(i > L)
    BY <1>4
  <2> QED BY <1>3, <2>1
<1> QED BY <1>5, <1>6 DEF G, L

(* What holds at the end, and at a place if it holds from the next one on, holds     *)
(* everywhere.                                                                   *)
LEMMA FromTheEnd ==
  ASSUME NEW L \in Nat, NEW S, L + 1 \in S,
         \A i \in 1..L : (i + 1)..(L + 1) \subseteq S => i \in S
  PROVE  1..(L + 1) \subseteq S
<1> DEFINE T == {n \in Nat : n <= L => (L + 1 - n)..(L + 1) \subseteq S}
<1>1. 0 \in T
  <2>1. L + 1 - 0 = L + 1 /\ \A i \in (L + 1)..(L + 1) : i = L + 1
    OBVIOUS
  <2> QED BY <2>1
<1>2. ASSUME NEW n \in Nat, n \in T PROVE n + 1 \in T
  <2> SUFFICES ASSUME n + 1 <= L, NEW i \in (L + 1 - (n + 1))..(L + 1) PROVE i \in S
    OBVIOUS
  <2> DEFINE m == L + 1 - n
  <2>1. m \in Int /\ m..(L + 1) \subseteq S
    BY <1>2
  <2>2. L - n \in 1..L /\ L - n + 1 = m /\ (i = L - n \/ i \in m..(L + 1))
    OBVIOUS
  <2> HIDE DEF m
  <2>3. L - n \in S
    BY <2>1, <2>2
  <2> QED BY <2>1, <2>2, <2>3
<1>3. L \in T
  <2> HIDE DEF T
  <2>1. Nat \subseteq T
    BY <1>1, <1>2, AtEveryLength
  <2> QED BY <2>1
<1>4. L + 1 - L = 1 /\ L <= L
  OBVIOUS
<1> QED BY <1>3, <1>4

(* Secrets of two pieces.                                                         *)
PairAt(text, a, b, i) == i < Len(text) /\ text[i] = a /\ text[i + 1] = b

RestAt(text, a, b, i) ==
  /\ PairAt(text, a, b, i) => Rest(text, <<a, b>>)[i] = REDACTED \o Rest(text, <<a, b>>)[i + 2]
  /\ ~PairAt(text, a, b, i) => Rest(text, <<a, b>>)[i] = <<text[i]>> \o Rest(text, <<a, b>>)[i + 1]

LEMMA PairRest ==
  ASSUME NEW C, NEW text \in Seq(C), NEW a, NEW b, NEW i \in 1..Len(text)
  PROVE  RestAt(text, a, b, i)
<1> DEFINE secret == <<a, b>>
           L == Len(text)
<1> USE DEF RestAt
<1>1. L \in Nat /\ Len(secret) = 2
  OBVIOUS
<1>2. Rest(text, secret)[i] = Shown(text, secret, i) \o Rest(text, secret)[NextPlace(text, secret, i)]
  BY <1>1, RestIs
<1>3. EndAt(text, secret, i) = IF PairAt(text, a, b, i) THEN i + 1 ELSE 0
  <2>1. i + Len(secret) - 1 = i + 1
    BY <1>1
  <2>2. EndAt(text, secret, i) = IF i + 1 <= L /\ SubSeq(text, i, i + 1) = secret THEN i + 1 ELSE 0
    BY <2>1 DEF EndAt
  <2>3. ASSUME i + 1 <= L PROVE SubSeq(text, i, i + 1) = secret <=> text[i] = a /\ text[i + 1] = b
    <3> DEFINE s == SubSeq(text, i, i + 1)
    <3>1. s = [j \in 1..2 |-> text[i + j - 1]]
      BY <2>3 DEF s
    <3>2. s[1] = text[i] /\ s[2] = text[i + 1]
      <4>1. i + 1 - 1 = i /\ i + 2 - 1 = i + 1 /\ 1 \in 1..2 /\ 2 \in 1..2
        OBVIOUS
      <4> HIDE DEF s
      <4> QED BY <3>1, <4>1
    <3>3. s \in Seq(C) /\ Len(s) = 2
      BY <2>3
    <3>4. s = <<s[1], s[2]>>
      <4> HIDE DEF s
      <4> QED BY <3>3
    <3> HIDE DEF s
    <3>5. s = secret <=> s[1] = a /\ s[2] = b
      BY <3>4
    <3> QED BY <3>2, <3>5 DEF s
  <2>4. i + 1 <= L <=> i < L
    BY <1>1
  <2> QED BY <2>2, <2>3, <2>4 DEF PairAt
<1>4. CASE PairAt(text, a, b, i)
  <2>1. EndAt(text, secret, i) = i + 1 /\ ~(i + 1 < i) /\ (i + 1) + 1 = i + 2
    BY <1>3, <1>4
  <2>2. NextPlace(text, secret, i) = i + 2 /\ Shown(text, secret, i) = REDACTED
    BY <2>1 DEF NextPlace, Shown
  <2> QED BY <1>2, <1>4, <2>2
<1>5. CASE ~PairAt(text, a, b, i)
  <2>1. EndAt(text, secret, i) = 0 /\ 0 < i
    BY <1>3, <1>5
  <2>2. NextPlace(text, secret, i) = i + 1 /\ Shown(text, secret, i) = <<text[i]>>
    BY <2>1 DEF NextPlace, Shown
  <2> QED BY <1>2, <1>5, <2>2
<1> QED BY <1>4, <1>5

(* What SOAR says, of the key's secret, the credential and other text.               *)
Hidden == ToSet(REDACTED)

\* A piece of a secret has the rest of it next to it.
IsSaid(text) ==
  /\ text \in Seq({"k", "l", "w", "x"})
  /\ \A i \in 1..Len(text) :
       /\ text[i] = "k" => i < Len(text) /\ text[i + 1] = "l" /\ (i + 2 <= Len(text) => text[i + 2] # "w")
       /\ text[i] = "l" => (i > 1 /\ text[i - 1] = "k") \/ (i < Len(text) /\ text[i + 1] = "w")
       /\ text[i] = "w" => i > 1 /\ text[i - 1] = "l"

\* The same once the key's secret is out of it.
IsPaired(text) ==
  /\ text \in Seq({"l", "w", "x"} \cup Hidden)
  /\ \A i \in 1..Len(text) :
       /\ text[i] = "l" => i < Len(text) /\ text[i + 1] = "w"
       /\ text[i] = "w" => i = 1 \/ text[i - 1] = "l"

BeginsWithW(text) == Len(text) >= 1 /\ text[1] = "w"

LEMMA HiddenIs == Hidden = {"[", "R", "]"} /\ REDACTED \in Seq(Hidden) /\ Len(REDACTED) = 3
<1>1. REDACTED \in Seq({"[", "R", "]"}) /\ Len(REDACTED) = 3
  BY DEF REDACTED
<1>2. Hidden = {"[", "R", "]"}
  BY DEF Hidden, REDACTED, ToSet
<1> QED BY <1>1, <1>2

Joined(C, s, t) ==
  /\ s \o t \in Seq(C) /\ Len(s \o t) = Len(s) + Len(t) /\ Len(s) \in Nat /\ Len(t) \in Nat
  /\ \A j \in 1..Len(s) : (s \o t)[j] = s[j]
  /\ \A j \in 1..Len(t) : (s \o t)[Len(s) + j] = t[j]

LEMMA JoinedIs == ASSUME NEW C, NEW s \in Seq(C), NEW t \in Seq(C) PROVE Joined(C, s, t)
BY DEF Joined

LEMMA PairedOne ==
  ASSUME NEW r, IsPaired(r), NEW c \in {"l", "w", "x"}, c = "l" <=> BeginsWithW(r)
  PROVE  IsPaired(<<c>> \o r) /\ (BeginsWithW(<<c>> \o r) <=> c = "w")
<1> DEFINE C == {"l", "w", "x"} \cup Hidden
           s == <<c>>
           t == s \o r
<1>1. s \in Seq(C) /\ r \in Seq(C) /\ Len(s) = 1 /\ s[1] = c
  BY DEF IsPaired
<1>2. /\ t \in Seq(C) /\ Len(t) = 1 + Len(r) /\ Len(r) \in Nat
      /\ \A j \in 1..1 : t[j] = s[j]
      /\ \A j \in 1..Len(r) : t[1 + j] = r[j]
  <2> HIDE DEF s, C
  <2>1. Joined(C, s, r)
    BY <1>1, JoinedIs
  <2> QED BY <1>1, <2>1 DEF Joined
<1>3. t[1] = c
  <2> HIDE DEF s, t
  <2> QED BY <1>1, <1>2
<1> HIDE DEF s, t
<1>4. ASSUME NEW i \in 1..Len(t)
      PROVE  /\ t[i] = "l" => i < Len(t) /\ t[i + 1] = "w"
             /\ t[i] = "w" => i = 1 \/ t[i - 1] = "l"
  <2>1. CASE i = 1
    <3>1. c = "l" => Len(r) >= 1 /\ r[1] = "w"
      BY DEF BeginsWithW
    <3>2. Len(r) >= 1 => t[2] = r[1]
      <4>1. Len(r) >= 1 => 1 \in 1..Len(r) /\ 1 + 1 = 2
        BY <1>2
      <4> QED BY <1>2, <4>1
    <3> QED BY <1>2, <1>3, <2>1, <3>1, <3>2
  <2>2. CASE i > 1
    <3>1. i - 1 \in 1..Len(r) /\ 1 + (i - 1) = i
      BY <1>2, <2>2
    <3>2. t[i] = r[i - 1]
      BY <1>2, <3>1
    <3>3. /\ r[i - 1] = "l" => i - 1 < Len(r) /\ r[(i - 1) + 1] = "w"
          /\ r[i - 1] = "w" => i - 1 = 1 \/ r[i - 1 - 1] = "l"
      BY <3>1 DEF IsPaired
    <3>4. i - 1 < Len(r) => t[i + 1] = r[(i - 1) + 1]
      <4>1. i - 1 < Len(r) => i \in 1..Len(r) /\ 1 + i = i + 1 /\ (i - 1) + 1 = i
        BY <1>2, <3>1
      <4> QED BY <1>2, <4>1
    <3>5. i - 1 # 1 => t[i - 1] = r[i - 1 - 1]
      <4>1. i - 1 # 1 => i - 1 - 1 \in 1..Len(r) /\ 1 + (i - 1 - 1) = i - 1
        BY <1>2, <3>1
      <4> QED BY <1>2, <4>1
    <3>6. i - 1 = 1 /\ r[1] = "w" => t[i - 1] = "l"
      <4>1. i - 1 = 1 => Len(r) >= 1
        BY <3>1
      <4> QED BY <1>3, <4>1 DEF BeginsWithW
    <3> QED BY <1>2, <3>1, <3>2, <3>3, <3>4, <3>5, <3>6
  <2> QED BY <1>2, <2>1, <2>2
<1>5. IsPaired(t)
  BY <1>2, <1>4 DEF IsPaired
<1>6. BeginsWithW(t) <=> c = "w"
  BY <1>2, <1>3 DEF BeginsWithW
<1> QED BY <1>5, <1>6 DEF t, s

LEMMA PairedMark ==
  ASSUME NEW r, IsPaired(r), ~BeginsWithW(r)
  PROVE  IsPaired(REDACTED \o r) /\ ~BeginsWithW(REDACTED \o r)
<1> DEFINE C == {"l", "w", "x"} \cup Hidden
           t == REDACTED \o r
<1>1. /\ REDACTED \in Seq(C) /\ r \in Seq(C) /\ Len(REDACTED) = 3
      /\ \A j \in 1..3 : REDACTED[j] \notin {"l", "w"}
  <2>1. REDACTED \in Seq(C) /\ r \in Seq(C)
    BY HiddenIs DEF IsPaired, REDACTED
  <2>2. \A j \in 1..3 : REDACTED[j] \notin {"l", "w"}
    BY DEF REDACTED
  <2> QED BY <2>1, <2>2, HiddenIs
<1>2. /\ t \in Seq(C) /\ Len(t) = 3 + Len(r) /\ Len(r) \in Nat
      /\ \A j \in 1..3 : t[j] = REDACTED[j]
      /\ \A j \in 1..Len(r) : t[3 + j] = r[j]
  <2> HIDE DEF C
  <2>1. Joined(C, REDACTED, r)
    BY <1>1, JoinedIs
  <2> QED BY <1>1, <2>1 DEF Joined
<1> HIDE DEF t
<1>3. ASSUME NEW i \in 1..Len(t)
      PROVE  /\ t[i] = "l" => i < Len(t) /\ t[i + 1] = "w"
             /\ t[i] = "w" => i = 1 \/ t[i - 1] = "l"
  <2>1. CASE i <= 3
    BY <1>1, <1>2, <2>1
  <2>2. CASE i > 3
    <3>1. i - 3 \in 1..Len(r) /\ 3 + (i - 3) = i
      BY <1>2, <2>2
    <3>2. t[i] = r[i - 3]
      BY <1>2, <3>1
    <3>3. /\ r[i - 3] = "l" => i - 3 < Len(r) /\ r[(i - 3) + 1] = "w"
          /\ r[i - 3] = "w" => i - 3 = 1 \/ r[i - 3 - 1] = "l"
      BY <3>1 DEF IsPaired
    <3>4. i - 3 < Len(r) => t[i + 1] = r[(i - 3) + 1]
      <4>1. i - 3 < Len(r) => (i - 3) + 1 \in 1..Len(r) /\ 3 + ((i - 3) + 1) = i + 1
        BY <1>2, <3>1
      <4> QED BY <1>2, <4>1
    <3>5. i - 3 # 1 => t[i - 1] = r[i - 3 - 1]
      <4>1. i - 3 # 1 => i - 3 - 1 \in 1..Len(r) /\ 3 + (i - 3 - 1) = i - 1
        BY <1>2, <3>1
      <4> QED BY <1>2, <4>1
    <3>6. i - 3 = 1 => r[i - 3] # "w"
      <4>1. i - 3 = 1 => Len(r) >= 1
        BY <3>1
      <4> QED BY <4>1 DEF BeginsWithW
    <3> QED BY <1>2, <3>1, <3>2, <3>3, <3>4, <3>5, <3>6
  <2> QED BY <1>2, <2>1, <2>2
<1>4. IsPaired(t)
  BY <1>2, <1>3 DEF IsPaired
<1>5. ~BeginsWithW(t)
  <2>1. 1 \in 1..3
    OBVIOUS
  <2> QED BY <1>1, <1>2, <2>1 DEF BeginsWithW
<1> QED BY <1>4, <1>5 DEF t

LEMMA KeyIsOut ==
  ASSUME NEW m, IsSaid(m)
  PROVE  IsPaired(Replaced(m, KeySecret)) /\ ~BeginsWithW(Replaced(m, KeySecret))
<1> DEFINE L == Len(m)
           C == {"k", "l", "w", "x"}
           R(i) == Rest(m, KeySecret)[i]
           MayBegin(i) == i = 1 \/ m[i - 1] # "k"
           Good(i) == IsPaired(R(i)) /\ (BeginsWithW(R(i)) <=> i <= L /\ m[i] = "w")
           S == {i \in 1..L + 1 : MayBegin(i) => Good(i)}
<1>1. L \in Nat /\ m \in Seq(C)
  BY DEF IsSaid
<1>2. R(L + 1) = <<>>
  <2>1. Len(KeySecret) \in Nat
    BY DEF KeySecret
  <2> QED BY <1>1, <2>1, RestIs
<1>3. \A i \in 1..L : /\ PairAt(m, "k", "l", i) => R(i) = REDACTED \o R(i + 2)
                      /\ ~PairAt(m, "k", "l", i) => R(i) = <<m[i]>> \o R(i + 1)
  <2> TAKE i \in 1..L
  <2>1. m \in Seq(C) /\ i \in 1..Len(m)
    BY <1>1
  <2> DEFINE a == "k"
             b == "l"
  <2> HIDE DEF a, b, C
  <2>2. RestAt(m, a, b, i)
    BY <2>1, PairRest
  <2> QED BY <2>2 DEF RestAt, KeySecret, a, b
<1>a. \A i \in 1..L : PairAt(m, "k", "l", i) <=> i < L /\ m[i] = "k" /\ m[i + 1] = "l"
  BY DEF PairAt
<1>4. \A i \in 1..L :
        /\ m[i] \in C
        /\ m[i] = "k" => i < L /\ m[i + 1] = "l" /\ (i + 2 <= L => m[i + 2] # "w")
        /\ m[i] = "l" => (i > 1 /\ m[i - 1] = "k") \/ (i < L /\ m[i + 1] = "w")
        /\ m[i] = "w" => i > 1 /\ m[i - 1] = "l"
  BY DEF IsSaid
<1> HIDE DEF L, R
<1>5. L + 1 \in S
  <2>1. IsPaired(<<>>) /\ ~BeginsWithW(<<>>)
    BY DEF IsPaired, BeginsWithW
  <2>2. ~(L + 1 <= L) /\ L + 1 \in 1..L + 1
    BY <1>1
  <2> QED BY <1>2, <2>1, <2>2
<1>6. ASSUME NEW i \in 1..L, (i + 1)..(L + 1) \subseteq S PROVE i \in S
  <2> SUFFICES ASSUME MayBegin(i) PROVE Good(i)
    BY <1>1
  <2>1. /\ i + 1 \in S /\ i <= L /\ i + 1 - 1 = i /\ i + 1 # 1 /\ (i + 1 <= L <=> i < L)
        /\ i < L => i + 1 \in 1..L
    BY <1>1, <1>6
  <2>2. CASE m[i] = "k"
    <3>1. i < L /\ m[i + 1] = "l" /\ (i + 2 <= L => m[i + 2] # "w")
      BY <1>4, <2>2
    <3>2. R(i) = REDACTED \o R(i + 2)
      BY <1>3, <1>a, <2>2, <3>1
    <3>3. i + 2 \in S /\ i + 2 - 1 = i + 1 /\ i + 2 # 1
      BY <1>1, <1>6, <3>1
    <3>4. Good(i + 2)
      BY <3>1, <3>3
    <3>5. IsPaired(R(i + 2)) /\ ~BeginsWithW(R(i + 2))
      BY <3>1, <3>4
    <3>6. IsPaired(REDACTED \o R(i + 2)) /\ ~BeginsWithW(REDACTED \o R(i + 2))
      BY <3>5, PairedMark
    <3> QED BY <2>2, <3>2, <3>6
  <2>3. CASE m[i] # "k"
    <3>1. R(i) = <<m[i]>> \o R(i + 1)
      BY <1>3, <1>a, <2>3
    <3>2. IsPaired(R(i + 1)) /\ (BeginsWithW(R(i + 1)) <=> i < L /\ m[i + 1] = "w")
      BY <2>1, <2>3
    <3>3. m[i] \in {"l", "w", "x"}
      BY <1>4, <2>3
    <3>4. m[i] = "l" <=> i < L /\ m[i + 1] = "w"
      <4>1. m[i] = "l" => i < L /\ m[i + 1] = "w"
        BY <1>4
      <4>2. i < L /\ m[i + 1] = "w" => m[i + 1 - 1] = "l"
        BY <1>4, <2>1
      <4> QED BY <2>1, <4>1, <4>2
    <3>5. IsPaired(<<m[i]>> \o R(i + 1)) /\ (BeginsWithW(<<m[i]>> \o R(i + 1)) <=> m[i] = "w")
      <4> DEFINE c == m[i]
      <4>1. c \in {"l", "w", "x"} /\ (c = "l" <=> BeginsWithW(R(i + 1))) /\ IsPaired(R(i + 1))
        BY <3>2, <3>3, <3>4
      <4> HIDE DEF c
      <4>2. IsPaired(<<c>> \o R(i + 1)) /\ (BeginsWithW(<<c>> \o R(i + 1)) <=> c = "w")
        BY <4>1, PairedOne
      <4> QED BY <4>2 DEF c
    <3> QED BY <2>1, <3>1, <3>5
  <2> QED BY <2>2, <2>3
<1>7. 1 \in S
  <2> HIDE DEF S
  <2>1. 1..(L + 1) \subseteq S
    BY <1>1, <1>5, <1>6, FromTheEnd
  <2> QED BY <1>1, <2>1
<1>8. Good(1)
  BY <1>7
<1>9. 1 <= L => m[1] # "w"
  BY <1>1, <1>4
<1>10. IsPaired(R(1)) /\ ~BeginsWithW(R(1))
  BY <1>8, <1>9
<1> QED BY <1>10, ReplacedIs DEF R

LEMMA CredentialIsOut ==
  ASSUME NEW r, IsPaired(r), ~BeginsWithW(r)
  PROVE  Replaced(r, Credential) \in Seq({"x"} \cup Hidden)
<1> DEFINE L == Len(r)
           C == {"l", "w", "x"} \cup Hidden
           D == {"x"} \cup Hidden
           R(i) == Rest(r, Credential)[i]
           MayBegin(i) == i = L + 1 \/ r[i] # "w"
           S == {i \in 1..L + 1 : MayBegin(i) => R(i) \in Seq(D)}
<1>1. L \in Nat /\ r \in Seq(C)
  BY DEF IsPaired
<1>2. R(L + 1) = <<>>
  <2>1. Len(Credential) \in Nat
    BY DEF Credential
  <2> QED BY <1>1, <2>1, RestIs
<1>3. \A i \in 1..L : /\ PairAt(r, "l", "w", i) => R(i) = REDACTED \o R(i + 2)
                      /\ ~PairAt(r, "l", "w", i) => R(i) = <<r[i]>> \o R(i + 1)
  <2> TAKE i \in 1..L
  <2>1. r \in Seq(C) /\ i \in 1..Len(r)
    BY <1>1
  <2> DEFINE a == "l"
             b == "w"
  <2> HIDE DEF a, b, C
  <2>2. RestAt(r, a, b, i)
    BY <2>1, PairRest
  <2> QED BY <2>2 DEF RestAt, Credential, a, b
<1>a. \A i \in 1..L : PairAt(r, "l", "w", i) <=> i < L /\ r[i] = "l" /\ r[i + 1] = "w"
  BY DEF PairAt
<1>4. \A i \in 1..L :
        /\ r[i] \in C
        /\ r[i] = "l" => i < L /\ r[i + 1] = "w"
        /\ r[i] = "w" => i = 1 \/ r[i - 1] = "l"
  BY DEF IsPaired
<1>0. L >= 1 => r[1] # "w"
  BY DEF BeginsWithW
<1> HIDE DEF L, R
<1>5. L + 1 \in S
  <2>1. L + 1 \in 1..L + 1 /\ <<>> \in Seq(D)
    BY <1>1
  <2> QED BY <1>2, <2>1
<1>6. ASSUME NEW i \in 1..L, (i + 1)..(L + 1) \subseteq S PROVE i \in S
  <2> SUFFICES ASSUME MayBegin(i) PROVE R(i) \in Seq(D)
    BY <1>1
  <2>1. i + 1 \in S /\ i <= L /\ i # L + 1 /\ (i + 1 = L + 1 <=> i = L)
    BY <1>1, <1>6
  <2>2. r[i] # "w"
    BY <2>1
  <2>3. CASE r[i] = "l"
    <3>1. i < L /\ r[i + 1] = "w"
      BY <1>4, <2>3
    <3>2. R(i) = REDACTED \o R(i + 2)
      BY <1>3, <1>a, <2>3, <3>1
    <3>3. i + 2 \in S
      BY <1>1, <1>6, <3>1
    <3>4. MayBegin(i + 2)
      <4>1. i + 2 # L + 1 => i + 2 \in 1..L /\ i + 2 - 1 = i + 1 /\ i + 2 # 1
        BY <1>1, <3>1
      <4>2. i + 2 # L + 1 /\ r[i + 2] = "w" => r[i + 1] = "l"
        BY <1>4, <4>1
      <4> QED BY <3>1, <4>2
    <3>5. R(i + 2) \in Seq(D) /\ REDACTED \in Seq(D)
      <4>1. R(i + 2) \in Seq(D)
        BY <3>3, <3>4
      <4>2. REDACTED \in Seq(D)
        BY HiddenIs DEF REDACTED
      <4> QED BY <4>1, <4>2
    <3>6. REDACTED \o R(i + 2) \in Seq(D)
      <4> HIDE DEF D
      <4> QED BY <3>5
    <3> QED BY <3>2, <3>6
  <2>4. CASE r[i] # "l"
    <3>1. R(i) = <<r[i]>> \o R(i + 1)
      BY <1>3, <1>a, <2>4
    <3>2. MayBegin(i + 1)
      <4>1. i + 1 # L + 1 => i + 1 \in 1..L /\ i + 1 - 1 = i /\ i + 1 # 1
        BY <1>1
      <4>2. i + 1 # L + 1 /\ r[i + 1] = "w" => r[i] = "l"
        BY <1>4, <4>1
      <4> QED BY <2>4, <4>2
    <3>3. R(i + 1) \in Seq(D)
      BY <2>1, <3>2
    <3>4. r[i] \in D
      BY <1>4, <2>2, <2>4
    <3>5. <<r[i]>> \o R(i + 1) \in Seq(D)
      <4> HIDE DEF D
      <4>1. <<r[i]>> \in Seq(D)
        BY <3>4
      <4> QED BY <3>3, <4>1
    <3> QED BY <3>1, <3>5
  <2> QED BY <2>3, <2>4
<1>7. 1 \in S
  <2> HIDE DEF S
  <2>1. 1..(L + 1) \subseteq S
    BY <1>1, <1>5, <1>6, FromTheEnd
  <2> QED BY <1>1, <2>1
<1>8. R(1) \in Seq(D)
  BY <1>0, <1>1, <1>7
<1> QED BY <1>8, ReplacedIs DEF R

(* Whatever the limit, what is quoted shows nothing of the key.                     *)
LEMMA QuotedIs ==
  ASSUME NEW m, IsSaid(m), Sensitive = OwnSecrets, MaxMessage \in Nat
  PROVE  ToSet(Quoted(m)) \subseteq {"x"} \cup ToSet(REDACTED)
<1> DEFINE D == {"x"} \cup Hidden
           s == scrub(m)
<1>1. s = Replaced(Replaced(m, KeySecret), Credential)
  BY DEF scrub, OwnSecrets
<1>2. s \in Seq(D)
  BY <1>1, KeyIsOut, CredentialIsOut
<1> HIDE DEF s, D
<1>3. Len(s) \in Nat /\ \A i \in 1..Len(s) : s[i] \in D
  BY <1>2
<1>4. Quoted(m) = SubSeq(s, 1, Lesser(MaxMessage, Len(s))) /\ Lesser(MaxMessage, Len(s)) \in 0..Len(s)
  BY <1>3 DEF Quoted, PrefixAtLimit, Lesser, s
<1>5. Quoted(m) \in Seq(D)
  BY <1>2, <1>4
<1>6. ToSet(Quoted(m)) \subseteq D
  BY <1>5 DEF ToSet
<1> QED BY <1>6 DEF D, Hidden

(* The messages of the run are such texts.                                        *)
LEMMA SaidGoesOn ==
  ASSUME NEW t, IsSaid(t), NEW p \in {KeySecret, Credential, <<"x">>}
  PROVE  IsSaid(t \o p)
<1> DEFINE C == {"k", "l", "w", "x"}
           u == t \o p
           n == Len(t)
<1>1. t \in Seq(C) /\ p \in Seq(C) /\ n \in Nat
  <2>1. t \in Seq(C) /\ n \in Nat
    BY DEF IsSaid
  <2>2. KeySecret \in Seq(C) /\ Credential \in Seq(C) /\ <<"x">> \in Seq(C)
    BY DEF KeySecret, Credential
  <2> QED BY <2>1, <2>2
<1>2. \/ Len(p) = 2 /\ p[1] = "k" /\ p[2] = "l"
      \/ Len(p) = 2 /\ p[1] = "l" /\ p[2] = "w"
      \/ Len(p) = 1 /\ p[1] = "x"
  BY DEF KeySecret, Credential
<1>3. Joined(C, t, p)
  <2> HIDE DEF C
  <2> QED BY <1>1, JoinedIs
<1>4. /\ u \in Seq(C) /\ Len(u) = n + Len(p)
      /\ \A i \in 1..n : u[i] = t[i]
      /\ u[n + 1] = p[1]
      /\ Len(p) = 2 => u[n + 2] = p[2]
  <2>1. /\ u \in Seq(C) /\ Len(u) = n + Len(p)
        /\ \A i \in 1..n : u[i] = t[i]
        /\ \A i \in 1..Len(p) : u[n + i] = p[i]
    BY <1>3 DEF Joined
  <2>2. 1 \in 1..Len(p) /\ (Len(p) = 2 => 2 \in 1..Len(p))
    BY <1>2
  <2> HIDE DEF u, n, C
  <2> QED BY <2>1, <2>2
<1>5. \A i \in 1..n :
        /\ t[i] = "k" => i < n /\ t[i + 1] = "l" /\ (i + 2 <= n => t[i + 2] # "w")
        /\ t[i] = "l" => (i > 1 /\ t[i - 1] = "k") \/ (i < n /\ t[i + 1] = "w")
        /\ t[i] = "w" => i > 1 /\ t[i - 1] = "l"
  BY DEF IsSaid
<1>7. /\ Len(p) \in {1, 2} /\ Len(u) = n + Len(p) /\ Len(u) \in {n + 1, n + 2}
      /\ Len(u) = n + 2 => Len(p) = 2
  <2> DEFINE a == Len(p)
             b == Len(u)
  <2>1. (a = 1 \/ a = 2) /\ b = n + a /\ n \in Nat
    BY <1>1, <1>2, <1>4
  <2> HIDE DEF u, n, a, b
  <2>2. a \in {1, 2} /\ b = n + a /\ b \in {n + 1, n + 2} /\ (b = n + 2 => a = 2)
    BY <2>1
  <2> QED BY <2>2 DEF a, b
<1> HIDE DEF u, n
<1>6. ASSUME NEW i \in 1..Len(u)
      PROVE  /\ u[i] = "k" => i < Len(u) /\ u[i + 1] = "l" /\ (i + 2 <= Len(u) => u[i + 2] # "w")
             /\ u[i] = "l" => (i > 1 /\ u[i - 1] = "k") \/ (i < Len(u) /\ u[i + 1] = "w")
             /\ u[i] = "w" => i > 1 /\ u[i - 1] = "l"
  <2>1. CASE i <= n
    <3>1. i \in 1..n /\ u[i] = t[i] /\ Len(u) \in {n + 1, n + 2}
      <4>1. i \in 1..n
        BY <1>1, <1>7, <2>1
      <4> QED BY <1>4, <1>7, <4>1
    <3>2. u[i] = "k" => i < Len(u) /\ u[i + 1] = "l" /\ (i + 2 <= Len(u) => u[i + 2] # "w")
      <4> SUFFICES ASSUME u[i] = "k" PROVE i < Len(u) /\ u[i + 1] = "l" /\ (i + 2 <= Len(u) => u[i + 2] # "w")
        OBVIOUS
      <4>1. i < n /\ t[i + 1] = "l" /\ (i + 2 <= n => t[i + 2] # "w")
        BY <1>5, <3>1
      <4>2. i + 1 \in 1..n /\ i < Len(u)
        BY <1>1, <3>1, <4>1
      <4>3. u[i + 1] = "l"
        BY <1>4, <4>1, <4>2
      <4>4. CASE i + 2 <= n
        <5>1. i + 2 \in 1..n
          BY <1>1, <3>1, <4>4
        <5> QED BY <1>4, <4>1, <4>2, <4>3, <5>1
      <4>5. CASE i + 2 > n
        <5>1. i + 2 = n + 1
          BY <1>1, <3>1, <4>1, <4>5
        <5>2. u[i + 2] # "w"
          BY <1>2, <1>4, <5>1
        <5> QED BY <4>2, <4>3, <5>2
      <4> QED BY <1>1, <3>1, <4>4, <4>5
    <3>3. u[i] = "l" => (i > 1 /\ u[i - 1] = "k") \/ (i < Len(u) /\ u[i + 1] = "w")
      <4> SUFFICES ASSUME u[i] = "l" PROVE (i > 1 /\ u[i - 1] = "k") \/ (i < Len(u) /\ u[i + 1] = "w")
        OBVIOUS
      <4>1. (i > 1 /\ t[i - 1] = "k") \/ (i < n /\ t[i + 1] = "w")
        BY <1>5, <3>1
      <4>2. i > 1 => i - 1 \in 1..n
        BY <1>1, <3>1
      <4>3. i < n => i + 1 \in 1..n /\ i < Len(u)
        BY <1>1, <3>1
      <4> QED BY <1>4, <4>1, <4>2, <4>3
    <3>4. u[i] = "w" => i > 1 /\ u[i - 1] = "l"
      <4>1. i > 1 => i - 1 \in 1..n
        BY <1>1, <3>1
      <4> QED BY <1>4, <1>5, <3>1, <4>1
    <3> QED BY <3>2, <3>3, <3>4
  <2>2. CASE i = n + 1
    <3>1. u[i] = p[1] /\ i + 1 = n + 2 /\ i > n /\ ~(i + 2 <= Len(u)) /\ (Len(p) = 2 => i < Len(u) /\ u[i + 1] = p[2])
      BY <1>1, <1>4, <1>7, <2>2
    <3> HIDE DEF C
    <3> QED BY <1>2, <3>1
  <2>3. CASE i = n + 2
    <3>1. Len(p) = 2 /\ Len(u) = n + 2
      BY <1>1, <1>7, <2>3
    <3>2. u[i] = p[2] /\ i > 1 /\ i - 1 = n + 1 /\ u[i - 1] = p[1]
      BY <1>1, <1>4, <2>3, <3>1
    <3> HIDE DEF C
    <3> QED BY <1>2, <3>1, <3>2
  <2> QED BY <1>1, <1>7, <2>1, <2>2, <2>3
<1>8. IsSaid(u)
  BY <1>4, <1>6 DEF IsSaid
<1> QED BY <1>8 DEF u

LEMMA SaidOfParts ==
  ASSUME NEW parts \in Seq({KeySecret, Credential, <<"x">>})
  PROVE  IsSaid(FlattenSeq(parts))
<1> DEFINE C == {"k", "l", "w", "x"}
           Parts == {KeySecret, Credential, <<"x">>}
           n == Len(parts)
           S == {i \in Nat : i <= n => IsSaid(Flat(parts)[i])}
<1>1. n \in Nat /\ \A i \in 1..n : parts[i] \in Parts
  OBVIOUS
<1>2. Parts \subseteq Seq(C)
  BY DEF KeySecret, Credential
<1>3. parts \in Seq(Seq(C))
  <2> HIDE DEF Parts, C
  <2>1. parts \in Seq(Parts)
    BY DEF Parts
  <2> QED BY <1>2, <2>1
<1>4. FlattenSeq(parts) = Flat(parts)[n]
  <2> HIDE DEF C
  <2> QED BY <1>3, FlattenIs
<1>5. Flat(parts)[0] = <<>>
  <2> HIDE DEF C
  <2> QED BY <1>3, FlatIs
<1>6. \A i \in 0..n - 1 : Flat(parts)[i + 1] = Flat(parts)[i] \o parts[i + 1]
  <2> TAKE i \in 0..n - 1
  <2>1. \A j \in 1..n : Flat(parts)[j] = Flat(parts)[j - 1] \o parts[j]
    <3> HIDE DEF C
    <3> QED BY <1>3, FlatIs
  <2>2. PICK j \in 1..n : j = i + 1 /\ j - 1 = i
    BY <1>1
  <2>3. Flat(parts)[j] = Flat(parts)[j - 1] \o parts[j]
    BY <2>1
  <2> QED BY <2>2, <2>3
<1> HIDE DEF n
<1>7. 0 \in S
  <2>1. IsSaid(<<>>)
    BY DEF IsSaid
  <2> QED BY <1>5, <2>1
<1>8. ASSUME NEW i \in Nat, i \in S PROVE i + 1 \in S
  <2> SUFFICES ASSUME i + 1 <= n PROVE IsSaid(Flat(parts)[i + 1])
    OBVIOUS
  <2>1. i + 1 \in 1..n /\ i + 1 - 1 = i /\ i <= n
    BY <1>1
  <2>2. Flat(parts)[i + 1] = Flat(parts)[i] \o parts[i + 1] /\ parts[i + 1] \in Parts
    <3>1. Flat(parts)[i + 1] = Flat(parts)[i] \o parts[i + 1]
      <4>1. i \in 0..n - 1
        BY <1>1, <2>1
      <4> QED BY <1>6, <4>1
    <3>2. parts[i + 1] \in Parts
      <4> HIDE DEF Parts
      <4> QED BY <1>1, <2>1
    <3> QED BY <2>1, <3>1, <3>2
  <2>3. IsSaid(Flat(parts)[i])
    BY <1>8, <2>1
  <2> DEFINE t == Flat(parts)[i]
             p == parts[i + 1]
  <2>4. IsSaid(t) /\ p \in {KeySecret, Credential, <<"x">>}
    BY <2>2, <2>3
  <2> HIDE DEF t, p
  <2>5. IsSaid(t \o p)
    BY <2>4, SaidGoesOn
  <2> QED BY <2>2, <2>5 DEF t, p
<1>9. n \in S
  <2> HIDE DEF S
  <2>1. Nat \subseteq S
    BY <1>7, <1>8, AtEveryLength
  <2> QED BY <1>1, <2>1
<1>10. n <= n
  BY <1>1
<1> QED BY <1>4, <1>9, <1>10

(* The walk along what an exception wraps.                                          *)
IsException(exc) ==
  /\ Len(exc.class) \in Nat \ {0} /\ DOMAIN exc.class = 1..Len(exc.class)
  /\ \A n \in 1..Len(exc.class) : exc.cause[n] \in {None} \cup 1..Len(exc.class)
                               /\ exc.context[n] \in {None} \cup 1..Len(exc.class)

SeenSteps(exc, g, n) == g = [k \in 1..n |-> IF k = 1 THEN <<1>> ELSE OneFurther(exc, g[k - 1])]

LEMMA SeenThere ==
  ASSUME NEW exc
  PROVE  \A n \in Nat : \E g : SeenSteps(exc, g, n)
<1> DEFINE S == {n \in Nat : \E g : SeenSteps(exc, g, n)}
<1>1. 0 \in S
  <2> DEFINE h == [k \in 1..0 |-> <<1>>]
  <2>1. SeenSteps(exc, h, 0)
    BY DEF SeenSteps
  <2> QED BY <2>1
<1>2. ASSUME NEW n \in Nat, NEW g, SeenSteps(exc, g, n)
      PROVE  \E h : SeenSteps(exc, h, n + 1)
  <2> DEFINE last == IF n = 0 THEN <<1>> ELSE OneFurther(exc, g[n])
             h == [k \in 1..(n + 1) |-> IF k <= n THEN g[k] ELSE last]
  <2>1. \A k \in 1..n : g[k] = IF k = 1 THEN <<1>> ELSE OneFurther(exc, g[k - 1])
    BY <1>2 DEF SeenSteps
  <2>2. ASSUME NEW k \in 1..(n + 1) PROVE h[k] = IF k = 1 THEN <<1>> ELSE OneFurther(exc, h[k - 1])
    <3>1. CASE k <= n
      <4>1. k \in 1..n /\ (k # 1 => k - 1 \in 1..(n + 1) /\ k - 1 <= n)
        BY <3>1
      <4>2. h[k] = g[k] /\ (k # 1 => h[k - 1] = g[k - 1])
        BY <4>1
      <4> HIDE DEF h
      <4>3. h[k] = IF k = 1 THEN <<1>> ELSE OneFurther(exc, g[k - 1])
        BY <2>1, <4>1, <4>2
      <4> QED BY <4>2, <4>3
    <3>2. CASE ~(k <= n)
      <4>1. k = n + 1 /\ k - 1 = n /\ (k = 1 <=> n = 0)
        BY <3>2
      <4>2. h[k] = last
        BY <3>2
      <4>3. n # 0 => h[n] = g[n]
        OBVIOUS
      <4> HIDE DEF h
      <4> QED BY <4>1, <4>2, <4>3
    <3> QED BY <3>1, <3>2
  <2> HIDE DEF last
  <2>3. h = [k \in 1..(n + 1) |-> h[k]]
    OBVIOUS
  <2> HIDE DEF h
  <2>4. SeenSteps(exc, h, n + 1)
    BY <2>2, <2>3 DEF SeenSteps
  <2> QED BY <2>4
<1>3. Nat \subseteq S
  <2>1. \A n \in Nat : n \in S => n + 1 \in S
    BY <1>2
  <2> HIDE DEF S
  <2> QED BY <1>1, <2>1, AtEveryLength
<1> QED BY <1>3

LEMMA SeenIs ==
  ASSUME NEW exc, Len(exc.class) \in Nat \ {0}
  PROVE  /\ Seen(exc)[1] = <<1>>
         /\ \A k \in 1..Len(exc.class) - 1 : Seen(exc)[k + 1] = OneFurther(exc, Seen(exc)[k])
<1> DEFINE N == Len(exc.class)
           G == CHOOSE g : SeenSteps(exc, g, N)
<1>1. N \in Nat \ {0}
  OBVIOUS
<1>2. Seen(exc) = G
  BY DEF Seen, SeenSteps
<1>3. SeenSteps(exc, G, N)
  BY <1>1, SeenThere
<1> HIDE DEF G, N
<1>4. G = [k \in 1..N |-> IF k = 1 THEN <<1>> ELSE OneFurther(exc, G[k - 1])]
  BY <1>3 DEF SeenSteps
<1>5. \A k \in 1..N : G[k] = IF k = 1 THEN <<1>> ELSE OneFurther(exc, G[k - 1])
  BY <1>4
<1>6. G[1] = <<1>>
  BY <1>1, <1>5
<1>7. ASSUME NEW k \in 1..N - 1 PROVE G[k + 1] = OneFurther(exc, G[k])
  <2>1. k + 1 \in 1..N /\ k + 1 # 1 /\ k + 1 - 1 = k
    BY <1>1
  <2>2. G[k + 1] = IF k + 1 = 1 THEN <<1>> ELSE OneFurther(exc, G[k + 1 - 1])
    BY <1>5, <2>1
  <2> QED BY <2>1, <2>2
<1> QED BY <1>2, <1>6, <1>7 DEF N

(* As many as there are, each once, are all of them.                               *)
LEMMA AllOfThem ==
  ASSUME NEW n \in Nat, NEW f \in [1..n -> 1..n], \A i, j \in 1..n : f[i] = f[j] => i = j
  PROVE  \A k \in 1..n : \E i \in 1..n : f[i] = k
<1>1. f \in Injection(1..n, 1..n)
  BY DEF Injection, IsInjective
<1>2. IsFiniteSet(1..n)
  BY FS_Interval
<1>3. f \in Surjection(1..n, 1..n)
  BY <1>1, <1>2, FS_Injection
<1> QED BY <1>3 DEF Surjection

\* What has been seen by now is on the way, each once.
Walked(exc, s) ==
  /\ s \in Seq(1..Len(exc.class)) /\ Len(s) >= 1 /\ s[1] = 1
  /\ \A a, b \in 1..Len(s) : s[a] = s[b] => a = b
  /\ \A a \in 1..Len(s) - 1 : s[a + 1] = Wrapped(exc, s[a])

Stopped(exc, s) == Wrapped(exc, s[Len(s)]) \in {None} \cup ToSet(s)

LEMMA WrappedType ==
  ASSUME NEW exc, IsException(exc), NEW n \in 1..Len(exc.class)
  PROVE  Wrapped(exc, n) \in {None} \cup 1..Len(exc.class)
BY DEF Wrapped, IsException

LEMMA WalkedOn ==
  ASSUME NEW exc, IsException(exc), NEW s, Walked(exc, s)
  PROVE  /\ Walked(exc, OneFurther(exc, s))
         /\ Stopped(exc, s) => OneFurther(exc, s) = s
         /\ ~Stopped(exc, s) => Len(OneFurther(exc, s)) = Len(s) + 1
<1> DEFINE N == Len(exc.class)
           L == Len(s)
           w == Wrapped(exc, s[L])
           t == Append(s, w)
<1>1. /\ s \in Seq(1..N) /\ L \in Nat /\ L >= 1 /\ s[1] = 1
      /\ \A a, b \in 1..L : s[a] = s[b] => a = b
      /\ \A a \in 1..L - 1 : s[a + 1] = Wrapped(exc, s[a])
  BY DEF Walked
<1>2. s[L] \in 1..N
  BY <1>1
<1>3. w \in {None} \cup 1..N
  BY <1>2, WrappedType
<1>4. CASE Stopped(exc, s)
  BY <1>4 DEF Stopped, OneFurther
<1>5. CASE ~Stopped(exc, s)
  <2>1. OneFurther(exc, s) = t /\ w \in 1..N /\ w \notin ToSet(s)
    BY <1>3, <1>5 DEF Stopped, OneFurther
  <2>2. \A a \in 1..L : s[a] # w
    BY <2>1 DEF ToSet
  <2> HIDE DEF w, L, N
  <2>3. t \in Seq(1..N) /\ Len(t) = L + 1 /\ t[L + 1] = w /\ \A a \in 1..L : t[a] = s[a]
    BY <1>1, <2>1 DEF L
  <2> HIDE DEF t
  <2>4. Len(t) >= 1 /\ t[1] = 1
    BY <1>1, <2>3
  <2>5. ASSUME NEW a \in 1..Len(t), NEW b \in 1..Len(t), t[a] = t[b] PROVE a = b
    BY <1>1, <2>2, <2>3, <2>5
  <2>6. ASSUME NEW a \in 1..Len(t) - 1 PROVE t[a + 1] = Wrapped(exc, t[a])
    <3>1. a \in 1..L /\ t[a] = s[a]
      BY <1>1, <2>3
    <3>2. CASE a = L
      BY <2>3, <3>1, <3>2 DEF w
    <3>3. CASE a # L
      <4>1. a \in 1..L - 1 /\ a + 1 \in 1..L
        BY <1>1, <3>1, <3>3
      <4> QED BY <1>1, <2>3, <3>1, <4>1
    <3> QED BY <3>2, <3>3
  <2>7. Walked(exc, t)
    BY <2>3, <2>4, <2>5, <2>6 DEF Walked, N
  <2> QED BY <1>5, <2>1, <2>3, <2>7 DEF L
<1> QED BY <1>4, <1>5

LEMMA WalkEnds ==
  ASSUME NEW exc, IsException(exc)
  PROVE  Walked(exc, Seen(exc)[Len(exc.class)]) /\ Stopped(exc, Seen(exc)[Len(exc.class)])
<1> DEFINE N == Len(exc.class)
           SeenAt(k) == Seen(exc)[k]
           S == {n \in Nat : n < N => Walked(exc, SeenAt(n + 1)) /\ (Stopped(exc, SeenAt(n + 1)) \/ Len(SeenAt(n + 1)) = n + 1)}
<1>1. N \in Nat \ {0}
  BY DEF IsException
<1>2. SeenAt(1) = <<1>>
  BY <1>1, SeenIs
<1>3. \A k \in 1..N - 1 : SeenAt(k + 1) = OneFurther(exc, SeenAt(k))
  BY <1>1, SeenIs
<1>0. Walked(exc, <<1>>)
  BY <1>1 DEF Walked
<1> HIDE DEF SeenAt, N
<1>4. 0 \in S
  <2>1. Len(<<1>>) = 0 + 1 /\ 0 + 1 = 1
    OBVIOUS
  <2> QED BY <1>0, <1>2, <2>1
<1>5. ASSUME NEW n \in Nat, n \in S PROVE n + 1 \in S
  <2> SUFFICES ASSUME n + 1 < N
               PROVE  Walked(exc, SeenAt(n + 1 + 1)) /\ (Stopped(exc, SeenAt(n + 1 + 1)) \/ Len(SeenAt(n + 1 + 1)) = n + 1 + 1)
    OBVIOUS
  <2> DEFINE s == SeenAt(n + 1)
             t == SeenAt(n + 1 + 1)
  <2>1. Walked(exc, s) /\ (Stopped(exc, s) \/ Len(s) = n + 1)
    BY <1>1, <1>5
  <2>2. n + 1 \in 1..N - 1
    BY <1>1
  <2>3. t = OneFurther(exc, s)
    BY <1>3, <2>2
  <2> HIDE DEF s, t
  <2>4. /\ Walked(exc, OneFurther(exc, s))
        /\ Stopped(exc, s) => OneFurther(exc, s) = s
        /\ ~Stopped(exc, s) => Len(OneFurther(exc, s)) = Len(s) + 1
    BY <2>1, WalkedOn
  <2>5. Walked(exc, t) /\ (Stopped(exc, t) \/ Len(t) = n + 1 + 1)
    BY <2>1, <2>3, <2>4
  <2> QED BY <2>5 DEF t
<1>6. N - 1 \in S
  <2> HIDE DEF S
  <2>1. Nat \subseteq S
    BY <1>4, <1>5, AtEveryLength
  <2> QED BY <1>1, <2>1
<1> DEFINE s == SeenAt(N)
<1>7. Walked(exc, s) /\ (Stopped(exc, s) \/ Len(s) = N)
  <2>1. N - 1 < N /\ N - 1 + 1 = N
    BY <1>1
  <2> QED BY <1>6, <2>1
<1> HIDE DEF s
<1>8. ASSUME ~Stopped(exc, s) PROVE FALSE
  <2>1. s \in Seq(1..N) /\ Len(s) = N
    BY <1>7, <1>8 DEF Walked, N
  <2>0. \A i, j \in 1..N : s[i] = s[j] => i = j
    BY <1>7, <1>8 DEF Walked
  <2>2. s \in [1..N -> 1..N] /\ DOMAIN s = 1..N
    BY <2>1
  <2>a. N \in Nat
    BY <1>1
  <2>3. \A k \in 1..N : \E i \in 1..N : s[i] = k
    BY <2>a, <2>0, <2>2, AllOfThem
  <2>4. \A k \in 1..N : k \in ToSet(s)
    BY <2>2, <2>3 DEF ToSet
  <2>5. s[N] \in 1..N
    BY <1>1, <2>2
  <2>6. Wrapped(exc, s[N]) \in {None} \cup 1..N
    BY <2>5, WrappedType DEF N
  <2> QED BY <1>8, <2>1, <2>4, <2>6 DEF Stopped
<1>9. Walked(exc, s) /\ Stopped(exc, s)
  BY <1>7, <1>8
<1> QED BY <1>9 DEF s, SeenAt, N

(* It has seen all the reasons there are, and nothing else.                         *)
LEMMA ReasonsAre ==
  ASSUME NEW exc, IsException(exc)
  PROVE  Reasons(exc) = ToSet(Seen(exc)[Len(exc.class)])
<1> DEFINE N == Len(exc.class)
           all == DOMAIN exc.class
           s == Seen(exc)[N]
           L == Len(s)
           Reason(n) == {m \in all : m = exc.cause[n] \/ (exc.cause[n] = None /\ m = exc.context[n])}
           Closed(some) == 1 \in some /\ \A m \in some : Reason(m) \subseteq some
<1>1. all = 1..N /\ N \in Nat \ {0}
  BY DEF IsException
<1>2. Walked(exc, s) /\ Stopped(exc, s)
  BY WalkEnds
<1>3. None \notin 1..N
  BY RequestAssumption, <1>1
<1>4. ASSUME NEW n \in 1..N, NEW m PROVE m \in Reason(n) <=> m \in 1..N /\ m = Wrapped(exc, n)
  BY <1>1, <1>3 DEF Wrapped
<1>5. Reasons(exc) = {n \in 1..N : \A some \in SUBSET (1..N) : Closed(some) => n \in some}
  BY <1>1 DEF Reasons
<1>6. /\ s \in Seq(1..N) /\ L \in Nat /\ L >= 1 /\ s[1] = 1
      /\ \A a \in 1..L - 1 : s[a + 1] = Wrapped(exc, s[a])
      /\ Wrapped(exc, s[L]) \in {None} \cup ToSet(s)
  BY <1>2 DEF Walked, Stopped
<1>7. /\ \A a \in 1..L : s[a] \in 1..N /\ s[a] \in ToSet(s)
      /\ \A n \in ToSet(s) : \E a \in 1..L : s[a] = n
  <2>1. DOMAIN s = 1..L /\ \A a \in 1..L : s[a] \in 1..N
    BY <1>6
  <2> HIDE DEF s, L, N
  <2> QED BY <2>1 DEF ToSet
<1> HIDE DEF Reason, all, s, L, N
<1>8. ToSet(s) \in SUBSET (1..N) /\ Closed(ToSet(s))
  <2>1. 1 \in 1..L
    BY <1>6
  <2>2. 1 \in ToSet(s) /\ ToSet(s) \in SUBSET (1..N)
    BY <1>6, <1>7, <2>1
  <2>3. ASSUME NEW n \in ToSet(s), NEW m \in Reason(n) PROVE m \in ToSet(s)
    <3>1. PICK a \in 1..L : s[a] = n
      BY <1>7
    <3>2. n \in 1..N /\ m \in 1..N /\ m = Wrapped(exc, n)
      BY <1>4, <1>7, <2>3, <3>1
    <3>3. CASE a = L
      BY <1>3, <1>6, <3>1, <3>2, <3>3
    <3>4. CASE a # L
      <4>1. a \in 1..L - 1 /\ a + 1 \in 1..L
        BY <1>6, <3>1, <3>4
      <4>2. s[a + 1] = m
        BY <1>6, <3>1, <3>2, <4>1
      <4> QED BY <1>7, <4>1, <4>2
    <3> QED BY <3>3, <3>4
  <2> QED BY <2>2, <2>3
<1>9. ASSUME NEW some \in SUBSET (1..N), Closed(some) PROVE ToSet(s) \subseteq some
  <2> DEFINE S == {a \in Nat : a < L => s[a + 1] \in some}
  <2>1. 0 \in S
    BY <1>6, <1>9
  <2>2. ASSUME NEW a \in Nat, a \in S PROVE a + 1 \in S
    <3> SUFFICES ASSUME a + 1 < L PROVE s[a + 1 + 1] \in some
      OBVIOUS
    <3>1. a < L /\ a + 1 \in 1..L - 1 /\ a + 1 \in 1..L /\ a + 1 + 1 \in 1..L
      BY <1>6
    <3>2. s[a + 1] \in some /\ s[a + 1] \in 1..N /\ s[a + 1 + 1] \in 1..N
      BY <1>7, <2>2, <3>1
    <3>3. s[a + 1 + 1] = Wrapped(exc, s[a + 1])
      BY <1>6, <3>1
    <3>4. s[a + 1 + 1] \in Reason(s[a + 1])
      BY <1>4, <3>2, <3>3
    <3> QED BY <1>9, <3>2, <3>4
  <2>3. \A a \in Nat : a \in S
    <3> HIDE DEF S
    <3>1. Nat \subseteq S
      BY <2>1, <2>2, AtEveryLength
    <3> QED BY <3>1
  <2> SUFFICES ASSUME NEW a \in 1..L PROVE s[a] \in some
    BY <1>7
  <2>4. a - 1 \in Nat /\ a - 1 < L /\ a - 1 + 1 = a
    BY <1>6
  <2>5. s[a - 1 + 1] \in some
    BY <2>3, <2>4
  <2> QED BY <2>4, <2>5
<1> HIDE DEF Closed
<1>10. Reasons(exc) \subseteq ToSet(s)
  BY <1>5, <1>8
<1>11. ToSet(s) \subseteq Reasons(exc)
  BY <1>5, <1>8, <1>9
<1> QED BY <1>10, <1>11 DEF s, N

(* The handshake failed if one of the reasons says so.                               *)
LEMMA TlsIs ==
  ASSUME NEW exc, IsException(exc)
  PROVE  TlsCause(exc) # None <=> \E n \in Reasons(exc) : exc.class[n] \in SSLError
<1> DEFINE N == Len(exc.class)
           s == Seen(exc)[N]
           found == {k \in DOMAIN s : exc.class[s[k]] \in SSLError}
<1>1. s \in Seq(1..N) /\ N \in Nat
  BY WalkEnds DEF Walked, IsException
<1>2. Reasons(exc) = ToSet(s)
  BY ReasonsAre
<1>3. TlsCause(exc) = IF found = {} THEN None ELSE s[CHOOSE k \in found : \A l \in found : k <= l]
  BY DEF TlsCause
<1>4. (\E n \in Reasons(exc) : exc.class[n] \in SSLError) <=> found # {}
  BY <1>2 DEF ToSet
<1>5. DOMAIN s \subseteq Nat /\ \A k \in DOMAIN s : s[k] \in 1..N
  BY <1>1
<1> HIDE DEF s, N
<1>6. ASSUME found # {} PROVE TlsCause(exc) # None
  <2>1. found \in SUBSET Nat
    BY <1>5
  <2>2. \E k \in found : \A l \in found : k <= l
    <3> HIDE DEF found
    <3> QED BY <1>6, <2>1, LeastOf
  <2> DEFINE k == CHOOSE k \in found : \A l \in found : k <= l
  <2>3. k \in found
    <3> HIDE DEF found
    <3> QED BY <2>2
  <2>4. s[k] \in 1..N
    <3> HIDE DEF k
    <3> QED BY <1>5, <2>3
  <2>5. TlsCause(exc) = s[k]
    BY <1>3, <1>6
  <2> HIDE DEF k
  <2> QED BY <1>1, <2>4, <2>5, RequestAssumption
<1> QED BY <1>3, <1>4, <1>6

(* The size of an answer, chunk by chunk.                                           *)
SizeSteps(chunks, g, n) == g = [k \in 0..n |-> IF k = 0 THEN 0 ELSE g[k - 1] + chunks[k]]

LEMMA SizeThere ==
  ASSUME NEW chunks
  PROVE  \A n \in Nat : \E g : SizeSteps(chunks, g, n)
<1> DEFINE S == {n \in Nat : \E g : SizeSteps(chunks, g, n)}
<1>1. 0 \in S
  <2> DEFINE h == [k \in 0..0 |-> 0]
  <2>1. SizeSteps(chunks, h, 0)
    BY DEF SizeSteps
  <2> QED BY <2>1
<1>2. ASSUME NEW n \in Nat, NEW g, SizeSteps(chunks, g, n)
      PROVE  \E h : SizeSteps(chunks, h, n + 1)
  <2> DEFINE h == [k \in 0..(n + 1) |-> IF k <= n THEN g[k] ELSE g[n] + chunks[n + 1]]
  <2>1. SizeSteps(chunks, h, n + 1)
    BY <1>2 DEF SizeSteps
  <2> QED BY <2>1
<1>3. Nat \subseteq S
  <2>1. \A n \in Nat : n \in S => n + 1 \in S
    BY <1>2
  <2> HIDE DEF S
  <2> QED BY <1>1, <2>1, AtEveryLength
<1> QED BY <1>3

LEMMA SizeIs ==
  ASSUME NEW chunks \in Seq(Nat)
  PROVE  /\ SizeAfter(chunks)[0] = 0
         /\ \A k \in 0..Len(chunks) : SizeAfter(chunks)[k] \in Nat
         /\ \A k \in 1..Len(chunks) : SizeAfter(chunks)[k] >= SizeAfter(chunks)[k - 1]
<1> DEFINE n == Len(chunks)
           G == CHOOSE g : SizeSteps(chunks, g, n)
           S == {k \in Nat : k <= n => G[k] \in Nat}
<1>1. n \in Nat /\ \A k \in 1..n : chunks[k] \in Nat
  OBVIOUS
<1>2. SizeAfter(chunks) = G
  BY DEF SizeAfter, SizeSteps
<1>3. SizeSteps(chunks, G, n)
  BY <1>1, SizeThere
<1> HIDE DEF G, n
<1>4. G = [k \in 0..n |-> IF k = 0 THEN 0 ELSE G[k - 1] + chunks[k]]
  BY <1>3 DEF SizeSteps
<1>5. \A k \in 0..n : G[k] = IF k = 0 THEN 0 ELSE G[k - 1] + chunks[k]
  BY <1>4
<1>6. G[0] = 0
  BY <1>1, <1>5
<1>7. \A k \in 1..n : G[k] = G[k - 1] + chunks[k]
  BY <1>1, <1>5
<1>8. 0 \in S
  BY <1>6
<1>9. ASSUME NEW k \in Nat, k \in S PROVE k + 1 \in S
  <2> SUFFICES ASSUME k + 1 <= n PROVE G[k + 1] \in Nat
    OBVIOUS
  <2>1. k + 1 \in 1..n /\ k + 1 - 1 = k /\ k <= n
    BY <1>1
  <2>2. G[k + 1] = G[k + 1 - 1] + chunks[k + 1] /\ chunks[k + 1] \in Nat
    BY <1>1, <1>7, <2>1
  <2>3. G[k] \in Nat
    BY <1>9, <2>1
  <2> QED BY <2>1, <2>2, <2>3
<1>10. \A k \in 0..n : G[k] \in Nat
  <2> HIDE DEF S
  <2>1. Nat \subseteq S
    BY <1>8, <1>9, AtEveryLength
  <2> QED BY <1>1, <2>1 DEF S
<1>11. ASSUME NEW k \in 1..n PROVE G[k] >= G[k - 1]
  <2>1. k - 1 \in 0..n
    BY <1>1
  <2>2. G[k] = G[k - 1] + chunks[k] /\ chunks[k] \in Nat /\ G[k - 1] \in Nat
    BY <1>1, <1>7, <1>10, <2>1
  <2> QED BY <2>2
<1> QED BY <1>2, <1>6, <1>10, <1>11 DEF n

(* An answer is too large when it does not come whole.                              *)
LEMMA TooLargeIs ==
  ASSUME NEW wire, wire.chunks \in Seq(Nat), wire.declared \in Nat \cup {None, Malformed}
  PROVE  TooLarge(wire) <=> ~CameWhole(wire)
<1> DEFINE chunks == wire.chunks
           n == Len(chunks)
           Z == SizeAfter(chunks)
           S == {k \in Nat : k <= n => \A l \in 0..k : Z[l] <= Z[k]}
<1>1. n \in Nat /\ DOMAIN chunks = 1..n /\ MaxResponse \in Nat
  BY RequestAssumption
<1>2. /\ Z[0] = 0 /\ \A k \in 0..n : Z[k] \in Nat
      /\ \A k \in 1..n : Z[k] >= Z[k - 1]
  BY SizeIs
<1>3. TooLarge(wire) <=> \/ wire.declared \notin {None, Malformed} /\ wire.declared > MaxResponse
                         \/ \E k \in 1..n : Z[k] > MaxResponse
  BY <1>1 DEF TooLarge
<1>4. CameWhole(wire) <=> Z[n] <= MaxResponse /\ (wire.declared \in {None, Malformed} \/ wire.declared <= MaxResponse)
  BY DEF CameWhole
<1> HIDE DEF Z, n, chunks
<1>5. 0 \in S
  BY <1>2
<1>6. ASSUME NEW k \in Nat, k \in S PROVE k + 1 \in S
  <2> SUFFICES ASSUME k + 1 <= n, NEW l \in 0..k + 1 PROVE Z[l] <= Z[k + 1]
    OBVIOUS
  <2>1. k + 1 \in 1..n /\ k + 1 - 1 = k /\ k <= n /\ k \in 0..n /\ k + 1 \in 0..n /\ l \in 0..n
    BY <1>1
  <2>2. Z[k + 1] >= Z[k] /\ Z[k] \in Nat /\ Z[k + 1] \in Nat /\ Z[l] \in Nat
    BY <1>2, <2>1
  <2>3. l \in 0..k => Z[l] <= Z[k]
    BY <1>6, <2>1
  <2>4. l \in 0..k \/ l = k + 1
    OBVIOUS
  <2> QED BY <2>2, <2>3, <2>4
<1>7. \A l \in 0..n : Z[l] <= Z[n]
  <2> HIDE DEF S
  <2>1. Nat \subseteq S
    BY <1>5, <1>6, AtEveryLength
  <2> QED BY <1>1, <2>1 DEF S
<1>8. (\E k \in 1..n : Z[k] > MaxResponse) <=> Z[n] > MaxResponse
  <2>1. ASSUME NEW k \in 1..n, Z[k] > MaxResponse PROVE Z[n] > MaxResponse
    <3>1. k \in 0..n /\ n \in 0..n
      BY <1>1
    <3>2. Z[k] <= Z[n] /\ Z[k] \in Nat /\ Z[n] \in Nat
      BY <1>2, <1>7, <3>1
    <3> QED BY <1>1, <2>1, <3>2
  <2>2. ASSUME Z[n] > MaxResponse PROVE \E k \in 1..n : Z[k] > MaxResponse
    <3>1. n # 0
      BY <1>1, <1>2, <2>2
    <3>2. n \in 1..n
      BY <1>1, <3>1
    <3> QED BY <2>2, <3>2
  <2> QED BY <2>1, <2>2
<1>9. Z[n] \in Nat
  BY <1>1, <1>2
<1> QED BY <1>1, <1>3, <1>4, <1>8, <1>9

--------------------------------------------------------------------------------
(* What a caller is told.                                                         *)

IsWire(wire) ==
  /\ wire.exc # None =>
       /\ IsException(wire.exc)
       /\ wire.came \in {"connecting", "sending", "reading"} /\ wire.exc.class[1] \in Raised[wire.came]
  /\ wire.status \in Nat /\ wire.declared \in Nat \cup {None, Malformed} /\ wire.chunks \in Seq(Nat)
  /\ wire.body.message # None => IsSaid(wire.body.message)

LEMMA HttpxIs ==
  ASSUME NEW wire, IsWire(wire), wire.exc # None
  PROVE  LET exc == wire.exc
             a   == from_httpx(exc)
         IN  /\ a.tried = TRUE /\ a.error \in {"timeout", "tls", "malformed_response", "connection"}
             /\ a.not_sent <=> wire.came = "connecting" /\ exc.class[1] # "UnsupportedProtocol"
             /\ a.not_sent <=> exc.class[1] \in {"ConnectError", "ConnectTimeout", "PoolTimeout"}
             /\ exc.class[1] = "ConnectError" =>
                  (a.error = "tls" <=> \E n \in Reasons(exc) : exc.class[n] \in SSLError)
<1> DEFINE exc == wire.exc
           c == exc.class[1]
           tls == TlsCause(exc)
           a == from_httpx(exc)
<1>1. tls # None <=> \E n \in Reasons(exc) : exc.class[n] \in SSLError
  BY TlsIs DEF IsWire
<1>2. c \in Raised[wire.came] /\ wire.came \in {"connecting", "sending", "reading"}
  BY DEF IsWire
<1>3. /\ wire.came = "connecting" => c \in {"ConnectError", "ConnectTimeout", "PoolTimeout", "UnsupportedProtocol"}
      /\ wire.came = "sending" => c \in {"WriteError", "WriteTimeout"}
      /\ wire.came = "reading" => c \in {"ReadError", "ReadTimeout", "RemoteProtocolError", "DecodingError"}
  BY <1>2 DEF Raised
<1>4. NotSent(exc) <=> wire.came = "connecting" /\ c # "UnsupportedProtocol"
  BY <1>2, <1>3 DEF NotSent
<1>5. /\ a.tried = TRUE /\ a.error \in {"timeout", "tls", "malformed_response", "connection"}
      /\ a.not_sent = (IF c = "DecodingError" THEN FALSE ELSE NotSent(exc))
      /\ c = "ConnectError" => (a.error = "tls" <=> tls # None)
  BY DEF from_httpx, SoarError, TimeoutException
<1>6. c = "DecodingError" => ~NotSent(exc)
  BY DEF NotSent
<1>7. NotSent(exc) <=> c \in {"ConnectError", "ConnectTimeout", "PoolTimeout"}
  BY DEF NotSent
<1> HIDE DEF tls
<1> QED BY <1>1, <1>4, <1>5, <1>6, <1>7

Codes == {"auth", "forbidden", "not_found", "conflict", "validation", "soar_rate_limited", "server_error", "soar_error"}

LEMMA CodeIs ==
  ASSUME NEW status \in Nat
  PROVE  CodeOf(status) \in Codes /\ (CodeOf(status) \in {"forbidden", "not_found"} <=> status \in {403, 404})
<1>1. CASE status = 401
  BY <1>1 DEF CodeOf, Codes
<1>2. CASE status = 403
  BY <1>2 DEF CodeOf, Codes
<1>3. CASE status = 404
  BY <1>3 DEF CodeOf, Codes
<1>4. CASE status = 409
  BY <1>4 DEF CodeOf, Codes
<1>5. CASE status \in {400, 422}
  BY <1>5 DEF CodeOf, Codes
<1>6. CASE status = 429
  BY <1>6 DEF CodeOf, Codes
<1>7. CASE status >= 500
  BY <1>7 DEF CodeOf, Codes
<1>8. CASE status \notin {400, 401, 403, 404, 409, 422, 429} /\ ~(status >= 500)
  BY <1>8 DEF CodeOf, Codes
<1> QED BY <1>1, <1>2, <1>3, <1>4, <1>5, <1>6, <1>7, <1>8

(* The six ways a request ends.                                                    *)
EndsRefused(a) == a.tried = FALSE /\ a.error = "validation" /\ a.not_sent = TRUE /\ a.message = None

EndsCut(wire, a) ==
  /\ ~CameWhole(wire)
  /\ a.tried = TRUE /\ a.error = "response_too_large" /\ a.not_sent = FALSE /\ a.message = None

EndsInError(wire, a) ==
  /\ CameWhole(wire) /\ wire.status >= 400
  /\ a.tried = TRUE /\ a.error = CodeOf(wire.status) /\ a.not_sent = FALSE /\ a.status = wire.status
  /\ a.message # None => wire.body.message # None /\ a.message = Quoted(wire.body.message)

EndsGarbled(wire, a) ==
  /\ CameWhole(wire) /\ wire.status < 400 /\ wire.body.is = "not json"
  /\ a.tried = TRUE /\ a.error = "malformed_response" /\ a.not_sent = FALSE /\ a.status = wire.status /\ a.message = None

EndsWell(wire, a) ==
  /\ CameWhole(wire) /\ wire.status < 400 /\ wire.body.is # "not json"
  /\ a.tried = TRUE /\ a.error = None /\ a.body = wire.body

LEMMA Below == \A n \in Nat : /\ n < 400 <=> ~(n >= 400)
                             /\ n < 400 => n \notin {403, 404}
OBVIOUS

LEMMA RequestEnds ==
  ASSUME NEW call, NEW wire, IsWire(wire)
  PROVE  /\ NotInContract(call) => EndsRefused(request(call, wire))
         /\ ~NotInContract(call) /\ wire.exc # None => request(call, wire) = from_httpx(wire.exc)
         /\ ~NotInContract(call) /\ wire.exc = None =>
              LET a == request(call, wire)
              IN  EndsCut(wire, a) \/ EndsInError(wire, a) \/ EndsGarbled(wire, a) \/ EndsWell(wire, a)
<1> DEFINE a == request(call, wire)
           status == wire.status
           body == IF wire.body.is = "json" THEN wire.body ELSE NoBody
<1>1. TooLarge(wire) <=> ~CameWhole(wire)
  BY TooLargeIs DEF IsWire
<1>2. status < 400 <=> ~(status >= 400)
  <2>1. status \in Nat
    BY DEF IsWire
  <2> HIDE DEF status
  <2> QED BY <2>1, Below
<1>3. NotInContract(call) => EndsRefused(a)
  BY DEF request, SoarError, EndsRefused
<1>4. ~NotInContract(call) /\ wire.exc # None => a = from_httpx(wire.exc)
  BY DEF request
<1> DEFINE Came == ~NotInContract(call) /\ wire.exc = None
<1>5. Came /\ ~CameWhole(wire) => EndsCut(wire, a)
  <2>1. Came /\ ~CameWhole(wire) => a = SoarError("response_too_large", None, FALSE, None)
    BY <1>1 DEF request
  <2> HIDE DEF a
  <2> QED BY <2>1 DEF SoarError, EndsCut
<1>6. Came /\ CameWhole(wire) /\ status >= 400 => EndsInError(wire, a)
  <2> DEFINE message == IF status \in {401, 429} \/ body.message = None THEN None ELSE Quoted(body.message)
  <2>1. Came /\ CameWhole(wire) /\ status >= 400 => a = SoarError(CodeOf(status), status, FALSE, message)
    BY <1>1 DEF request, from_status
  <2>2. message # None => wire.body.message # None /\ message = Quoted(wire.body.message)
    BY DEF NoBody
  <2> HIDE DEF a, message
  <2> QED BY <2>1, <2>2 DEF SoarError, EndsInError
<1>7. Came /\ CameWhole(wire) /\ ~(status >= 400) /\ wire.body.is = "not json" => EndsGarbled(wire, a)
  <2>1. Came /\ CameWhole(wire) /\ ~(status >= 400) /\ wire.body.is = "not json" =>
          a = SoarError("malformed_response", status, FALSE, None)
    BY <1>1 DEF request
  <2> DEFINE e == SoarError("malformed_response", status, FALSE, None)
  <2>2. e.tried = TRUE /\ e.error = "malformed_response" /\ e.not_sent = FALSE /\ e.status = status /\ e.message = None
    BY DEF SoarError
  <2> HIDE DEF a, e
  <2>3. Came /\ CameWhole(wire) /\ ~(status >= 400) /\ wire.body.is = "not json" => a = e /\ status < 400
    BY <1>2, <2>1 DEF e
  <2> HIDE DEF Came
  <2> QED BY <2>2, <2>3 DEF EndsGarbled
<1>8. Came /\ CameWhole(wire) /\ ~(status >= 400) /\ wire.body.is # "not json" => EndsWell(wire, a)
  <2>1. Came /\ CameWhole(wire) /\ ~(status >= 400) /\ wire.body.is # "not json" =>
          a = [tried |-> TRUE, error |-> None, body |-> wire.body, with |-> Parameters(call)]
    BY <1>1 DEF request
  <2> DEFINE e == [tried |-> TRUE, error |-> None, body |-> wire.body, with |-> Parameters(call)]
  <2>2. e.tried = TRUE /\ e.error = None /\ e.body = wire.body
    OBVIOUS
  <2> HIDE DEF a, e
  <2>3. Came /\ CameWhole(wire) /\ ~(status >= 400) /\ wire.body.is # "not json" => a = e /\ status < 400
    BY <1>2, <2>1 DEF e
  <2> HIDE DEF Came
  <2> QED BY <2>2, <2>3 DEF EndsWell
<1>9. Came => EndsCut(wire, a) \/ EndsInError(wire, a) \/ EndsGarbled(wire, a) \/ EndsWell(wire, a)
  <2> HIDE DEF a
  <2> QED BY <1>5, <1>6, <1>7, <1>8
<1> HIDE DEF a
<1> QED BY <1>3, <1>4, <1>9 DEF a

\* What is told of a request is what happened to it.
IsTold(call, wire) ==
  LET answer == request(call, wire)
      lost   == wire.exc # None
      whole  == CameWhole(wire)
  IN  /\ answer.tried /\ answer.error # None /\ RulesOutTheWrite(answer) => lost /\ wire.came = "connecting"
      /\ answer.tried /\ lost /\ wire.exc.class[1] \in {"ConnectError", "ConnectTimeout", "PoolTimeout"} =>
           RulesOutTheWrite(answer)
      /\ answer.error = None <=> answer.tried /\ ~lost /\ whole /\ wire.status < 400 /\ wire.body.is # "not json"
      /\ answer.error = None => answer.body = wire.body
      /\ answer.tried /\ ~lost /\ whole /\ answer.error # None => answer.status = wire.status
      /\ answer.tried /\ lost /\ wire.exc.class[1] = "ConnectError" =>
           (answer.error = "tls" <=> \E n \in Reasons(wire.exc) : wire.exc.class[n] \in SSLError)
      /\ ~lost /\ answer.error # None /\ answer.message # None =>
           ToSet(answer.message) \subseteq {"x"} \cup ToSet(REDACTED)
      /\ ~answer.tried => RulesOutTheWrite(answer)
      /\ answer.tried /\ call.method = "PUT" => call.task /\ Parameters(call) = {}

LEMMA RequestTold ==
  ASSUME NEW call, NEW wire, IsWire(wire), Sensitive = OwnSecrets
  PROVE  IsTold(call, wire)
<1> DEFINE a == request(call, wire)
<1>1. /\ NotInContract(call) => EndsRefused(a)
      /\ ~NotInContract(call) /\ wire.exc # None => a = from_httpx(wire.exc)
      /\ ~NotInContract(call) /\ wire.exc = None =>
           EndsCut(wire, a) \/ EndsInError(wire, a) \/ EndsGarbled(wire, a) \/ EndsWell(wire, a)
  BY RequestEnds
<1>2. ~NotInContract(call) /\ call.method = "PUT" => call.task /\ Parameters(call) = {}
  BY DEF NotInContract, Parameters
<1>3. wire.status \in Nat /\ (wire.status >= 400 => ~(wire.status < 400))
  BY DEF IsWire
<1> HIDE DEF a
<1>4. CASE NotInContract(call)
  <2>1. a.tried = FALSE /\ a.error # None /\ a.not_sent = TRUE /\ a.message = None
    BY <1>1, <1>4, RequestAssumption DEF EndsRefused
  <2> QED BY <2>1 DEF IsTold, RulesOutTheWrite, a
<1>5. CASE ~NotInContract(call) /\ wire.exc # None
  <2>1. a = from_httpx(wire.exc)
    BY <1>1, <1>5
  <2>2. /\ a.tried = TRUE /\ a.error \in {"timeout", "tls", "malformed_response", "connection"}
        /\ a.not_sent <=> wire.came = "connecting" /\ wire.exc.class[1] # "UnsupportedProtocol"
        /\ a.not_sent <=> wire.exc.class[1] \in {"ConnectError", "ConnectTimeout", "PoolTimeout"}
        /\ wire.exc.class[1] = "ConnectError" =>
             (a.error = "tls" <=> \E n \in Reasons(wire.exc) : wire.exc.class[n] \in SSLError)
    BY <1>5, <2>1, HttpxIs
  <2>3. a.error # None
    BY <2>2, RequestAssumption
  <2> QED BY <1>2, <1>5, <2>2, <2>3 DEF IsTold, RulesOutTheWrite, a
<1>6. CASE ~NotInContract(call) /\ wire.exc = None
  <2>1. wire.body.message # None => ToSet(Quoted(wire.body.message)) \subseteq {"x"} \cup ToSet(REDACTED)
    <3>1. wire.body.message # None => IsSaid(wire.body.message)
      BY DEF IsWire
    <3> QED BY <3>1, QuotedIs, RequestAssumption
  <2>2. CASE EndsCut(wire, a)
    <3>1. a.tried = TRUE /\ a.error # None /\ a.not_sent = FALSE /\ a.message = None /\ ~CameWhole(wire)
      BY <2>2, RequestAssumption DEF EndsCut
    <3> QED BY <1>2, <1>6, <3>1 DEF IsTold, RulesOutTheWrite, a
  <2>3. CASE EndsInError(wire, a)
    <3>1. CodeOf(wire.status) # None
      BY <1>3, CodeIs, RequestAssumption DEF Codes
    <3>2. /\ a.tried = TRUE /\ a.error # None /\ a.not_sent = FALSE /\ a.status = wire.status
          /\ ~(wire.status < 400) /\ (a.message # None => ToSet(a.message) \subseteq {"x"} \cup ToSet(REDACTED))
      BY <1>3, <2>1, <2>3, <3>1 DEF EndsInError
    <3> QED BY <1>2, <1>6, <3>2 DEF IsTold, RulesOutTheWrite, a
  <2>4. CASE EndsGarbled(wire, a)
    <3>1. a.tried = TRUE /\ a.error # None /\ a.not_sent = FALSE /\ a.status = wire.status /\ a.message = None
      BY <2>4, RequestAssumption DEF EndsGarbled
    <3> QED BY <1>2, <1>6, <2>4, <3>1 DEF IsTold, RulesOutTheWrite, EndsGarbled, a
  <2>5. CASE EndsWell(wire, a)
    BY <1>2, <1>6, <2>5 DEF IsTold, RulesOutTheWrite, EndsWell, a
  <2> QED BY <1>1, <1>6, <2>2, <2>3, <2>4, <2>5
<1> QED BY <1>4, <1>5, <1>6

(* The session: the search must answer, the key need not have one.                 *)
PingTells(search, session) ==
  ping(search, session).error = None <=>
    /\ search.exc = None /\ CameWhole(search) /\ search.status < 400
    /\ search.body.is = "json" /\ search.body.data
    /\ session.exc = None /\ CameWhole(session)
    /\ \/ session.status < 400 /\ session.body.is # "not json"
       \/ session.status \in {403, 404}

LEMMA PingTold ==
  ASSUME NEW search, IsWire(search), NEW session, IsWire(session)
  PROVE  PingTells(search, session)
<1> DEFINE found == post(TRUE, search)
           who == get(FALSE, session)
           Came(w) == w.exc = None /\ CameWhole(w)
           Well(w) == Came(w) /\ w.status < 400 /\ w.body.is # "not json"
           Says(a, w) == /\ a.error = None <=> Well(w)
                         /\ a.error = None => a.body = w.body
                         /\ a.error \in {"forbidden", "not_found"} <=> Came(w) /\ w.status \in {403, 404}
<1>0. ASSUME NEW call, ~NotInContract(call), NEW wire, IsWire(wire)
      PROVE  Says(request(call, wire), wire)
  <2> DEFINE a == request(call, wire)
  <2>1. /\ wire.exc # None => a = from_httpx(wire.exc)
        /\ wire.exc = None => EndsCut(wire, a) \/ EndsInError(wire, a) \/ EndsGarbled(wire, a) \/ EndsWell(wire, a)
    BY <1>0, RequestEnds
  <2>2. wire.status \in Nat
    BY <1>0 DEF IsWire
  <2>9. wire.status < 400 => wire.status \notin {403, 404}
    <3> DEFINE st == wire.status
    <3>1. st \in Nat
      BY <2>2
    <3> HIDE DEF st
    <3>2. st < 400 => st \notin {403, 404}
      BY <3>1
    <3> QED BY <3>2 DEF st
  <2>3. /\ CodeOf(wire.status) # None
        /\ CodeOf(wire.status) \in {"forbidden", "not_found"} <=> wire.status \in {403, 404}
    <3>1. CodeOf(wire.status) \in Codes
      BY <2>2, CodeIs
    <3>2. CodeOf(wire.status) # None
      BY <3>1, RequestAssumption DEF Codes
    <3> QED BY <2>2, <3>2, CodeIs
  <2> HIDE DEF a
  <2> SUFFICES Says(a, wire)
    BY DEF a
  <2>b. ASSUME a.error # None, a.error \notin {"forbidden", "not_found"}, ~Came(wire)
        PROVE  Says(a, wire)
    <3>1. ~Well(wire)
      BY <2>b
    <3> HIDE DEF Well, Came
    <3> QED BY <2>b, <3>1
  <2>4. CASE wire.exc # None
    <3>1. a.error \in {"timeout", "tls", "malformed_response", "connection"}
      BY <1>0, <2>1, <2>4, HttpxIs
    <3>2. a.error # None /\ a.error \notin {"forbidden", "not_found"}
      BY <3>1, RequestAssumption
    <3>3. ~Came(wire)
      BY <2>4
    <3> QED BY <2>b, <3>2, <3>3
  <2>5. CASE wire.exc = None /\ EndsCut(wire, a)
    <3>1. a.error # None /\ a.error \notin {"forbidden", "not_found"} /\ ~CameWhole(wire)
      BY <2>5, RequestAssumption DEF EndsCut
    <3>2. ~Came(wire)
      BY <3>1
    <3> QED BY <2>b, <3>1, <3>2
  <2>6. CASE wire.exc = None /\ EndsInError(wire, a)
    <3>1. a.error = CodeOf(wire.status) /\ CameWhole(wire) /\ ~(wire.status < 400)
      BY <2>2, <2>6 DEF EndsInError
    <3>2. Came(wire) /\ ~Well(wire)
      BY <2>6, <3>1
    <3>3. a.error # None
      BY <2>3, <3>1
    <3>4. a.error \in {"forbidden", "not_found"} <=> wire.status \in {403, 404}
      BY <2>3, <3>1
    <3> HIDE DEF Well, Came
    <3> QED BY <3>2, <3>3, <3>4
  <2>7. CASE wire.exc = None /\ EndsGarbled(wire, a)
    <3>1. a.error # None /\ a.error \notin {"forbidden", "not_found"} /\ wire.status < 400 /\ wire.body.is = "not json"
      BY <2>7, RequestAssumption DEF EndsGarbled
    <3>2. wire.status \notin {403, 404}
      BY <2>2, <2>9, <3>1
    <3> QED BY <3>1, <3>2
  <2>8. CASE wire.exc = None /\ EndsWell(wire, a)
    <3>1. a.error = None /\ a.body = wire.body /\ CameWhole(wire) /\ wire.status < 400 /\ wire.body.is # "not json"
      BY <2>8 DEF EndsWell
    <3>2. wire.status \notin {403, 404}
      BY <2>2, <2>9, <3>1
    <3>3. a.error \notin {"forbidden", "not_found"}
      BY <3>1, RequestAssumption
    <3> QED BY <2>8, <3>1, <3>2, <3>3
  <2> QED BY <2>1, <2>4, <2>5, <2>6, <2>7, <2>8
<1>a. ASSUME NEW call, ~NotInContract(call), NEW wire, IsWire(wire)
      PROVE  LET a == request(call, wire) IN
             /\ a.error = None <=> Well(wire)
             /\ a.error = None => a.body = wire.body
             /\ a.error \in {"forbidden", "not_found"} <=> Came(wire) /\ wire.status \in {403, 404}
  <2> HIDE DEF Well, Came
  <2> QED BY <1>0, <1>a DEF Says
<1> HIDE DEF Well, Says
<1>1. (found.error = None <=> Well(search)) /\ (found.error = None => found.body = search.body)
  <2> DEFINE call == [PlainCall("POST") EXCEPT !.params = TRUE]
  <2>1. ~NotInContract(call)
    BY DEF NotInContract, PlainCall, Methods
  <2>2. found = request(call, search)
    BY DEF post
  <2> HIDE DEF call, found
  <2> QED BY <1>a, <2>1, <2>2
<1>2. /\ who.error = None <=> Well(session)
      /\ who.error \in {"forbidden", "not_found"} <=> Came(session) /\ session.status \in {403, 404}
  <2> DEFINE call == [PlainCall("GET") EXCEPT !.params = FALSE]
  <2>1. ~NotInContract(call)
    BY DEF NotInContract, PlainCall, Methods
  <2>2. who = request(call, session)
    BY DEF get
  <2> HIDE DEF call, who
  <2> QED BY <1>a, <2>1, <2>2
<1>3. ping(search, session) =
        IF found.error # None THEN found
        ELSE IF found.body.is # "json" \/ ~found.body.data THEN SoarError("malformed_response", None, FALSE, None)
        ELSE IF who.error \in {"forbidden", "not_found"} THEN [error |-> None, session |-> who.status]
        ELSE IF who.error # None THEN who
        ELSE [error |-> None, session |-> "ok"]
  BY DEF ping
<1>4. SoarError("malformed_response", None, FALSE, None).error # None
  BY RequestAssumption DEF SoarError
<1> HIDE DEF found, who, Came
<1> DEFINE p == ping(search, session)
<1> HIDE DEF p
<1>5. p.error = None <=>
        /\ found.error = None /\ found.body.is = "json" /\ found.body.data
        /\ who.error \in {"forbidden", "not_found"} \/ who.error = None
  <2>1. CASE found.error # None
    <3>1. p = found
      BY <1>3, <2>1 DEF p
    <3> QED BY <2>1, <3>1
  <2>2. CASE found.error = None /\ (found.body.is # "json" \/ ~found.body.data)
    <3>1. p = SoarError("malformed_response", None, FALSE, None)
      BY <1>3, <2>2 DEF p
    <3> QED BY <1>4, <2>2, <3>1
  <2>3. CASE found.error = None /\ found.body.is = "json" /\ found.body.data
    <3>1. p = IF who.error \in {"forbidden", "not_found"} THEN [error |-> None, session |-> who.status]
              ELSE IF who.error # None THEN who ELSE [error |-> None, session |-> "ok"]
      BY <1>3, <2>3 DEF p
    <3>2. p.error = None <=> who.error \in {"forbidden", "not_found"} \/ who.error = None
      BY <3>1
    <3> QED BY <2>3, <3>2
  <2> QED BY <2>1, <2>2, <2>3
<1>6. ping(search, session).error = None <=>
        /\ Well(search) /\ search.body.is = "json" /\ search.body.data
        /\ (Came(session) /\ session.status \in {403, 404}) \/ Well(session)
  BY <1>1, <1>2, <1>5 DEF p
<1> DEFINE answered == ping(search, session).error = None
           json == search.body.is = "json"
           garbled == search.body.is = "not json"
           data == search.body.data
           found_came == search.exc = None /\ CameWhole(search)
           found_low == search.status < 400
           known_came == session.exc = None /\ CameWhole(session)
           known_well == session.status < 400 /\ session.body.is # "not json"
           nameless == session.status \in {403, 404}
<1>7. json => ~garbled
  OBVIOUS
<1>8. answered <=> Well(search) /\ json /\ data /\ ((Came(session) /\ nameless) \/ Well(session))
  BY <1>6
<1>9. (Well(search) <=> found_came /\ found_low /\ ~garbled) /\ (Came(session) <=> known_came)
  BY DEF Well, Came
<1>10. Well(session) <=> known_came /\ known_well
  BY DEF Well, Came
<1> HIDE DEF answered, json, garbled, data, found_came, found_low, known_came, known_well, nameless
<1>11. answered <=> found_came /\ found_low /\ json /\ data /\ known_came /\ (known_well \/ nameless)
  BY <1>7, <1>8, <1>9, <1>10, Zenon
<1> QED BY <1>11, Zenon DEF PingTells, answered, json, data, found_came, found_low, known_came, known_well, nameless

LEMMA RequestsTold ==
  ASSUME Sensitive = OwnSecrets,
         asked.kind = "request" => IsWire(asked.wire),
         asked.kind = "ping" => IsWire(asked.search) /\ IsWire(asked.session)
  PROVE  ToldWhatHappened
<1>1. asked.kind = "request" => IsTold(asked.call, asked.wire)
  BY RequestTold
<1>2. asked.kind = "ping" => PingTells(asked.search, asked.session)
  BY PingTold
<1> QED BY <1>1, <1>2 DEF ToldWhatHappened, IsTold, PingTells

--------------------------------------------------------------------------------
(* Tools, as they are declared.                                                   *)

IsDeclared(d) == d.name \in Int /\ d.tier \in Int /\ d.tier >= READ

RegistrySteps(tools, g, n) == g = [k \in 0..n |-> IF k = 0 THEN <<>> ELSE soar_tool(g[k - 1], tools[k])]

LEMMA RegistryThere ==
  ASSUME NEW tools
  PROVE  \A n \in Nat : \E g : RegistrySteps(tools, g, n)
<1> DEFINE S == {n \in Nat : \E g : RegistrySteps(tools, g, n)}
<1>1. 0 \in S
  <2> DEFINE h == [k \in 0..0 |-> <<>>]
  <2>1. RegistrySteps(tools, h, 0)
    BY DEF RegistrySteps
  <2> QED BY <2>1
<1>2. ASSUME NEW n \in Nat, NEW g, RegistrySteps(tools, g, n)
      PROVE  \E h : RegistrySteps(tools, h, n + 1)
  <2> DEFINE h == [k \in 0..(n + 1) |-> IF k <= n THEN g[k] ELSE soar_tool(g[n], tools[n + 1])]
  <2>1. RegistrySteps(tools, h, n + 1)
    BY <1>2 DEF RegistrySteps
  <2> QED BY <2>1
<1>3. Nat \subseteq S
  <2>1. \A n \in Nat : n \in S => n + 1 \in S
    BY <1>2
  <2> HIDE DEF S
  <2> QED BY <1>1, <2>1, AtEveryLength
<1> QED BY <1>3

LEMMA RegistryIs ==
  ASSUME NEW tools, Len(tools) \in Nat
  PROVE  /\ Registry(tools)[0] = <<>>
         /\ \A k \in 0..Len(tools) - 1 : Registry(tools)[k + 1] = soar_tool(Registry(tools)[k], tools[k + 1])
<1> DEFINE n == Len(tools)
           G == CHOOSE g : RegistrySteps(tools, g, n)
<1>1. n \in Nat
  OBVIOUS
<1>2. Registry(tools) = G
  BY DEF Registry, RegistrySteps
<1>3. RegistrySteps(tools, G, n)
  BY <1>1, RegistryThere
<1> HIDE DEF G, n
<1>4. G = [k \in 0..n |-> IF k = 0 THEN <<>> ELSE soar_tool(G[k - 1], tools[k])]
  BY <1>3 DEF RegistrySteps
<1>5. \A k \in 0..n : G[k] = IF k = 0 THEN <<>> ELSE soar_tool(G[k - 1], tools[k])
  BY <1>4
<1>6. G[0] = <<>>
  BY <1>1, <1>5
<1>7. ASSUME NEW k \in 0..n - 1 PROVE G[k + 1] = soar_tool(G[k], tools[k + 1])
  <2>1. k + 1 \in 0..n /\ k + 1 # 0 /\ k + 1 - 1 = k
    BY <1>1
  <2>2. G[k + 1] = IF k + 1 = 0 THEN <<>> ELSE soar_tool(G[k + 1 - 1], tools[k + 1])
    BY <1>5, <2>1
  <2> QED BY <2>1, <2>2
<1> QED BY <1>2, <1>6, <1>7 DEF n

SpecOf(d) ==
  [name |-> d.name, tier |-> d.tier, capability |-> d.capability, mutations |-> MutationsOf(d),
   unsupported |-> d.unsupported # None, params |-> d.params]

\* What DeclarationOK says of a tool whatever the others are.
Fits(d) ==
  /\ d.tier < HIGH_RISK
  /\ CapabilityFits(d)
  /\ d.tier >= APPROVAL_REQUIRED_FROM => "approval_id" \in ToSet(d.params)
  /\ d.tier < MUTATING_FROM => MutationsOf(d) = 0

\* The first k tools are in the registry r, each under a name of its own.
Registered(tools, k, r) ==
  /\ r \in Seq({SpecOf(tools[i]) : i \in 1..k}) /\ Len(r) = k
  /\ \A i \in 1..k : r[i] = SpecOf(tools[i]) /\ Fits(tools[i])
  /\ \A i, j \in 1..k : i # j => tools[i].name # tools[j].name

LEMMA OneMoreTool ==
  ASSUME NEW tools, NEW k \in Nat, NEW r, Registered(tools, k, r), tools[k + 1].tier \in Int,
         soar_tool(r, tools[k + 1]) # Malformed
  PROVE  Registered(tools, k + 1, soar_tool(r, tools[k + 1]))
<1> DEFINE d == tools[k + 1]
           t == Append(r, SpecOf(d))
           names == {r[i].name : i \in DOMAIN r}
           S == {SpecOf(tools[i]) : i \in 1..k}
           T == {SpecOf(tools[i]) : i \in 1..k + 1}
<1>1. soar_tool(r, d) = t /\ DeclarationOK(names, d)
  BY DEF soar_tool, SpecOf
<1>2. r \in Seq(S) /\ Len(r) = k /\ DOMAIN r = 1..k
  BY DEF Registered
<1>3. Fits(d)
  <2>1. d.tier \in Int
    OBVIOUS
  <2> HIDE DEF d, names
  <2> QED BY <1>1, <2>1 DEF Fits, DeclarationOK, MUTATING_FROM, APPROVAL_REQUIRED_FROM, DOCUMENTATION, CONTROL, HIGH_RISK
<1>4. \A i \in 1..k : r[i] = SpecOf(tools[i]) /\ r[i].name = tools[i].name
  BY DEF Registered, SpecOf
<1>5. d.name \notin names
  BY <1>1 DEF DeclarationOK
<1>6. \A i \in 1..k : tools[i].name # d.name
  BY <1>2, <1>4, <1>5
<1>7. S \subseteq T /\ SpecOf(d) \in T
  BY DEF d
<1>8. t \in Seq(T) /\ Len(t) = k + 1 /\ t[k + 1] = SpecOf(d) /\ \A i \in 1..k : t[i] = r[i]
  <2>1. r \in Seq(T)
    <3> HIDE DEF S, T
    <3> QED BY <1>2, <1>7
  <2> HIDE DEF T
  <2> QED BY <1>2, <1>7, <2>1
<1>9. \A i \in 1..k + 1 : i \in 1..k \/ i = k + 1
  OBVIOUS
<1>10. ASSUME NEW i \in 1..k + 1 PROVE t[i] = SpecOf(tools[i]) /\ Fits(tools[i])
  <2>1. \A j \in 1..k : Fits(tools[j])
    BY DEF Registered
  <2>2. CASE i = k + 1
    BY <1>3, <1>8, <2>2
  <2>3. CASE i \in 1..k
    BY <1>4, <1>8, <2>1, <2>3
  <2> QED BY <1>9, <2>2, <2>3
<1>11. \A i, j \in 1..k + 1 : i # j => tools[i].name # tools[j].name
  <2>1. \A i, j \in 1..k : i # j => tools[i].name # tools[j].name
    BY DEF Registered
  <2> QED BY <1>6, <1>9, <2>1
<1> HIDE DEF t
<1> QED BY <1>1, <1>8, <1>10, <1>11 DEF Registered

LEMMA AllRegistered ==
  ASSUME NEW tools, Len(tools) \in Nat, \A i \in 1..Len(tools) : IsDeclared(tools[i]),
         Registry(tools)[Len(tools)] # Malformed
  PROVE  Registered(tools, Len(tools), Registry(tools)[Len(tools)])
<1> DEFINE n == Len(tools)
           G == Registry(tools)
           S == {k \in Nat : k <= n /\ G[k] # Malformed => Registered(tools, k, G[k])}
<1>1. n \in Nat /\ \A i \in 1..n : tools[i].tier \in Int
  BY DEF IsDeclared
<1>2. G[0] = <<>> /\ \A k \in 0..n - 1 : G[k + 1] = soar_tool(G[k], tools[k + 1])
  BY RegistryIs
<1> HIDE DEF G, n
<1>3. 0 \in S
  <2>1. Registered(tools, 0, <<>>)
    BY DEF Registered
  <2> QED BY <1>2, <2>1
<1>4. ASSUME NEW k \in Nat, k \in S PROVE k + 1 \in S
  <2> SUFFICES ASSUME k + 1 <= n, G[k + 1] # Malformed PROVE Registered(tools, k + 1, G[k + 1])
    OBVIOUS
  <2>1. k \in 0..n - 1 /\ k + 1 \in 1..n /\ k <= n
    BY <1>1
  <2>2. G[k + 1] = soar_tool(G[k], tools[k + 1])
    BY <1>2, <2>1
  <2>3. G[k] # Malformed
    BY <2>2 DEF soar_tool
  <2>4. Registered(tools, k, G[k]) /\ tools[k + 1].tier \in Int
    BY <1>1, <1>4, <2>1, <2>3
  <2> QED BY <2>2, <2>4, OneMoreTool
<1>5. n \in S
  <2> HIDE DEF S
  <2>1. Nat \subseteq S
    BY <1>3, <1>4, AtEveryLength
  <2> QED BY <1>1, <2>1
<1>6. n <= n
  BY <1>1
<1> QED BY <1>5, <1>6 DEF G, n

(* By tier and name there is one order of them.                                    *)
InRegistry(r) ==
  /\ Len(r) \in Nat /\ DOMAIN r = 1..Len(r)
  /\ \A i \in 1..Len(r) : r[i].name \in Int /\ r[i].tier \in Int
  /\ \A i, j \in 1..Len(r) : i # j => r[i].name # r[j].name

LEMMA TellsInOrder ==
  ASSUME NEW r, InRegistry(r)
  PROVE  /\ \A i, j \in 1..Len(r) : i # j => TellsBefore(r[i], r[j]) \/ TellsBefore(r[j], r[i])
         /\ \A i \in 1..Len(r) : ~TellsBefore(r[i], r[i])
         /\ \A i, j, k \in 1..Len(r) : TellsBefore(r[i], r[j]) /\ TellsBefore(r[j], r[k]) => TellsBefore(r[i], r[k])
<1> DEFINE n == Len(r)
           T(i) == r[i].tier
           M(i) == r[i].name
           B(i, j) == T(i) < T(j) \/ (T(i) = T(j) /\ M(i) < M(j))
<1>1. \A i \in 1..n : T(i) \in Int /\ M(i) \in Int
  BY DEF InRegistry
<1>2. \A i, j \in 1..n : i # j => M(i) # M(j)
  BY DEF InRegistry
<1>3. \A i, j \in 1..n : TellsBefore(r[i], r[j]) <=> B(i, j)
  BY DEF TellsBefore
<1> HIDE DEF T, M, n
<1>4. \A i, j \in 1..n : i # j => B(i, j) \/ B(j, i)
  BY <1>1, <1>2
<1>5. \A i \in 1..n : ~B(i, i)
  BY <1>1
<1>6. \A i, j, k \in 1..n : B(i, j) /\ B(j, k) => B(i, k)
  BY <1>1
<1> HIDE DEF B
<1> QED BY <1>3, <1>4, <1>5, <1>6 DEF n

Before(r, i) == {j \in 1..Len(r) : TellsBefore(r[j], r[i])}

\* Where a tool is told.
Place(r, i) == Cardinality(Before(r, i)) + 1

LEMMA PlaceIs ==
  ASSUME NEW r, InRegistry(r)
  PROVE  /\ \A i \in 1..Len(r) : Place(r, i) \in 1..Len(r)
         /\ \A i, j \in 1..Len(r) : TellsBefore(r[i], r[j]) => Place(r, i) < Place(r, j)
<1> DEFINE n == Len(r)
<1>1. n \in Nat
  BY DEF InRegistry
<1>2. IsFiniteSet(1..n) /\ Cardinality(1..n) = n
  <2>1. IsFiniteSet(1..n) /\ Cardinality(1..n) = IF 1 > n THEN 0 ELSE n - 1 + 1
    BY <1>1, FS_Interval
  <2> HIDE DEF n
  <2> QED BY <1>1, <2>1
<1>3. /\ \A i \in 1..n : ~TellsBefore(r[i], r[i])
      /\ \A i, j, k \in 1..n : TellsBefore(r[i], r[j]) /\ TellsBefore(r[j], r[k]) => TellsBefore(r[i], r[k])
  BY TellsInOrder
<1>4. \A i \in 1..n : Before(r, i) \in SUBSET (1..n) /\ i \notin Before(r, i)
  BY <1>3 DEF Before
<1>5. \A i, j \in 1..n : TellsBefore(r[i], r[j]) => Before(r, i) \subseteq Before(r, j) /\ i \in Before(r, j)
  BY <1>3 DEF Before
<1> HIDE DEF n
<1>6. \A i \in 1..n : IsFiniteSet(Before(r, i)) /\ Cardinality(Before(r, i)) \in Nat
  <2> TAKE i \in 1..n
  <2>1. IsFiniteSet(Before(r, i))
    BY <1>2, <1>4, FS_Subset
  <2> QED BY <2>1, FS_CardinalityType
<1>7. ASSUME NEW i \in 1..n PROVE Place(r, i) \in 1..n
  <2> DEFINE c == Cardinality(Before(r, i))
  <2>1. c <= n /\ (n = c => 1..n = Before(r, i))
    <3>1. Before(r, i) \in SUBSET (1..n)
      BY <1>4
    <3>2. Cardinality(Before(r, i)) <= Cardinality(1..n)
      BY <1>2, <3>1, FS_Subset
    <3>3. Cardinality(1..n) = Cardinality(Before(r, i)) => 1..n = Before(r, i)
      BY <1>2, <3>1, FS_Subset
    <3> QED BY <1>2, <3>2, <3>3
  <2>2. c # n /\ c \in Nat
    BY <1>4, <1>6, <2>1
  <2> HIDE DEF c
  <2>3. c + 1 \in 1..n
    BY <1>1, <2>1, <2>2
  <2> QED BY <2>3 DEF Place, c
<1>8. ASSUME NEW i \in 1..n, NEW j \in 1..n, TellsBefore(r[i], r[j]) PROVE Place(r, i) < Place(r, j)
  <2> DEFINE c == Cardinality(Before(r, i))
             d == Cardinality(Before(r, j))
  <2>1. IsFiniteSet(Before(r, j)) /\ Before(r, i) \in SUBSET Before(r, j) /\ Before(r, i) # Before(r, j)
    BY <1>4, <1>5, <1>6, <1>8
  <2>2. c <= d
    BY <2>1, FS_Subset
  <2>3. d # c
    <3>1. Cardinality(Before(r, j)) = Cardinality(Before(r, i)) => Before(r, j) = Before(r, i)
      BY <2>1, FS_Subset
    <3> QED BY <2>1, <3>1
  <2>4. c \in Nat /\ d \in Nat
    BY <1>6
  <2> HIDE DEF c, d
  <2>5. c + 1 < d + 1
    BY <2>2, <2>3, <2>4
  <2> QED BY <2>5 DEF Place, c, d
<1> QED BY <1>7, <1>8 DEF n

\* Every tool once, by tier and name.
IsSortedOf(sorted, r) ==
  /\ sorted \in [DOMAIN r -> ToSet(r)]
  /\ \A i, j \in DOMAIN r : i < j => TellsBefore(sorted[i], sorted[j])

LEMMA SortedThere ==
  ASSUME NEW r, InRegistry(r)
  PROVE  \E sorted : IsSortedOf(sorted, r)
<1> DEFINE n == Len(r)
           f == [i \in 1..n |-> Place(r, i)]
<1>1. n \in Nat /\ DOMAIN r = 1..n
  BY DEF InRegistry
<1>2. \A i \in 1..n : Place(r, i) \in 1..n
  BY PlaceIs
<1>3. \A i, j \in 1..n : TellsBefore(r[i], r[j]) => Place(r, i) < Place(r, j)
  BY PlaceIs
<1>4. \A i, j \in 1..n : i # j => TellsBefore(r[i], r[j]) \/ TellsBefore(r[j], r[i])
  BY TellsInOrder
<1> HIDE DEF n
<1>5. \A i, j \in 1..n : i # j => f[i] # f[j]
  <2> TAKE i, j \in 1..n
  <2>1. i # j => Place(r, i) < Place(r, j) \/ Place(r, j) < Place(r, i)
    BY <1>3, <1>4
  <2>2. Place(r, i) \in Int /\ Place(r, j) \in Int
    BY <1>2
  <2> QED BY <2>1, <2>2
<1>6. f \in [1..n -> 1..n] /\ \A i, j \in 1..n : f[i] = f[j] => i = j
  BY <1>2, <1>5
<1>7. \A k \in 1..n : \E i \in 1..n : Place(r, i) = k
  <2>1. \A k \in 1..n : \E i \in 1..n : f[i] = k
    <3> HIDE DEF f
    <3> QED BY <1>1, <1>6, AllOfThem
  <2> QED BY <2>1
<1> DEFINE at(k) == CHOOSE i \in 1..n : Place(r, i) = k
           sorted == [k \in 1..n |-> r[at(k)]]
<1>8. \A k \in 1..n : at(k) \in 1..n /\ Place(r, at(k)) = k
  BY <1>7
<1> HIDE DEF at
<1>9. sorted \in [DOMAIN r -> ToSet(r)]
  BY <1>1, <1>8 DEF ToSet
<1>10. ASSUME NEW i \in 1..n, NEW j \in 1..n, i < j PROVE TellsBefore(sorted[i], sorted[j])
  <2>1. at(i) \in 1..n /\ at(j) \in 1..n /\ Place(r, at(i)) = i /\ Place(r, at(j)) = j
    BY <1>8
  <2>2. at(i) # at(j)
    BY <1>10, <2>1
  <2>3. ~TellsBefore(r[at(j)], r[at(i)])
    <3>1. TellsBefore(r[at(j)], r[at(i)]) => Place(r, at(j)) < Place(r, at(i))
      BY <1>3, <2>1
    <3> QED BY <1>10, <2>1, <3>1
  <2>4. TellsBefore(r[at(i)], r[at(j)])
    BY <1>4, <2>1, <2>2, <2>3
  <2> QED BY <2>4
<1> HIDE DEF sorted
<1>11. IsSortedOf(sorted, r)
  BY <1>1, <1>9, <1>10 DEF IsSortedOf
<1> QED BY <1>11

LEMMA SortedIs ==
  ASSUME NEW r, InRegistry(r)
  PROVE  IsSortedOf(Sorted(r), r) /\ \A i \in DOMAIN r : \E k \in DOMAIN r : Sorted(r)[k] = r[i]
<1> DEFINE n == Len(r)
           s == Sorted(r)
           of(k) == CHOOSE i \in 1..n : r[i] = s[k]
           f == [k \in 1..n |-> of(k)]
<1>1. n \in Nat /\ DOMAIN r = 1..n
  BY DEF InRegistry
<1>2. IsSortedOf(s, r)
  <2>1. s = CHOOSE sorted \in [DOMAIN r -> ToSet(r)] :
              \A i, j \in DOMAIN r : i < j => TellsBefore(sorted[i], sorted[j])
    BY DEF Sorted
  <2>2. \E sorted \in [DOMAIN r -> ToSet(r)] :
              \A i, j \in DOMAIN r : i < j => TellsBefore(sorted[i], sorted[j])
    BY SortedThere DEF IsSortedOf
  <2> HIDE DEF s
  <2> QED BY <2>1, <2>2 DEF IsSortedOf
<1> HIDE DEF s, n
<1>3. \A k \in 1..n : of(k) \in 1..n /\ r[of(k)] = s[k]
  <2> TAKE k \in 1..n
  <2>1. s[k] \in ToSet(r)
    BY <1>1, <1>2 DEF IsSortedOf
  <2>2. \E i \in 1..n : r[i] = s[k]
    BY <1>1, <2>1 DEF ToSet
  <2> QED BY <2>2
<1>4. \A i \in 1..n : ~TellsBefore(r[i], r[i])
  BY TellsInOrder DEF n
<1> HIDE DEF of
<1>5. \A i, j \in 1..n : i < j => of(i) # of(j)
  <2> TAKE i, j \in 1..n
  <2>1. i < j => TellsBefore(s[i], s[j])
    BY <1>1, <1>2 DEF IsSortedOf
  <2>2. r[of(i)] = s[i] /\ r[of(j)] = s[j] /\ of(i) \in 1..n
    BY <1>3
  <2> QED BY <1>4, <2>1, <2>2
<1>6. \A i, j \in 1..n : f[i] = f[j] => i = j
  <2> TAKE i, j \in 1..n
  <2>1. i < j \/ j < i \/ i = j
    OBVIOUS
  <2> QED BY <1>5, <2>1
<1>7. f \in [1..n -> 1..n]
  BY <1>3
<1>8. \A i \in 1..n : \E k \in 1..n : f[k] = i
  <2> HIDE DEF f
  <2> QED BY <1>1, <1>6, <1>7, AllOfThem
<1>9. \A i \in 1..n : \E k \in 1..n : s[k] = r[i]
  <2> TAKE i \in 1..n
  <2>1. PICK k \in 1..n : f[k] = i
    BY <1>8
  <2>2. s[k] = r[i]
    BY <1>3, <2>1
  <2> QED BY <2>2
<1> QED BY <1>1, <1>2, <1>9 DEF s

(* What a tool is answered is what was told of it.                                  *)
LEMMA SettingsAre ==
  ASSUME NEW tiers \in SUBSET (DOCUMENTATION..AUTOMATION), NEW lab \in BOOLEAN
  PROVE  LET s == SettingsOf(tiers, lab) IN
         /\ s # None /\ s.enabled = UNION {CapabilitiesOf(t) : t \in tiers}
         /\ ~lab => s.confirmAction /\ s.confirmPlaybook /\ s.approval # "disabled"
<1> DEFINE env == Env(IF lab THEN [lab_mode |-> "on", require_action_confirmation |-> "off"] ELSE <<>>)
           p == Parsed(env)
           s == SettingsOf(tiers, lab)
<1>1. s # None
  BY ClientAssumption
<1>2. s = [p EXCEPT !.enabled = UNION {CapabilitiesOf(t) : t \in tiers}]
  BY DEF SettingsOf
<1>3. {"enabled", "confirmAction", "confirmPlaybook", "approval"} \subseteq DOMAIN p
  <2> HIDE DEF env
  <2> QED BY DEF Parsed
<1>4. ~lab => env.require_action_confirmation = None /\ env.require_playbook_confirmation = None /\ env.approval_mode = None
  BY DEF Env, Names
<1>5. ~lab => p.confirmAction /\ p.confirmPlaybook /\ p.approval # "disabled"
  <2> HIDE DEF env
  <2>1. /\ p.confirmAction = ParsedBool(env.require_action_confirmation, TRUE)
        /\ p.confirmPlaybook = ParsedBool(env.require_playbook_confirmation, TRUE)
        /\ p.approval = ParsedChoice(env.approval_mode, {"out_of_band", "in_band", "disabled"}, "out_of_band")
    BY DEF Parsed
  <2> HIDE DEF p
  <2>2. None # "off" /\ None # "disabled"
    BY EnforceAssumption
  <2> QED BY <1>4, <2>1, <2>2 DEF ParsedBool, ParsedChoice
<1> HIDE DEF p
<1>6. /\ s.enabled = UNION {CapabilitiesOf(t) : t \in tiers}
      /\ s.confirmAction = p.confirmAction /\ s.confirmPlaybook = p.confirmPlaybook /\ s.approval = p.approval
  <2> HIDE DEF s
  <2> QED BY <1>2, <1>3
<1> HIDE DEF s
<1> QED BY <1>1, <1>5, <1>6 DEF s

LEMMA PlainAnswer ==
  ASSUME NEW s, s # None, NEW tool, tool.tier \in Int, tool.tier >= READ
  PROVE  LET code == enforce(s, tool, None).code IN
         /\ tool.tier = READ /\ tool.capability = None => code = "ALLOW" \/ tool.unsupported
         /\ code \in {"ALLOW", "REQUIRE_APPROVAL"} => tool.capability = None \/ tool.capability \in s.enabled
         /\ code = "REQUIRE_APPROVAL" => tool.tier \in {CONTROL, AUTOMATION}
         /\ code = "ALLOW" /\ tool.tier \in {CONTROL, AUTOMATION} =>
              s.approval = "disabled" \/ ~s.confirmAction \/ ~s.confirmPlaybook
<1> DEFINE tier == tool.tier
           e == EnforceTier(s, tool, tier, None)
           a == enforce(s, tool, None)
<1>1. tier \in Int /\ tier >= 0
  BY DEF READ
<1>2. NeedsApproval(s, tier, None) <=> (tier = CONTROL /\ s.confirmAction) \/ (tier = AUTOMATION /\ s.confirmPlaybook)
  BY DEF NeedsApproval
<1>3. /\ tier = READ => e.code = "ALLOW" \/ tool.unsupported
      /\ e.code = "REQUIRE_APPROVAL" => NeedsApproval(s, tier, None)
      /\ e.code = "ALLOW" => ~NeedsApproval(s, tier, None) \/ s.approval = "disabled"
  <2>1. tier = READ => ~(tier >= HIGH_RISK) /\ ~(tier >= CONTROL) /\ tier # CONTROL /\ tier # AUTOMATION
    BY DEF READ, HIGH_RISK, CONTROL, AUTOMATION
  <2> HIDE DEF tier
  <2> QED BY <1>2, <2>1 DEF EnforceTier, Refused
<1>4. a.code \in {"ALLOW", "REQUIRE_APPROVAL"} =>
        a = e /\ (tool.capability = None \/ tool.capability \in s.enabled)
  BY DEF enforce, Refused
<1>5. tier = READ /\ tool.capability = None => a = e
  <2>1. tier = READ => ~(tier > READ)
    BY DEF READ
  <2> QED BY <2>1 DEF enforce
<1> HIDE DEF e, a
<1>6. CONTROL # AUTOMATION
  BY DEF CONTROL, AUTOMATION
<1> QED BY <1>2, <1>3, <1>4, <1>5, <1>6 DEF a

LEMMA CapabilityOfOne ==
  ASSUME NEW t \in Int, t >= DOCUMENTATION, t < HIGH_RISK, NEW u \in DOCUMENTATION..AUTOMATION,
         NEW c, c \in CapabilitiesOf(t), c \in CapabilitiesOf(u)
  PROVE  t = u /\ c # None
<1>1. t \in {1, 2, 3, 4} /\ u \in {1, 2, 3, 4}
  BY DEF DOCUMENTATION, AUTOMATION, HIGH_RISK
<1>2. t = u
  BY <1>1 DEF CapabilitiesOf, DOCUMENTATION, MODIFICATION, CONTROL, AUTOMATION
<1>3. t \in READ..HIGH_RISK
  BY <1>1 DEF READ, HIGH_RISK
<1>4. c \in Capabilities
  BY <1>3 DEF Capabilities
<1> QED BY <1>2, <1>4, EnforceAssumption

LEMMA CapabilityThere ==
  ASSUME NEW t \in Int, t >= DOCUMENTATION, t < HIGH_RISK, NEW c \in CapabilitiesOf(t)
  PROVE  c # None
<1>1. t \in READ..HIGH_RISK
  BY DEF READ, HIGH_RISK, DOCUMENTATION
<1>2. c \in Capabilities
  BY <1>1 DEF Capabilities
<1> QED BY <1>2, EnforceAssumption

AsTold(told, spec) ==
  \A tiers \in SUBSET (DOCUMENTATION..AUTOMATION), lab \in BOOLEAN :
    LET code == enforce(SettingsOf(tiers, lab), spec, None).code
    IN  /\ told.read_only_hint => spec.mutations = 0 /\ (code = "ALLOW" \/ spec.unsupported)
        /\ ~told.read_only_hint /\ code \in {"ALLOW", "REQUIRE_APPROVAL"} => spec.tier \in tiers
        /\ code = "REQUIRE_APPROVAL" => told.destructive_hint /\ "approval_id" \in told.params
        /\ told.destructive_hint /\ code = "ALLOW" => lab
        /\ "rt" \notin told.params

TellsOf(spec) ==
  [spec |-> spec, name |-> spec.name, params |-> Bound(spec),
   read_only_hint |-> spec.tier < MUTATING_FROM, destructive_hint |-> spec.tier >= APPROVAL_REQUIRED_FROM]

LEMMA DeclaredAsTold ==
  ASSUME NEW d, IsDeclared(d), Fits(d)
  PROVE  AsTold(TellsOf(SpecOf(d)), SpecOf(d))
<1> DEFINE spec == SpecOf(d)
           told == TellsOf(spec)
<1> SUFFICES ASSUME NEW tiers \in SUBSET (DOCUMENTATION..AUTOMATION), NEW lab \in BOOLEAN
             PROVE  LET code == enforce(SettingsOf(tiers, lab), spec, None).code
                    IN  /\ told.read_only_hint => spec.mutations = 0 /\ (code = "ALLOW" \/ spec.unsupported)
                        /\ ~told.read_only_hint /\ code \in {"ALLOW", "REQUIRE_APPROVAL"} => spec.tier \in tiers
                        /\ code = "REQUIRE_APPROVAL" => told.destructive_hint /\ "approval_id" \in told.params
                        /\ told.destructive_hint /\ code = "ALLOW" => lab
                        /\ "rt" \notin told.params
  BY DEF AsTold
<1> DEFINE s == SettingsOf(tiers, lab)
           code == enforce(s, spec, None).code
           tier == d.tier
<1>1. /\ spec.tier = tier /\ spec.capability = d.capability /\ spec.mutations = MutationsOf(d)
      /\ spec.params = d.params
  BY DEF SpecOf
<1>2. /\ told.read_only_hint <=> tier < MUTATING_FROM
      /\ told.destructive_hint <=> tier >= APPROVAL_REQUIRED_FROM
      /\ told.params = ToSet(d.params) \ {"rt"}
  BY <1>1 DEF TellsOf, Bound
<1>3. tier \in Int /\ tier >= READ /\ tier >= 0
  BY DEF IsDeclared, READ
<1>4. /\ s # None /\ s.enabled = UNION {CapabilitiesOf(t) : t \in tiers}
      /\ ~lab => s.confirmAction /\ s.confirmPlaybook /\ s.approval # "disabled"
  BY SettingsAre
<1> HIDE DEF s, spec, told
<1>5. /\ tier = READ /\ d.capability = None => code = "ALLOW" \/ spec.unsupported
      /\ code \in {"ALLOW", "REQUIRE_APPROVAL"} => d.capability = None \/ d.capability \in s.enabled
      /\ code = "REQUIRE_APPROVAL" => tier \in {CONTROL, AUTOMATION}
      /\ code = "ALLOW" /\ tier \in {CONTROL, AUTOMATION} =>
           s.approval = "disabled" \/ ~s.confirmAction \/ ~s.confirmPlaybook
  <2>1. spec.tier \in Int /\ spec.tier >= READ /\ s # None
    BY <1>1, <1>3, <1>4
  <2> HIDE DEF tier
  <2>2. LET c == enforce(s, spec, None).code IN
         /\ spec.tier = READ /\ spec.capability = None => c = "ALLOW" \/ spec.unsupported
         /\ c \in {"ALLOW", "REQUIRE_APPROVAL"} => spec.capability = None \/ spec.capability \in s.enabled
         /\ c = "REQUIRE_APPROVAL" => spec.tier \in {CONTROL, AUTOMATION}
         /\ c = "ALLOW" /\ spec.tier \in {CONTROL, AUTOMATION} =>
              s.approval = "disabled" \/ ~s.confirmAction \/ ~s.confirmPlaybook
    BY <2>1, PlainAnswer
  <2> QED BY <1>1, <2>2
<1> HIDE DEF code
<1>6. /\ tier < HIGH_RISK
      /\ tier < MUTATING_FROM => d.capability = None /\ MutationsOf(d) = 0 /\ tier = READ
      /\ tier >= MUTATING_FROM => d.capability \in CapabilitiesOf(tier)
      /\ tier >= APPROVAL_REQUIRED_FROM => "approval_id" \in ToSet(d.params)
  BY <1>3 DEF Fits, CapabilityFits, MUTATING_FROM, DOCUMENTATION, READ
<1>7. told.read_only_hint => spec.mutations = 0 /\ (code = "ALLOW" \/ spec.unsupported)
  BY <1>1, <1>2, <1>5, <1>6
<1>8. ~told.read_only_hint /\ code \in {"ALLOW", "REQUIRE_APPROVAL"} => spec.tier \in tiers
  <2> SUFFICES ASSUME ~told.read_only_hint, code \in {"ALLOW", "REQUIRE_APPROVAL"} PROVE tier \in tiers
    BY <1>1
  <2>1. tier >= DOCUMENTATION /\ d.capability \in CapabilitiesOf(tier)
    BY <1>2, <1>3, <1>6 DEF MUTATING_FROM, DOCUMENTATION
  <2>2. d.capability # None
    BY <1>3, <1>6, <2>1, CapabilityThere
  <2>3. PICK t \in tiers : d.capability \in CapabilitiesOf(t)
    BY <1>4, <1>5, <2>2
  <2>4. t \in DOCUMENTATION..AUTOMATION
    BY <2>3
  <2>5. tier = t
    BY <1>3, <1>6, <2>1, <2>3, <2>4, CapabilityOfOne
  <2> QED BY <2>3, <2>5
<1>9. code = "REQUIRE_APPROVAL" => told.destructive_hint /\ "approval_id" \in told.params
  <2>1. tier \in {CONTROL, AUTOMATION} => tier >= APPROVAL_REQUIRED_FROM
    BY DEF CONTROL, AUTOMATION, APPROVAL_REQUIRED_FROM
  <2> QED BY <1>2, <1>5, <1>6, <2>1
<1>10. told.destructive_hint /\ code = "ALLOW" => lab
  <2>1. tier >= APPROVAL_REQUIRED_FROM => tier \in {CONTROL, AUTOMATION}
    BY <1>3, <1>6 DEF CONTROL, AUTOMATION, APPROVAL_REQUIRED_FROM, HIGH_RISK
  <2> QED BY <1>2, <1>4, <1>5, <2>1
<1>11. "rt" \notin told.params
  BY <1>2
<1> QED BY <1>7, <1>8, <1>9, <1>10, <1>11 DEF code, s

IsTools(tools) == Len(tools) \in Nat /\ DOMAIN tools = 1..Len(tools) /\ \A i \in 1..Len(tools) : IsDeclared(tools[i])

LEMMA ToolsAsTold ==
  ASSUME asked.kind = "declared" => IsTools(asked.tools)
  PROVE  ToolIsAsTold
<1> DEFINE tools == asked.tools
           n == Len(tools)
           r == Registry(tools)[n]
           told == register_all(r)
           s == Sorted(r)
<1> SUFFICES ASSUME asked.kind = "declared", r # Malformed
             PROVE  /\ {told[i].name : i \in DOMAIN told} = {tools[i].name : i \in DOMAIN tools}
                    /\ Len(told) = n
                    /\ \A i, j \in DOMAIN told : i < j => told[i].spec.tier <= told[j].spec.tier
                    /\ \A i \in DOMAIN told : AsTold(told[i], told[i].spec)
  BY DEF ToolIsAsTold, AsTold
<1>1. n \in Nat /\ DOMAIN tools = 1..n /\ \A i \in 1..n : IsDeclared(tools[i])
  BY DEF IsTools
<1>2. Registered(tools, n, r)
  BY <1>1, AllRegistered
<1>3. told = [i \in DOMAIN s |-> TellsOf(s[i])]
  BY DEF register_all, TellsOf
<1> HIDE DEF told, tools, r, n
<1>4. /\ Len(r) = n /\ DOMAIN r = 1..n
      /\ \A i \in 1..n : r[i] = SpecOf(tools[i]) /\ Fits(tools[i])
      /\ \A i, j \in 1..n : i # j => tools[i].name # tools[j].name
  BY <1>2 DEF Registered
<1>5. \A i \in 1..n : r[i].name = tools[i].name /\ r[i].tier = tools[i].tier
  BY <1>4 DEF SpecOf
<1>6. InRegistry(r)
  <2>1. \A i \in 1..n : r[i].name \in Int /\ r[i].tier \in Int
    BY <1>1, <1>5 DEF IsDeclared
  <2>2. \A i, j \in 1..n : i # j => r[i].name # r[j].name
    BY <1>4, <1>5
  <2> QED BY <1>1, <1>4, <2>1, <2>2 DEF InRegistry
<1>7. /\ s \in [1..n -> ToSet(r)]
      /\ \A i, j \in 1..n : i < j => TellsBefore(s[i], s[j])
      /\ \A i \in 1..n : \E k \in 1..n : s[k] = r[i]
  <2>1. IsSortedOf(s, r) /\ \A i \in DOMAIN r : \E k \in DOMAIN r : s[k] = r[i]
    BY <1>6, SortedIs
  <2> HIDE DEF s
  <2> QED BY <1>4, <2>1 DEF IsSortedOf
<1>8. \A k \in 1..n : \E i \in 1..n : s[k] = r[i]
  <2> TAKE k \in 1..n
  <2>1. s[k] \in ToSet(r)
    BY <1>7
  <2> QED BY <1>4, <2>1 DEF ToSet
<1>9. DOMAIN s = 1..n
  BY <1>7
<1> HIDE DEF s
<1>10. DOMAIN told = 1..n /\ \A k \in 1..n : told[k] = TellsOf(s[k])
  BY <1>3, <1>9
<1>11. \A k \in 1..n : told[k].name = s[k].name /\ told[k].spec = s[k]
  <2> TAKE k \in 1..n
  <2>1. told[k] = TellsOf(s[k])
    BY <1>10
  <2> QED BY <2>1 DEF TellsOf
<1>12. {told[i].name : i \in DOMAIN told} = {tools[i].name : i \in DOMAIN tools}
  <2>1. ASSUME NEW k \in 1..n PROVE \E i \in 1..n : told[k].name = tools[i].name
    <3>1. PICK i \in 1..n : s[k] = r[i]
      BY <1>8
    <3> QED BY <1>5, <1>11, <3>1
  <2>2. ASSUME NEW i \in 1..n PROVE \E k \in 1..n : told[k].name = tools[i].name
    <3>1. PICK k \in 1..n : s[k] = r[i]
      BY <1>7
    <3> QED BY <1>5, <1>11, <3>1
  <2>3. DOMAIN told = 1..n /\ DOMAIN tools = 1..n
    BY <1>1, <1>10
  <2> DEFINE M(i) == told[i].name
             T(i) == tools[i].name
  <2>a. (\A k \in 1..n : \E i \in 1..n : M(k) = T(i)) /\ (\A i \in 1..n : \E k \in 1..n : M(k) = T(i))
    BY <2>1, <2>2
  <2> HIDE DEF M, T
  <2>b. {M(k) : k \in 1..n} = {T(i) : i \in 1..n}
    BY <2>a
  <2>4. {told[k].name : k \in 1..n} = {tools[i].name : i \in 1..n}
    BY <2>b DEF M, T
  <2> QED BY <2>3, <2>4
<1>13. Len(told) = n
  <2>1. told = [k \in 1..n |-> told[k]]
    BY <1>3, <1>9
  <2> QED BY <1>1, <1>10, <2>1
<1>14. ASSUME NEW i \in DOMAIN told, NEW j \in DOMAIN told, i < j PROVE told[i].spec.tier <= told[j].spec.tier
  <2>1. i \in 1..n /\ j \in 1..n
    BY <1>10
  <2>2. TellsBefore(s[i], s[j])
    BY <1>7, <1>14, <2>1
  <2>3. s[i].tier \in Int /\ s[j].tier \in Int
    BY <1>4, <1>6, <1>8, <2>1 DEF InRegistry
  <2> DEFINE a == s[i].tier
             b == s[j].tier
  <2>4. a < b \/ a = b
    BY <2>2 DEF TellsBefore
  <2>5. a \in Int /\ b \in Int
    BY <2>3
  <2>6. told[i].spec.tier = a /\ told[j].spec.tier = b
    BY <1>11, <2>1
  <2> HIDE DEF a, b
  <2>7. a <= b
    BY <2>4, <2>5
  <2> QED BY <2>6, <2>7
<1>15. ASSUME NEW k \in DOMAIN told PROVE AsTold(told[k], told[k].spec)
  <2>1. k \in 1..n
    BY <1>10
  <2>2. PICK i \in 1..n : s[k] = r[i]
    BY <1>8, <2>1
  <2>3. s[k] = SpecOf(tools[i]) /\ Fits(tools[i]) /\ IsDeclared(tools[i])
    BY <1>1, <1>4, <2>2
  <2>4. AsTold(TellsOf(SpecOf(tools[i])), SpecOf(tools[i]))
    BY <2>3, DeclaredAsTold
  <2>5. told[k] = TellsOf(s[k]) /\ told[k].spec = s[k]
    BY <1>10, <1>11, <2>1
  <2> QED BY <2>3, <2>4, <2>5
<1> QED BY <1>12, <1>13, <1>14, <1>15

--------------------------------------------------------------------------------

(* What a client is told holds, of tools of any number however they are declared,   *)
(* and of requests and answers of any number of chunks, of exceptions of any number   *)
(* that wrap each other in any way, and of what SOAR says of any length.             *)
THEOREM ClientsAreToldTruly ==
  ASSUME Sensitive = OwnSecrets,
         asked.kind = "declared" => IsTools(asked.tools),
         asked.kind = "request" => IsWire(asked.wire),
         asked.kind = "ping" => IsWire(asked.search) /\ IsWire(asked.session)
  PROVE  ClientIsToldTruly
BY ToolsAsTold, RequestsTold DEF ClientIsToldTruly

(* Each kind of question the run asks is of such tools and such requests.              *)
LEMMA AnswerIs ==
  /\ Answer.exc = None /\ Answer.came = "back" /\ Answer.status = 200 /\ Answer.declared = None
  /\ Answer.chunks = <<1>> /\ Answer.body.message = None
BY DEF Answer

AnswerOf(status, declared, chunks, is, message) ==
  [Answer EXCEPT !.status = status, !.declared = declared, !.chunks = chunks, !.body.is = is, !.body.message = message]

LEMMA AnsweredIs ==
  ASSUME NEW status \in Nat, NEW declared \in Nat \cup {None, Malformed}, NEW chunks \in Seq(Nat), NEW is,
         NEW message, message # None => IsSaid(message)
  PROVE  IsWire(AnswerOf(status, declared, chunks, is, message))
<1> DEFINE wire == AnswerOf(status, declared, chunks, is, message)
<1>1. wire.exc = None /\ wire.status = status /\ wire.declared = declared /\ wire.chunks = chunks
  BY DEF Answer, AnswerOf
<1>2. wire.body.message = message
  <2> DEFINE old == Answer.body
  <2>1. wire.body = [old EXCEPT !.is = is, !.message = message]
    BY DEF Answer, AnswerOf
  <2>2. "message" \in DOMAIN old
    BY DEF Answer
  <2> HIDE DEF wire, old
  <2> QED BY <2>1, <2>2
<1> HIDE DEF wire
<1>3. IsWire(wire)
  BY <1>1, <1>2 DEF IsWire
<1> QED BY <1>3 DEF wire

LEMMA SearchedIs ==
  ASSUME NEW status \in Nat, NEW is, NEW data
  PROVE  /\ IsWire([Answer EXCEPT !.status = status, !.body.is = is, !.body.data = data])
         /\ IsWire([Answer EXCEPT !.status = status])
<1> DEFINE wire == [Answer EXCEPT !.status = status, !.body.is = is, !.body.data = data]
           plain == [Answer EXCEPT !.status = status]
<1>1. wire.exc = None /\ wire.status = status /\ wire.declared = None /\ wire.chunks = <<1>>
  BY DEF Answer
<1>2. wire.body.message = None
  BY DEF Answer
<1>3. plain.exc = None /\ plain.status = status /\ plain.declared = None /\ plain.chunks = <<1>>
  BY DEF Answer
<1>4. plain.body.message = None
  BY DEF Answer
<1>5. <<1>> \in Seq(Nat)
  OBVIOUS
<1> HIDE DEF wire, plain
<1>6. IsWire(wire)
  BY <1>1, <1>2, <1>5 DEF IsWire
<1>7. IsWire(plain)
  BY <1>3, <1>4, <1>5 DEF IsWire
<1> QED BY <1>6, <1>7 DEF wire, plain

LEMMA LostIs ==
  ASSUME NEW came \in {"connecting", "sending", "reading"}, NEW class \in Raised[came],
         NEW inner \in [1..2 -> {"OSError", "SSLError", "SSLCertVerificationError"}],
         NEW cause \in [1..3 -> {None, 2, 3}], NEW context \in [1..3 -> {None, 1, 2, 3}], NEW code
  PROVE  IsWire([Answer EXCEPT !.exc = Exception(class, inner, cause, context, code), !.came = came])
<1> DEFINE exc == Exception(class, inner, cause, context, code)
           wire == [Answer EXCEPT !.exc = exc, !.came = came]
           C == {class, "OSError", "SSLError", "SSLCertVerificationError"}
           s == <<class>>
<1>1. exc.class = s \o inner /\ exc.cause = cause /\ exc.context = context
  BY DEF Exception
<1>2. s \in Seq(C) /\ Len(s) = 1 /\ s[1] = class
  OBVIOUS
<1>3. inner \in [1..2 -> C]
  <2> DEFINE F == {"OSError", "SSLError", "SSLCertVerificationError"}
  <2>1. F \subseteq C /\ inner \in [1..2 -> F]
    OBVIOUS
  <2> HIDE DEF F, C
  <2> QED BY <2>1
<1> HIDE DEF C, s
<1>4. inner \in Seq(C) /\ Len(inner) = 2
  BY <1>3, FunctionIsSeq
<1>5. Joined(C, s, inner)
  BY <1>2, <1>4, JoinedIs
<1>6. s \o inner \in Seq(C) /\ Len(s \o inner) = 3 /\ (s \o inner)[1] = class
  BY <1>2, <1>4, <1>5 DEF Joined
<1>7. DOMAIN (s \o inner) = 1..3
  BY <1>6
<1> HIDE DEF exc
<1>8. IsException(exc)
  BY <1>1, <1>6, <1>7 DEF IsException
<1>9. exc.class[1] = class
  BY <1>1, <1>6
<1>10. wire.exc = exc /\ wire.came = came /\ wire.status = 200 /\ wire.declared = None /\ wire.chunks = <<1>>
  BY DEF Answer
<1>11. wire.body.message = None
  BY DEF Answer
<1>12. <<1>> \in Seq(Nat)
  OBVIOUS
<1> HIDE DEF wire
<1>13. IsWire(wire)
  BY <1>8, <1>9, <1>10, <1>11, <1>12 DEF IsWire
<1> QED BY <1>13 DEF wire, exc

FoundOf(status, is, data) == [Answer EXCEPT !.status = status, !.body.is = is, !.body.data = data]

KnownOf(status) == [Answer EXCEPT !.status = status]

SearchStatuses == {200, 401, 404}

SessionStatuses == {200, 302, 401, 403, 404, 500}

AnswerStatuses == {200, 302, 400, 401, 403, 404, 409, 418, 422, 429, 500, 503}

LEMMA AskedPingIs ==
  ASSUME NEW search \in SearchStatuses, NEW session \in SessionStatuses, NEW is, NEW data
  PROVE  IsWire(FoundOf(search, is, data)) /\ IsWire(KnownOf(session))
<1>1. search \in Nat /\ session \in Nat
  BY DEF SearchStatuses, SessionStatuses
<1>2. IsWire(FoundOf(search, is, data))
  BY <1>1, SearchedIs, Zenon DEF FoundOf
<1>3. IsWire(KnownOf(session))
  BY <1>1, SearchedIs, Zenon DEF KnownOf
<1> QED BY <1>2, <1>3

LEMMA TwoTools ==
  ASSUME NEW a, NEW b, IsDeclared(a), IsDeclared(b)
  PROVE  IsTools(<<a, b>>)
<1> DEFINE two == <<a, b>>
<1>1. Len(two) = 2 /\ DOMAIN two = 1..2 /\ two[1] = a /\ two[2] = b
  OBVIOUS
<1> HIDE DEF two
<1>2. IsTools(two)
  BY <1>1 DEF IsTools
<1> QED BY <1>2 DEF two

LEMMA AskedMessageIs ==
  ASSUME NEW message \in {None} \cup {FlattenSeq(parts) : parts \in SeqOf({KeySecret, Credential, <<"x">>}, 3)},
         message # None
  PROVE  IsSaid(message)
<1> DEFINE Parts == {KeySecret, Credential, <<"x">>}
<1> HIDE DEF Parts
<1>1. PICK parts \in SeqOf(Parts, 3) : message = FlattenSeq(parts)
  BY Zenon DEF Parts
<1>2. PICK m \in 0..3 : parts \in [1..m -> Parts]
  BY <1>1 DEF SeqOf
<1>3. parts \in Seq(Parts)
  BY <1>2, FunctionIsSeq
<1> QED BY <1>1, <1>3, SaidOfParts DEF Parts

LEMMA AskedChunksAre ==
  ASSUME NEW chunks \in SeqOf({1, 2}, 3)
  PROVE  chunks \in Seq(Nat)
<1>1. PICK m \in 0..3 : chunks \in [1..m -> {1, 2}]
  BY DEF SeqOf
<1>2. chunks \in [1..m -> Nat] /\ m \in Nat
  BY <1>1
<1> QED BY <1>2, FunctionIsSeq

LEMMA AskedAnswerIs ==
  ASSUME NEW status \in AnswerStatuses, NEW is,
         NEW declared \in {None, Malformed, 2, 9}, NEW chunks \in SeqOf({1, 2}, 3),
         NEW message \in {None} \cup {FlattenSeq(parts) : parts \in SeqOf({KeySecret, Credential, <<"x">>}, 3)}
  PROVE  IsWire(AnswerOf(status, declared, chunks, is, message))
<1>1. message # None => IsSaid(message)
  BY AskedMessageIs, Zenon
<1>2. chunks \in Seq(Nat)
  BY AskedChunksAre, Zenon
<1>3. status \in Nat /\ declared \in Nat \cup {None, Malformed}
  BY DEF AnswerStatuses
<1> QED BY <1>1, <1>2, <1>3, AnsweredIs, Zenon

AskedTwo(name, tier, capability, params, mutations, unsupported, odd) ==
  <<Declared(2, DOCUMENTATION, "comments", <<"rt">>),
    [v \in DOMAIN Declared(1, READ, None, <<>>) |->
       IF v = odd THEN FALSE
       ELSE [Declared(name, tier, capability, params) EXCEPT !.mutations = mutations, !.unsupported = unsupported][v]]>>

LEMMA AskedToolsAre ==
  ASSUME NEW tier \in READ..HIGH_RISK, NEW capability, NEW params, NEW mutations, NEW unsupported, NEW name \in 1..2,
         NEW odd \in {"nothing", "named", "async", "describe", "doc"}
  PROVE  IsTools(AskedTwo(name, tier, capability, params, mutations, unsupported, odd))
<1> DEFINE D == DOMAIN Declared(1, READ, None, <<>>)
           a == Declared(2, DOCUMENTATION, "comments", <<"rt">>)
           f == [Declared(name, tier, capability, params) EXCEPT !.mutations = mutations, !.unsupported = unsupported]
           g == [v \in D |-> IF v = odd THEN FALSE ELSE f[v]]
<1>1. a.name = 2 /\ a.tier = 1
  BY DEF Declared, DOCUMENTATION
<1>2. f.name = name /\ f.tier = tier
  BY DEF Declared
<1>3. "name" \in D /\ "tier" \in D
  BY DEF Declared
<1>4. odd # "name" /\ odd # "tier"
  OBVIOUS
<1>5. tier \in Int /\ tier >= READ /\ name \in Int
  BY DEF READ, HIGH_RISK
<1> HIDE DEF a, f, D
<1>6. g.name = name /\ g.tier = tier
  BY <1>2, <1>3, <1>4
<1> HIDE DEF g
<1>7. IsDeclared(a) /\ IsDeclared(g)
  BY <1>1, <1>5, <1>6 DEF IsDeclared, READ
<1>8. IsTools(<<a, g>>)
  BY <1>7, TwoTools
<1> QED BY <1>8 DEF AskedTwo, a, g, f, D

(* So the theorem holds of whatever the run asks.                                  *)
LEMMA RunAsksTheClient ==
  ASSUME AskDeclared \/ AskFailure \/ AskAnswer \/ AskCall \/ AskPing
  PROVE  \/ \E tools : asked' = [kind |-> "declared", tools |-> tools] /\ IsTools(tools)
         \/ \E call, wire : asked' = [kind |-> "request", call |-> call, wire |-> wire] /\ IsWire(wire)
         \/ \E search, session :
              asked' = [kind |-> "ping", search |-> search, session |-> session] /\ IsWire(search) /\ IsWire(session)
<1> DEFINE AskedTools(tools) == asked' = [kind |-> "declared", tools |-> tools]
           AskedRequest(call, wire) == asked' = [kind |-> "request", call |-> call, wire |-> wire]
           AskedPing(search, session) == asked' = [kind |-> "ping", search |-> search, session |-> session]
           Goal == \/ \E tools : AskedTools(tools) /\ IsTools(tools)
                   \/ \E call, wire : AskedRequest(call, wire) /\ IsWire(wire)
                   \/ \E search, session : AskedPing(search, session) /\ IsWire(search) /\ IsWire(session)
<1>1. CASE AskDeclared
  <2>1. PICK tier \in READ..HIGH_RISK, capability \in {None, "comments", "incident_close", "actions", "playbook_create", "no such"},
             params \in {<<>>, <<"rt">>, <<"rt", "approval_id">>, <<"approval_id", "rt">>}, mutations \in {None, 0, 1, 2},
             unsupported \in {None, "text", "blank"}, name \in 1..2, odd \in {"nothing", "named", "async", "describe", "doc"} :
          AskedTools(AskedTwo(name, tier, capability, params, mutations, unsupported, odd))
    BY <1>1, Zenon DEF AskDeclared, AskedTwo
  <2> DEFINE tools == AskedTwo(name, tier, capability, params, mutations, unsupported, odd)
  <2> HIDE DEF AskedTools, AskedRequest, AskedPing
  <2>2. IsTools(tools)
    BY <2>1, AskedToolsAre, Zenon
  <2>3. AskedTools(tools)
    BY <2>1
  <2> HIDE DEF tools
  <2>4. Goal
    BY <2>2, <2>3, Zenon
  <2> QED BY <2>4 DEF AskedTools, AskedRequest, AskedPing
<1>2. CASE AskFailure
  <2>1. PICK came \in DOMAIN Raised :
          \E class \in Raised[came], inner \in [1..2 -> {"OSError", "SSLError", "SSLCertVerificationError"}],
             cause \in [1..3 -> {None, 2, 3}], context \in [1..3 -> {None, 1, 2, 3}], code \in {10, 18, 62, 99} :
            /\ class = "ConnectError" \/ (inner = <<"OSError", "SSLError">> /\ code = 10)
            /\ code = 10 \/ "SSLCertVerificationError" \in ToSet(inner)
            /\ AskedRequest(PlainCall("POST"),
                            [Answer EXCEPT !.exc = Exception(class, inner, cause, context, code), !.came = came])
    BY <1>2, Zenon DEF AskFailure
  <2> HIDE DEF AskedTools, AskedRequest, AskedPing
  <2>2. PICK class \in Raised[came], inner \in [1..2 -> {"OSError", "SSLError", "SSLCertVerificationError"}],
             cause \in [1..3 -> {None, 2, 3}], context \in [1..3 -> {None, 1, 2, 3}], code \in {10, 18, 62, 99} :
            /\ class = "ConnectError" \/ (inner = <<"OSError", "SSLError">> /\ code = 10)
            /\ code = 10 \/ "SSLCertVerificationError" \in ToSet(inner)
            /\ AskedRequest(PlainCall("POST"),
                            [Answer EXCEPT !.exc = Exception(class, inner, cause, context, code), !.came = came])
    BY <2>1, Zenon
  <2> DEFINE wire == [Answer EXCEPT !.exc = Exception(class, inner, cause, context, code), !.came = came]
  <2>3. came \in {"connecting", "sending", "reading"}
    BY <2>1 DEF Raised
  <2>4. IsWire(wire)
    BY <2>2, <2>3, LostIs
  <2>5. AskedRequest(PlainCall("POST"), wire)
    BY <2>2, Zenon
  <2> HIDE DEF wire
  <2>6. Goal
    BY <2>4, <2>5, Zenon
  <2> QED BY <2>6 DEF AskedTools, AskedRequest, AskedPing
<1>3. CASE AskAnswer
  <2>1. PICK status \in AnswerStatuses, is \in {"json", "not json", "empty"},
             declared \in {None, Malformed, 2, 9}, chunks \in SeqOf({1, 2}, 3),
             message \in {None} \cup {FlattenSeq(parts) : parts \in SeqOf({KeySecret, Credential, <<"x">>}, 3)} :
          /\ chunks = <<1>> \/ message = None
          /\ AskedRequest(PlainCall("GET"), AnswerOf(status, declared, chunks, is, message))
    BY <1>3, Zenon DEF AskAnswer, AnswerOf, AnswerStatuses
  <2> DEFINE wire == AnswerOf(status, declared, chunks, is, message)
  <2> HIDE DEF AskedTools, AskedRequest, AskedPing
  <2>2. IsWire(wire)
    BY <2>1, AskedAnswerIs, Zenon
  <2>3. AskedRequest(PlainCall("GET"), wire)
    BY <2>1, Zenon
  <2> HIDE DEF wire
  <2>4. Goal
    BY <2>2, <2>3, Zenon
  <2> QED BY <2>4 DEF AskedTools, AskedRequest, AskedPing
<1>4. CASE AskCall
  <2>1. PICK call \in Calls : AskedRequest(call, Answer)
    BY <1>4, Zenon DEF AskCall
  <2> HIDE DEF AskedTools, AskedRequest, AskedPing
  <2>2. <<1>> \in Seq(Nat)
    OBVIOUS
  <2>3. IsWire(Answer)
    BY <2>2, AnswerIs DEF IsWire
  <2>4. Goal
    BY <2>1, <2>3, Zenon
  <2> QED BY <2>4 DEF AskedTools, AskedRequest, AskedPing
<1>5. CASE AskPing
  <2>1. PICK search \in SearchStatuses, session \in SessionStatuses, is \in {"json", "not json", "empty"},
             data \in BOOLEAN :
          AskedPing(FoundOf(search, is, data), KnownOf(session))
    BY <1>5, Zenon DEF AskPing, FoundOf, KnownOf, SearchStatuses, SessionStatuses
  <2> DEFINE found == FoundOf(search, is, data)
             known == KnownOf(session)
  <2> HIDE DEF AskedTools, AskedRequest, AskedPing
  <2>2. IsWire(found) /\ IsWire(known)
    BY <2>1, AskedPingIs, Zenon
  <2>5. AskedPing(found, known)
    BY <2>1
  <2> HIDE DEF found, known
  <2>6. Goal
    BY <2>2, <2>5, Zenon
  <2> QED BY <2>6 DEF AskedTools, AskedRequest, AskedPing
<1> QED BY <1>1, <1>2, <1>3, <1>4, <1>5

--------------------------------------------------------------------------------
(* Diagrams: the search from the start events, a level at a time.                   *)
Behind(graph, some) ==
  {graph.edges[i].target : i \in {j \in DOMAIN graph.edges : graph.edges[j].valid /\ graph.edges[j].source \in some}}

GrownSteps(graph, g, n) == g = [k \in 0..n |-> IF k = 0 THEN Starts(graph) ELSE g[k - 1] \cup Behind(graph, g[k - 1])]

\* A flow that Edge calls valid is between two nodes.
IsGraph(graph) ==
  /\ Len(graph.nodes) \in Nat /\ DOMAIN graph.nodes = 1..Len(graph.nodes)
  /\ \A i \in DOMAIN graph.edges : graph.edges[i].valid =>
       graph.edges[i].source \in Ids(graph.nodes) /\ graph.edges[i].target \in Ids(graph.nodes)

\* The flows of a diagram are made by Edge, of which this holds.
LEMMA EdgesAreValid ==
  ASSUME NEW graph, NEW defaults, Len(graph.nodes) \in Nat, DOMAIN graph.nodes = 1..Len(graph.nodes),
         graph.edges = [i \in DOMAIN graph.flows |-> Edge(graph, defaults, graph.flows[i])]
  PROVE  IsGraph(graph)
<1>1. ASSUME NEW i \in DOMAIN graph.edges, graph.edges[i].valid
      PROVE  graph.edges[i].source \in Ids(graph.nodes) /\ graph.edges[i].target \in Ids(graph.nodes)
  <2>1. graph.edges[i] = Edge(graph, defaults, graph.flows[i])
    OBVIOUS
  <2> DEFINE edge == Edge(graph, defaults, graph.flows[i])
             flow == graph.flows[i]
             ids == Ids(graph.nodes)
  <2>2. edge.source = flow.source /\ edge.target = flow.target /\ edge.valid = (flow.source \in ids /\ flow.target \in ids)
    BY DEF Edge
  <2>3. edge.valid
    BY <1>1, <2>1
  <2> HIDE DEF edge, flow, ids
  <2>4. edge.source \in ids /\ edge.target \in ids
    BY <2>2, <2>3
  <2> QED BY <2>1, <2>4 DEF edge, ids
<1> QED BY <1>1 DEF IsGraph

LEMMA GrownThere ==
  ASSUME NEW graph
  PROVE  \A n \in Nat : \E g : GrownSteps(graph, g, n)
<1> DEFINE S == {n \in Nat : \E g : GrownSteps(graph, g, n)}
           B(some) == Behind(graph, some)
           s == Starts(graph)
<1>1. 0 \in S
  <2> DEFINE h == [k \in 0..0 |-> s]
  <2> HIDE DEF s
  <2>1. GrownSteps(graph, h, 0)
    BY DEF GrownSteps, s
  <2> QED BY <2>1
<1>2. ASSUME NEW n \in Nat, NEW g, GrownSteps(graph, g, n)
      PROVE  \E h : GrownSteps(graph, h, n + 1)
  <2> DEFINE h == [k \in 0..(n + 1) |-> IF k <= n THEN g[k] ELSE g[n] \cup B(g[n])]
  <2>1. g = [k \in 0..n |-> IF k = 0 THEN s ELSE g[k - 1] \cup B(g[k - 1])]
    BY <1>2 DEF GrownSteps
  <2> HIDE DEF s, B
  <2>a. \A k \in 0..n : g[k] = IF k = 0 THEN s ELSE g[k - 1] \cup B(g[k - 1])
    BY <2>1, Zenon
  <2>b. ASSUME NEW k \in 0..(n + 1)
        PROVE  h[k] = IF k = 0 THEN s ELSE h[k - 1] \cup B(h[k - 1])
    <3>1. CASE k = 0
      <4>1. 0 \in 0..n /\ k <= n /\ k \in 0..(n + 1)
        BY <1>2, <3>1
      <4>2. h[k] = g[k]
        BY <4>1
      <4>3. g[0] = s
        BY <2>a, <4>1, Zenon
      <4> HIDE DEF h
      <4> QED BY <3>1, <4>2, <4>3
    <3>2. CASE k \in 1..n
      <4>1. k \in 0..n /\ k # 0 /\ k - 1 \in 0..(n + 1) /\ k - 1 <= n /\ k <= n
        BY <1>2, <3>2
      <4>2. h[k - 1] = g[k - 1] /\ h[k] = g[k]
        BY <4>1
      <4> QED BY <2>a, <4>1, <4>2, Zenon
    <3>3. CASE k = n + 1
      <4>1. ~(k <= n) /\ k - 1 = n /\ n \in 0..(n + 1) /\ n <= n /\ k # 0
        BY <1>2, <3>3
      <4>2. h[k - 1] = g[n] /\ h[k] = g[n] \cup B(g[n])
        BY <4>1
      <4> QED BY <4>1, <4>2, Zenon
    <3> QED BY <1>2, <3>1, <3>2, <3>3
  <2>2. h = [k \in 0..(n + 1) |-> IF k = 0 THEN s ELSE h[k - 1] \cup B(h[k - 1])]
    <3> HIDE DEF h
    <3>1. h = [k \in 0..(n + 1) |-> h[k]]
      BY DEF h
    <3> QED BY <2>b, <3>1, Zenon
  <2>3. GrownSteps(graph, h, n + 1)
    BY <2>2 DEF GrownSteps, s, B
  <2> QED BY <2>3
<1>3. Nat \subseteq S
  <2>1. \A n \in Nat : n \in S => n + 1 \in S
    BY <1>2
  <2> HIDE DEF S
  <2> QED BY <1>1, <2>1, AtEveryLength
<1> QED BY <1>3

LEMMA GrownIs ==
  ASSUME NEW graph, IsGraph(graph)
  PROVE  \E g : /\ g[0] = Starts(graph)
                /\ \A k \in 1..Len(graph.nodes) : g[k] = g[k - 1] \cup Behind(graph, g[k - 1])
                /\ Reached(graph) = g[Len(graph.nodes)]
<1> DEFINE n == Len(graph.nodes)
           G == CHOOSE g : GrownSteps(graph, g, n)
<1>1. n \in Nat
  BY DEF IsGraph
<1>2. Reached(graph) = G[n]
  BY Zenon DEF Reached, GrownSteps, Behind
<1>3. GrownSteps(graph, G, n)
  BY <1>1, GrownThere
<1> DEFINE B(some) == Behind(graph, some)
           s == Starts(graph)
<1> HIDE DEF G, n
<1>4. G = [k \in 0..n |-> IF k = 0 THEN s ELSE G[k - 1] \cup B(G[k - 1])]
  BY <1>3 DEF GrownSteps
<1> HIDE DEF B, s
<1>5. \A k \in 0..n : G[k] = IF k = 0 THEN s ELSE G[k - 1] \cup B(G[k - 1])
  BY <1>4, Zenon
<1>6. 0 \in 0..n /\ \A k \in 1..n : k \in 0..n /\ k # 0
  BY <1>1
<1>7. G[0] = s
  BY <1>5, <1>6, Zenon
<1>8. \A k \in 1..n : G[k] = G[k - 1] \cup B(G[k - 1])
  BY <1>5, <1>6, Zenon
<1> QED BY <1>2, <1>7, <1>8 DEF B, s, n

\* As many nodes as levels: the search has stopped, or each level found one more.
LEMMA SearchStops ==
  ASSUME NEW graph, IsGraph(graph)
  PROVE  /\ Starts(graph) \subseteq Reached(graph) /\ Reached(graph) \subseteq Ids(graph.nodes)
         /\ Behind(graph, Reached(graph)) \subseteq Reached(graph)
<1> DEFINE n == Len(graph.nodes)
           ids == Ids(graph.nodes)
           s == Starts(graph)
           B(some) == Behind(graph, some)
<1>1. n \in Nat /\ DOMAIN graph.nodes = 1..n
  BY DEF IsGraph
<1>2. PICK G : G[0] = s /\ (\A k \in 1..n : G[k] = G[k - 1] \cup B(G[k - 1])) /\ Reached(graph) = G[n]
  BY GrownIs
<1>3. IsFiniteSet(ids) /\ Cardinality(ids) <= n
  <2>1. IsFiniteSet(1..n) /\ Cardinality(1..n) = n
    BY <1>1, FS_Interval
  <2> DEFINE f == [i \in 1..n |-> graph.nodes[i].id]
  <2>2. f \in Surjection(1..n, ids)
    BY <1>1 DEF Surjection, Ids
  <2> HIDE DEF f, ids
  <2> QED BY <2>1, <2>2, FS_Surjection
<1>4. s \subseteq ids
  BY DEF Starts, Ids
<1>5. \A some : B(some) \subseteq ids
  BY DEF Behind, IsGraph
<1>6. B({}) = {}
  BY DEF Behind
<1> HIDE DEF n, ids, s, B
<1> DEFINE S == {k \in Nat : k <= n => /\ s \subseteq G[k] /\ G[k] \subseteq ids
                                       /\ B(G[k]) \subseteq G[k] \/ Cardinality(G[k]) >= k + 1}
<1>7. 0 \in S
  <2>1. CASE s = {}
    BY <1>2, <1>6, <2>1
  <2>2. CASE s # {}
    <3>1. IsFiniteSet(s)
      BY <1>3, <1>4, FS_Subset
    <3>2. Cardinality(s) # 0 /\ Cardinality(s) \in Nat
      BY <2>2, <3>1, FS_EmptySet, FS_CardinalityType
    <3> QED BY <1>2, <1>4, <3>2
  <2> QED BY <2>1, <2>2
<1>8. ASSUME NEW k \in Nat, k \in S PROVE k + 1 \in S
  <2> SUFFICES ASSUME k + 1 <= n
               PROVE  /\ s \subseteq G[k + 1] /\ G[k + 1] \subseteq ids
                      /\ B(G[k + 1]) \subseteq G[k + 1] \/ Cardinality(G[k + 1]) >= k + 1 + 1
    OBVIOUS
  <2>1. k + 1 \in 1..n /\ k + 1 - 1 = k /\ k <= n
    BY <1>1 DEF n
  <2>2. G[k + 1] = G[k] \cup B(G[k])
    BY <1>2, <2>1
  <2>3. s \subseteq G[k] /\ G[k] \subseteq ids /\ (B(G[k]) \subseteq G[k] \/ Cardinality(G[k]) >= k + 1)
    BY <1>8, <2>1
  <2>4. s \subseteq G[k + 1] /\ G[k + 1] \subseteq ids
    BY <1>5, <2>2, <2>3
  <2>5. CASE B(G[k]) \subseteq G[k]
    <3>1. G[k + 1] = G[k]
      BY <2>2, <2>5
    <3> QED BY <2>4, <2>5, <3>1
  <2>6. CASE ~(B(G[k]) \subseteq G[k])
    <3>1. PICK x \in G[k + 1] : x \notin G[k]
      BY <2>2, <2>6
    <3>2. IsFiniteSet(G[k]) /\ IsFiniteSet(G[k + 1])
      BY <1>3, <2>3, <2>4, FS_Subset
    <3>3. Cardinality(G[k]) \in Nat /\ Cardinality(G[k + 1]) \in Nat
      BY <3>2, FS_CardinalityType
    <3>4. Cardinality(G[k] \cup {x}) = Cardinality(G[k]) + 1
      BY <3>1, <3>2, FS_AddElement
    <3>5. G[k] \cup {x} \in SUBSET G[k + 1]
      BY <2>2, <3>1
    <3>6. Cardinality(G[k] \cup {x}) <= Cardinality(G[k + 1])
      BY <3>2, <3>5, FS_Subset
    <3>7. Cardinality(G[k + 1]) >= k + 1 + 1
      BY <2>3, <2>6, <3>3, <3>4, <3>6
    <3> QED BY <2>4, <3>7
  <2> QED BY <2>5, <2>6
<1>9. n \in S
  <2> HIDE DEF S
  <2>1. Nat \subseteq S
    BY <1>7, <1>8, AtEveryLength
  <2> QED BY <1>1, <2>1 DEF n
<1>10. s \subseteq G[n] /\ G[n] \subseteq ids /\ (B(G[n]) \subseteq G[n] \/ Cardinality(G[n]) >= n + 1)
  BY <1>1, <1>9 DEF n
<1>11. Cardinality(G[n]) <= Cardinality(ids) /\ Cardinality(G[n]) \in Nat /\ Cardinality(ids) \in Nat
  BY <1>3, <1>10, FS_Subset, FS_CardinalityType
<1>12. B(G[n]) \subseteq G[n]
  BY <1>1, <1>3, <1>10, <1>11 DEF n
<1> QED BY <1>2, <1>10, <1>12 DEF s, ids, B

\* What no flow enters is not found.
LEMMA SearchIsEarned ==
  ASSUME NEW graph, IsGraph(graph), NEW some \in SUBSET Ids(graph.nodes), some \cap Starts(graph) = {},
         \A i \in DOMAIN graph.edges :
           graph.edges[i].valid /\ graph.edges[i].target \in some => graph.edges[i].source \in some
  PROVE  some \cap Reached(graph) = {}
<1> DEFINE n == Len(graph.nodes)
           s == Starts(graph)
           B(found) == Behind(graph, found)
<1>1. n \in Nat
  BY DEF IsGraph
<1>2. PICK G : G[0] = s /\ (\A k \in 1..n : G[k] = G[k - 1] \cup B(G[k - 1])) /\ Reached(graph) = G[n]
  BY GrownIs
<1>3. ASSUME NEW found, some \cap found = {} PROVE some \cap B(found) = {}
  BY <1>3 DEF Behind
<1> DEFINE S == {k \in Nat : k <= n => some \cap G[k] = {}}
<1> HIDE DEF n, B
<1>4. 0 \in S
  BY <1>2
<1> HIDE DEF s
<1>5. ASSUME NEW k \in Nat, k \in S PROVE k + 1 \in S
  <2> SUFFICES ASSUME k + 1 <= n PROVE some \cap G[k + 1] = {}
    OBVIOUS
  <2>1. k + 1 \in 1..n /\ k + 1 - 1 = k /\ k <= n
    BY <1>1
  <2>2. some \cap G[k] = {}
    BY <1>5, <2>1
  <2>3. some \cap B(G[k]) = {}
    BY <1>3, <2>2
  <2>4. G[k + 1] = G[k] \cup B(G[k])
    BY <1>2, <2>1
  <2> QED BY <2>2, <2>3, <2>4
<1>6. n \in S
  <2> HIDE DEF S
  <2>1. Nat \subseteq S
    BY <1>4, <1>5, AtEveryLength
  <2> QED BY <1>1, <2>1
<1> QED BY <1>1, <1>2, <1>6

(* A diagram is reported to have an unreachable node exactly if it has one: some nodes,  *)
(* none of them a start event, that no flow enters from outside.  For diagrams of any    *)
(* size, with cycles, with gateways of any kind and with flows that name no node.         *)
THEOREM SearchIsWhole ==
  ASSUME NEW graph, IsGraph(graph)
  PROVE  (Ids(graph.nodes) \ Reached(graph) # {}) <=>
           \E some \in SUBSET Ids(graph.nodes) :
             /\ some # {} /\ some \cap Starts(graph) = {}
             /\ \A i \in DOMAIN graph.edges :
                  graph.edges[i].valid /\ graph.edges[i].target \in some => graph.edges[i].source \in some
<1> DEFINE ids == Ids(graph.nodes)
           rest == ids \ Reached(graph)
<1>1. ASSUME rest # {}
      PROVE  /\ rest \in SUBSET ids /\ rest \cap Starts(graph) = {}
             /\ \A i \in DOMAIN graph.edges :
                  graph.edges[i].valid /\ graph.edges[i].target \in rest => graph.edges[i].source \in rest
  <2>1. rest \cap Starts(graph) = {}
    BY SearchStops
  <2>2. ASSUME NEW i \in DOMAIN graph.edges, graph.edges[i].valid, graph.edges[i].target \in rest,
               graph.edges[i].source \notin rest
        PROVE  FALSE
    <3>1. graph.edges[i].source \in Reached(graph)
      BY <2>2 DEF IsGraph
    <3>2. graph.edges[i].target \in Behind(graph, Reached(graph))
      BY <2>2, <3>1 DEF Behind
    <3> QED BY <2>2, <3>2, SearchStops
  <2> QED BY <2>1, <2>2
<1>2. ASSUME NEW some \in SUBSET ids, some # {}, some \cap Starts(graph) = {},
             \A i \in DOMAIN graph.edges :
               graph.edges[i].valid /\ graph.edges[i].target \in some => graph.edges[i].source \in some
      PROVE  rest # {}
  <2>1. some \cap Reached(graph) = {}
    BY <1>2, SearchIsEarned
  <2> QED BY <1>2, <2>1
<1> QED BY <1>1, <1>2

--------------------------------------------------------------------------------
(* Texts that are shown.                                                           *)
MarkedAt(text, start) ==
  start + Len(REDACTED) <= Len(text) /\ SubSeq(text, start + 1, start + Len(REDACTED)) = REDACTED

IsMarker(text, start) ==
  start + 3 <= Len(text) /\ text[start + 1] = "[" /\ text[start + 2] = "R" /\ text[start + 3] = "]"

LEMMA MarkerIs ==
  ASSUME NEW P, NEW text \in Seq(P), NEW start \in Nat, MarkedAt(text, start)
  PROVE  IsMarker(text, start)
<1> DEFINE part == SubSeq(text, start + 1, start + 3)
           mark == <<"[", "R", "]">>
<1>1. start + 3 <= Len(text) /\ part = mark
  BY DEF MarkedAt, REDACTED
<1>2. mark[1] = "[" /\ mark[2] = "R" /\ mark[3] = "]"
  OBVIOUS
<1> HIDE DEF mark
<1>3. part[1] = text[start + 1] /\ part[2] = text[start + 2] /\ part[3] = text[start + 3]
  BY <1>1
<1> HIDE DEF part
<1>4. IsMarker(text, start)
  BY <1>1, <1>2, <1>3 DEF IsMarker
<1> QED BY <1>4

\* Where a text is cut for this limit.
CutAt(text, limit) ==
  LET cut    == Lesser(limit, Len(text))
      inside == {start \in 0..cut - 1 : cut < start + Len(REDACTED) /\ MarkedAt(text, start)}
  IN  IF inside = {} THEN cut ELSE CHOOSE start \in inside : \A s \in inside : start <= s

LEMMA PrefixIs == ASSUME NEW text, NEW limit PROVE SafePrefix(text, limit) = SubSeq(text, 1, CutAt(text, limit))
BY DEF SafePrefix, CutAt, MarkedAt

\* Two markers do not overlap, so a cut moved out of one is in none.
LEMMA CutIs ==
  ASSUME NEW P, NEW text \in Seq(P), NEW limit \in Nat
  PROVE  /\ CutAt(text, limit) \in 0..Len(text) /\ CutAt(text, limit) <= limit
         /\ CutAt(text, limit) + Len(REDACTED) > Lesser(limit, Len(text))
         /\ \A start \in Nat : MarkedAt(text, start) =>
              CutAt(text, limit) <= start \/ CutAt(text, limit) >= start + Len(REDACTED)
<1> DEFINE cut == Lesser(limit, Len(text))
           inside == {start \in 0..cut - 1 : cut < start + Len(REDACTED) /\ MarkedAt(text, start)}
           at == CutAt(text, limit)
<1>1. cut \in 0..Len(text) /\ cut <= limit /\ Len(text) \in Nat
  BY DEF Lesser
<1>2. Len(REDACTED) = 3
  BY DEF REDACTED
<1>3. at = IF inside = {} THEN cut ELSE CHOOSE start \in inside : \A s \in inside : start <= s
  BY DEF CutAt
<1> HIDE DEF cut, at
<1>4. CASE inside = {}
  <2>1. at = cut
    BY <1>3, <1>4
  <2>2. ASSUME NEW start \in Nat, MarkedAt(text, start), start < at, at < start + 3
        PROVE  FALSE
    <3>1. start \in inside
      BY <1>1, <1>2, <2>1, <2>2
    <3> QED BY <1>4, <3>1
  <2> QED BY <1>1, <1>2, <2>1, <2>2 DEF cut, at
<1>5. CASE inside # {}
  <2>1. inside \subseteq Nat
    BY <1>1
  <2>2. \E start \in inside : \A s \in inside : start <= s
    <3> HIDE DEF inside
    <3>1. PICK t \in inside : TRUE
      BY <1>5
    <3> DEFINE S == {n \in Nat : \A s \in inside : s <= n => \E start \in inside : \A u \in inside : start <= u}
    <3>2. 0 \in S
      BY <2>1
    <3>3. ASSUME NEW n \in Nat, n \in S PROVE n + 1 \in S
      <4> SUFFICES ASSUME NEW s \in inside, s <= n + 1 PROVE \E start \in inside : \A u \in inside : start <= u
        OBVIOUS
      <4>1. CASE \E u \in inside : u <= n
        BY <3>3, <4>1
      <4>2. CASE \A u \in inside : ~(u <= n)
        <5>1. \A u \in inside : s <= u
          BY <2>1, <4>2
        <5> QED BY <5>1
      <4> QED BY <4>1, <4>2
    <3>4. t \in S
      <4> HIDE DEF S
      <4>1. Nat \subseteq S
        BY <3>2, <3>3, AtEveryLength
      <4> QED BY <2>1, <3>1, <4>1
    <3> QED BY <2>1, <3>1, <3>4
  <2>3. at \in inside
    <3> HIDE DEF inside
    <3> QED BY <1>3, <1>5, <2>2
  <2>4. at \in 0..cut - 1 /\ cut < at + 3 /\ MarkedAt(text, at)
    BY <1>2, <2>3
  <2>5. at \in Nat
    BY <2>4
  <2>6. text[at + 1] = "[" /\ text[at + 2] = "R" /\ text[at + 3] = "]"
    <3>1. IsMarker(text, at)
      BY <2>4, <2>5, MarkerIs, Zenon
    <3> QED BY <3>1 DEF IsMarker
  <2>7. ASSUME NEW start \in Nat, MarkedAt(text, start), start < at, at < start + 3
        PROVE  FALSE
    <3>1. text[start + 1] = "[" /\ text[start + 2] = "R" /\ text[start + 3] = "]"
      <4>1. IsMarker(text, start)
        BY <2>7, MarkerIs, Zenon
      <4> QED BY <4>1 DEF IsMarker
    <3>2. at + 1 = start + 2 \/ at + 1 = start + 3
      BY <2>5, <2>7
    <3> QED BY <2>6, <3>1, <3>2
  <2>8. \A start \in Nat : MarkedAt(text, start) => at <= start \/ at >= start + 3
    BY <2>5, <2>7
  <2> QED BY <1>1, <1>2, <2>4, <2>5, <2>8 DEF cut, at
<1> QED BY <1>4, <1>5

(* What a tool shows of a text, and says of it, of any length and with any limit: a        *)
(* beginning of the redacted text within the limit, none of whose markers is cut through,   *)
(* shortened by less than a marker for it; exact only if it is the source, an exact prefix  *)
(* only if it begins the source; and the lengths it tells are those.                       *)
THEOREM CutsAreTold ==
  ASSUME NEW P, NEW text \in Seq(P), NEW clean \in Seq(P), NEW limit \in Nat
  PROVE  LET body == script_body([text |-> clean, source_chars |-> Len(text), redacted |-> clean # text], limit)
         IN  /\ body.returned_chars = Len(body.text) /\ Len(body.text) <= limit /\ Len(body.text) <= Len(clean)
             /\ \A i \in 1..Len(body.text) : body.text[i] = clean[i]
             /\ Len(body.text) + Len(REDACTED) > Lesser(limit, Len(clean))
             /\ \A start \in Nat : MarkedAt(clean, start) =>
                  Len(body.text) <= start \/ Len(body.text) >= start + Len(REDACTED)
             /\ body.truncated <=> body.returned_chars < body.safe_chars
             /\ body.text_is = "exact" => body.text = text
             /\ clean = text => (body.text_is = "exact" <=> body.text = text) /\ body.safe_chars = body.source_chars
             /\ body.text_is = "exact prefix" =>
                  Len(body.text) < Len(text) /\ \A i \in 1..Len(body.text) : body.text[i] = text[i]
<1> DEFINE source == [text |-> clean, source_chars |-> Len(text), redacted |-> clean # text]
           body == script_body(source, limit)
           at == CutAt(clean, limit)
           shown == SubSeq(clean, 1, at)
<1>1. at \in 0..Len(clean) /\ at <= limit
  BY CutIs
<1>2. at + Len(REDACTED) > Lesser(limit, Len(clean))
  BY CutIs
<1>3. \A start \in Nat : MarkedAt(clean, start) => at <= start \/ at >= start + Len(REDACTED)
  BY CutIs
<1> HIDE DEF at
<1>4. Len(shown) = at /\ \A i \in 1..at : shown[i] = clean[i]
  BY <1>1
<1>5. SafePrefix(clean, limit) = shown
  BY PrefixIs DEF at
<1>6. at = Len(clean) => shown = clean
  BY <1>1
<1> HIDE DEF shown
<1>7. /\ body.text = shown /\ body.returned_chars = Len(shown) /\ body.safe_chars = Len(clean)
      /\ body.source_chars = Len(text) /\ body.truncated = (Len(shown) < Len(clean))
  BY <1>5 DEF script_body
<1>a. clean = text /\ ~(Len(shown) < Len(clean)) => body.text_is = "exact"
  BY <1>5 DEF script_body
<1>b. clean = text /\ Len(shown) < Len(clean) => body.text_is = "exact prefix"
  BY <1>5 DEF script_body
<1>c. clean # text => body.text_is \in {"redacted", "redacted prefix"}
  BY <1>5 DEF script_body
<1> HIDE DEF body
<1>8. Len(clean) \in Nat /\ at \in Nat
  BY <1>1
<1>9. body.text_is = "exact" => clean = text /\ at = Len(clean)
  BY <1>1, <1>4, <1>8, <1>a, <1>b, <1>c
<1>10. body.text_is = "exact prefix" => clean = text /\ at < Len(clean)
  BY <1>1, <1>4, <1>8, <1>a, <1>b, <1>c
<1>11. clean = text => (body.text_is = "exact" <=> body.text = text) /\ body.safe_chars = body.source_chars
  <2> SUFFICES ASSUME clean = text PROVE (body.text_is = "exact" <=> body.text = text) /\ body.safe_chars = body.source_chars
    OBVIOUS
  <2>1. body.safe_chars = body.source_chars
    BY <1>7
  <2>2. CASE at = Len(clean)
    <3>1. body.text = text /\ ~(Len(shown) < Len(clean))
      BY <1>4, <1>6, <1>7, <1>8, <2>2
    <3> QED BY <1>a, <2>1, <3>1
  <2>3. CASE at < Len(clean)
    <3>1. Len(shown) < Len(clean)
      BY <1>4, <2>3
    <3>2. body.text # text
      BY <1>7, <1>8, <3>1
    <3> QED BY <1>b, <2>1, <3>1, <3>2
  <2> QED BY <1>1, <1>8, <2>2, <2>3
<1>12. body.text_is = "exact" => body.text = text
  BY <1>6, <1>7, <1>9
<1>13. body.text_is = "exact prefix" =>
         Len(body.text) < Len(text) /\ \A i \in 1..Len(body.text) : body.text[i] = text[i]
  BY <1>4, <1>7, <1>10
<1>14. body.truncated <=> body.returned_chars < body.safe_chars
  BY <1>7
<1>15. /\ body.returned_chars = Len(body.text) /\ Len(body.text) <= limit /\ Len(body.text) <= Len(clean)
       /\ \A i \in 1..Len(body.text) : body.text[i] = clean[i]
  BY <1>1, <1>4, <1>7
<1>16. Len(body.text) + Len(REDACTED) > Lesser(limit, Len(clean))
  BY <1>2, <1>4, <1>7
<1>17. \A start \in Nat : MarkedAt(clean, start) => Len(body.text) <= start \/ Len(body.text) >= start + Len(REDACTED)
  BY <1>3, <1>4, <1>7
<1> QED BY <1>11, <1>12, <1>13, <1>14, <1>15, <1>16, <1>17 DEF body

(* A mapping of any size: redacted keys are refused exactly if two would become one where   *)
(* none may be lost; else every key is there, with the last of its values, redacted.         *)
THEOREM MappingsAreKept ==
  ASSUME NEW pairs, Len(pairs) \in Nat, DOMAIN pairs = 1..Len(pairs), NEW unique \in BOOLEAN, None # "collision"
  PROVE  LET answer == redact_strings(pairs, unique)
             Key(i) == redact(pairs[i][1])
         IN  /\ answer.error # None <=> unique /\ \E i, j \in DOMAIN pairs : i # j /\ Key(i) = Key(j)
             /\ answer.error = None =>
                  /\ DOMAIN answer.kept = {Key(i) : i \in DOMAIN pairs}
                  /\ \A i \in DOMAIN pairs :
                       (\A j \in DOMAIN pairs : i < j => Key(i) # Key(j)) => answer.kept[Key(i)] = redact(pairs[i][2])
<1> DEFINE n == Len(pairs)
           Key(i) == redact(pairs[i][1])
           Value(i) == redact(pairs[i][2])
           LastOf(k) == CHOOSE i \in DOMAIN pairs : /\ Key(i) = k
                                                    /\ \A j \in DOMAIN pairs : Key(j) = k => j <= i
           keys == {Key(i) : i \in 1..n}
           kept == [k \in keys |-> Value(LastOf(k))]
<1>1. Kept(pairs) = [error |-> None, kept |-> kept]
  <2>1. {redact(p[1]) : p \in ToSet(pairs)} = keys
    BY DEF ToSet
  <2>2. Kept(pairs) = [error |-> None, kept |-> [k \in {redact(p[1]) : p \in ToSet(pairs)} |-> Value(LastOf(k))]]
    BY Zenon DEF Kept
  <2> HIDE DEF keys
  <2> QED BY <2>1, <2>2
<1>2. redact_strings(pairs, unique) =
        IF unique /\ \E i, j \in 1..n : i # j /\ Key(i) = Key(j) THEN [error |-> "collision"] ELSE Kept(pairs)
  BY DEF redact_strings
<1> HIDE DEF Key, Value
<1>3. ASSUME NEW i \in 1..n, \A j \in 1..n : i < j => Key(i) # Key(j)
      PROVE  kept[Key(i)] = Value(i)
  <2>1. Key(i) = Key(i) /\ \A j \in 1..n : Key(j) = Key(i) => j <= i
    BY <1>3
  <2>2. \A t \in 1..n : Key(t) = Key(i) /\ (\A j \in 1..n : Key(j) = Key(i) => j <= t) => t = i
    BY <2>1
  <2>3. LastOf(Key(i)) = i
    BY <2>1, <2>2
  <2> HIDE DEF LastOf
  <2> QED BY <2>3
<1> HIDE DEF kept
<1>4. DOMAIN kept = keys
  BY DEF kept
<1> HIDE DEF keys
<1> DEFINE answer == redact_strings(pairs, unique)
<1>5. CASE unique /\ \E i, j \in 1..n : i # j /\ Key(i) = Key(j)
  <2>1. answer.error = "collision"
    BY <1>2, <1>5
  <2> HIDE DEF answer
  <2> QED BY <1>5, <2>1 DEF answer, Key
<1>6. CASE ~(unique /\ \E i, j \in 1..n : i # j /\ Key(i) = Key(j))
  <2>1. answer.error = None /\ answer.kept = kept
    BY <1>1, <1>2, <1>6
  <2> HIDE DEF answer
  <2> QED BY <1>3, <1>4, <1>6, <2>1 DEF answer, Key, Value, keys
<1> QED BY <1>5, <1>6
================================================================================
