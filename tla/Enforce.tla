-------------------------------- MODULE Enforce --------------------------------
(***************************************************************************)
(* What an operator's settings permit (config.py, tls.py, transport.py, the *)
(* start-up in runtime.py) and what enforce() makes of one call under them   *)
(* and under the policy file (permissions.py, action_policy.py, tiers.py).    *)
(*                                                                         *)
(* An environment maps every variable to a raw value: None when it is unset, *)
(* "on" or "off" for the recognised booleans, "odd" for what is not          *)
(* recognised, and otherwise what the text names.                           *)
(***************************************************************************)
EXTENDS Integers, Sequences, FiniteSets, SequencesExt, Values

READ == 0
DOCUMENTATION == 1
MODIFICATION == 2
CONTROL == 3
AUTOMATION == 4
HIGH_RISK == 5

\* CAPABILITY_TIERS, without the SOAR_ALLOW_ prefix.
CapabilitiesOf(tier) ==
    CASE tier = DOCUMENTATION -> {"comments", "artifacts"}
      [] tier = MODIFICATION  -> {"incident_writes", "task_writes", "incident_close"}
      [] tier = CONTROL       -> {"actions", "destructive_actions"}
      [] tier = AUTOMATION    -> {"playbook_draft", "playbook_export", "playbook_create",
                                  "playbook_modify", "playbook_deploy", "playbook_enable"}
      [] OTHER                -> {}

Capabilities == UNION {CapabilitiesOf(tier) : tier \in READ..HIGH_RISK}

\* LEGACY_WRITES_TARGETS
LegacyTargets == CapabilitiesOf(DOCUMENTATION) \cup CapabilitiesOf(MODIFICATION)

\* _bool_parser: what is not recognised is on the safe side.
ParsedBool(raw, safe) == IF raw = "on" THEN TRUE ELSE IF raw = "off" THEN FALSE ELSE safe

\* One of the texts a variable may have, or else its default.
ParsedChoice(raw, choices, default) == IF raw \in choices THEN raw ELSE default

\* Settings, once its fields are parsed and the legacy flag is spread.  verify is TRUE,
\* FALSE, "odd", or the path of a bundle.
Parsed(env) ==
    [enabled      |-> {c \in Capabilities : \/ ParsedBool(env[c], FALSE)
                                            \/ (env.writes = "on" /\ c \in LegacyTargets)},
     scriptWrites |-> ParsedBool(env.script_writes, FALSE),
     lab          |-> ParsedBool(env.lab_mode, FALSE),
     confirmAction   |-> ParsedBool(env.require_action_confirmation, TRUE),
     confirmPlaybook |-> ParsedBool(env.require_playbook_confirmation, TRUE),
     approval     |-> ParsedChoice(env.approval_mode, {"out_of_band", "in_band", "disabled"}, "out_of_band"),
     transport    |-> ParsedChoice(env.mcp_transport, {"stdio", "streamable-http"}, "stdio"),
     verify       |-> IF env.verify_ssl \in {None, "on"} THEN "yes"
                      ELSE IF env.verify_ssl = "off" THEN "no" ELSE env.verify_ssl,
     bundle       |-> env.ca_bundle,
     url          |-> env.base_url,
     ready        |-> env.base_url # None /\ env.api_key # None,
     token        |-> env.http_auth_token # None,
     everywhere   |-> env.mcp_host = "all interfaces",
     exposed      |-> ParsedBool(env.http_acknowledge_exposure, FALSE),
     policyFile   |-> env.action_policy_file,
     auditRequired |-> ParsedBool(env.audit_required, TRUE)]

\* tls_verify, tls_ca_bundle
Legacy(s)      == s.verify \notin {"yes", "no"}
TlsBundle(s)   == IF Legacy(s) THEN s.verify ELSE s.bundle

\* A slip: of two bundles that are named, one is as good as the other.
TlsRulesLenient(s, disk) ==
    /\ Legacy(s) => s.verify \in disk.files
    /\ s.bundle # None => s.bundle \in disk.files
    /\ s.verify = "no" => s.bundle = None /\ s.lab

\* _verify_ssl and _tls_rules.  disk has the files there are, what each resolves to, and
\* which of them load as a bundle.
TlsRules(s, disk) ==
    /\ Legacy(s) => /\ s.verify \in disk.files
                    /\ s.bundle # None => disk.real[s.verify] = disk.real[s.bundle]
    /\ s.bundle # None => s.bundle \in disk.files
    /\ s.verify = "no" => s.bundle = None /\ s.lab

\* _confirmation_rules
ConfirmationRules(s) == s.lab \/ (s.confirmAction /\ s.confirmPlaybook)

\* A slip: only the action flags need a human.
ApprovalRulesForActions(s) == "actions" \in s.enabled => s.approval = "out_of_band" \/ s.lab

ApprovalRules(s) ==
    /\ "actions" \in s.enabled => s.approval = "out_of_band" \/ s.lab
    /\ s.enabled \cap CapabilitiesOf(AUTOMATION) # {} => s.approval = "out_of_band" \/ s.lab

\* Settings.load raises nothing.
Loads(s, disk) ==
    /\ ~s.scriptWrites
    /\ s.url \in {None, "https", "http on loopback"}
    /\ TlsRules(s, disk)
    /\ ConfirmationRules(s)
    /\ "actions" \in s.enabled => s.policyFile \in disk.files
    /\ ApprovalRules(s)

\* check_transport_config
MayListen(s) == s.transport = "streamable-http" => s.token /\ (s.everywhere => s.exposed)

\* build_trust: what the client verifies servers with, None when nothing can be built.
BuildTrust(s, disk) ==
    CASE s.verify = "no"         -> IF s.lab THEN "nothing" ELSE None
      [] s.verify # "no" /\ TlsBundle(s) = None -> "python default"
      [] s.verify # "no" /\ TlsBundle(s) # None ->
           IF TlsBundle(s) \in disk.loadable THEN TlsBundle(s) ELSE None

\* Runtime.build: the settings and the policy a server starts with, None when it refuses.
Build(env, override, disk) ==
    LET parsed == Parsed(env)
        s == IF override = None THEN parsed ELSE [parsed EXCEPT !.transport = override]
    IN  IF /\ Loads(parsed, disk)
           /\ MayListen(s)
           /\ "actions" \in s.enabled => disk.policy # None
           /\ disk.keyReads
           /\ disk.auditOpens \/ ~s.auditRequired
           /\ s.ready => BuildTrust(s, disk) # None
        THEN [settings |-> s,
              policy   |-> IF "actions" \in s.enabled THEN disk.policy ELSE None,
              audit    |-> disk.auditOpens,
              trust    |-> IF s.ready THEN BuildTrust(s, disk) ELSE None]
        ELSE None

--------------------------------------------------------------------------------
(* The policy file.  A rule names actions (value) whatever their case, by an      *)
(* expression that sees how they are written, or by id.                          *)

Decisions == {"allow", "require_approval", "deny"}

\* What the policy says of one action.
PolicyResult == [tier : READ..HIGH_RISK, decision : Decisions, destructive : BOOLEAN, violation : BOOLEAN]

\* What is unset or missing is no text, and no result.
ASSUME EnforceAssumption ==
    /\ None \notin Capabilities \cup {"on", "off", "yes", "no", "nothing", "python default", "odd", "disabled"}
    /\ None \notin PolicyResult

RuleMatches(rule, action) ==
    CASE rule.by = "name"  -> action.name \in rule.value
      [] rule.by = "regex" -> ~action.shouted /\ action.name \in rule.value
      [] rule.by = "id"    -> action.id \in rule.value

\* _value_matches: a pattern is the targets it covers, a network its addresses.
ValueMatches(pattern, target) == target \in pattern

\* _check_constraints
Violates(rule, targets, type) ==
    \/ rule.types # {} /\ type # None /\ type \notin rule.types
    \/ \E t \in targets :
         \/ \E p \in rule.deny : ValueMatches(p, t)
         \/ rule.allow # {} /\ ~\E p \in rule.allow : ValueMatches(p, t)

\* A slip: a rule whose constraints do not hold is passed over.
ClassifyByWhatFits(policy, action, targets, type) ==
    LET Test(rule) == RuleMatches(rule, action) /\ ~Violates(rule, targets, type)
        i == SelectInSeq(policy.rules, Test)
    IN  IF i = 0
        THEN [tier |-> policy.default.tier, decision |-> policy.default.decision,
              destructive |-> policy.default.tier >= HIGH_RISK, violation |-> FALSE]
        ELSE [tier |-> policy.rules[i].tier, decision |-> policy.rules[i].decision,
              destructive |-> policy.rules[i].destructive,
              violation |-> FALSE]

\* The first rule that matches, or else the default.
classify(policy, action, targets, type) ==
    LET Test(rule) == RuleMatches(rule, action)
        i == SelectInSeq(policy.rules, Test)
    IN  IF i = 0
        THEN [tier |-> policy.default.tier, decision |-> policy.default.decision,
              destructive |-> policy.default.tier >= HIGH_RISK, violation |-> FALSE]
        ELSE [tier |-> policy.rules[i].tier, decision |-> policy.rules[i].decision,
              destructive |-> policy.rules[i].destructive,
              violation |-> Violates(policy.rules[i], targets, type)]

--------------------------------------------------------------------------------
(* enforce.  tool has its tier, its capability (or None) and whether it is        *)
(* unsupported; verdict is what classify said, None for a tool without classifier. *)

NeedsApproval(s, tier, verdict) ==
    \/ verdict # None /\ verdict.decision = "require_approval"
    \/ tier = CONTROL /\ s.confirmAction
    \/ tier = AUTOMATION /\ s.confirmPlaybook

Refused(code, tier) == [code |-> code, tier |-> tier]

\* Steps 5 to 8, at the effective tier.
EnforceTier(s, tool, tier, verdict) ==
    IF tier >= HIGH_RISK THEN Refused("DENY_TIER5", tier)
    ELSE IF s.transport # "stdio" /\ tier >= CONTROL THEN Refused("DENY_TRANSPORT", tier)
    ELSE IF tool.unsupported THEN Refused("DENY_UNSUPPORTED", tier)
    ELSE IF NeedsApproval(s, tier, verdict) /\ s.approval # "disabled"
    THEN [code |-> "REQUIRE_APPROVAL", tier |-> tier]
    ELSE [code |-> "ALLOW", tier |-> tier]

\* Step 4, what the policy says of the target.
EnforcePolicy(s, tool, verdict) ==
    IF verdict.violation THEN Refused("DENY_TARGET", verdict.tier)
    ELSE IF verdict.decision = "deny" THEN Refused("DENY_POLICY", verdict.tier)
    ELSE IF verdict.destructive /\ "destructive_actions" \notin s.enabled
    THEN Refused("DENY_DESTRUCTIVE", verdict.tier)
    ELSE EnforceTier(s, tool, verdict.tier, verdict)

\* Step 3, the capability of the tool.
enforce(s, tool, verdict) ==
    IF s = None THEN Refused("DENY_CONFIG", tool.tier)
    ELSE IF tool.capability = None /\ tool.tier > READ THEN Refused("DENY_CONFIG", tool.tier)
    ELSE IF tool.capability # None /\ tool.capability \notin Capabilities THEN Refused("DENY_CONFIG", tool.tier)
    ELSE IF tool.capability # None /\ tool.capability \notin s.enabled THEN Refused("DENY_DISABLED", tool.tier)
    ELSE IF verdict = None THEN EnforceTier(s, tool, tool.tier, None)
    ELSE EnforcePolicy(s, tool, verdict)
================================================================================
