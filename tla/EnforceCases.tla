----------------------------- MODULE EnforceCases ------------------------------
(* Environments and policy files put to the start-up and to enforce(). *)
EXTENDS Enforce, Question

Names == Capabilities \cup
    {"writes", "script_writes", "lab_mode", "require_action_confirmation", "require_playbook_confirmation",
     "approval_mode", "mcp_transport", "mcp_host", "http_auth_token", "http_acknowledge_exposure",
     "verify_ssl", "ca_bundle", "base_url", "api_key", "action_policy_file", "audit_required"}

\* The environment in which the given variables are set, and no other.
Env(given) == [v \in Names |-> IF v \in DOMAIN given THEN given[v] ELSE None]

--------------------------------------------------------------------------------
(* Policies and calls. *)

Net == {"10.0.0.1", "10.0.0.2"}
Host == {"host"}

Actions == {[name |-> "isolate", shouted |-> FALSE, id |-> "1"], [name |-> "isolate", shouted |-> TRUE, id |-> "1"],
            [name |-> "block", shouted |-> FALSE, id |-> "2"]}

Targets == {{}, {"10.0.0.1"}, {"host"}, {"10.0.0.1", "host"}}

Rule(by, value, tier, decision) ==
    [by |-> by, value |-> value, tier |-> tier, decision |-> decision, destructive |-> FALSE,
     types |-> {}, deny |-> {}, allow |-> {}]

Matches == {<<"name", {"isolate"}>>, <<"regex", {"isolate", "block"}>>, <<"id", {"2"}>>}

Unconstrained ==
    {Rule(m[1], m[2], t, d) :
        m \in Matches, t \in {MODIFICATION, CONTROL}, d \in {"allow", "require_approval"}}

Constraints ==
    [deny : {{}, {Net}, {Host}}, allow : {{}, {Net}}, types : {{}, {"ip"}}, destructive : BOOLEAN]

Constrained(r, c) ==
    [r EXCEPT !.deny = c.deny, !.allow = c.allow, !.types = c.types, !.destructive = c.destructive]

Rules == {Constrained(r, c) : r \in Unconstrained, c \in Constraints}

Seconds == {Rule(m[1], m[2], t, "allow") : m \in Matches, t \in {MODIFICATION, AUTOMATION}}

Policy(rules) == [rules |-> rules, default |-> [tier |-> HIGH_RISK, decision |-> "deny"]]

\* What an operator does to be stricter: deny one more value, ask for a human, call a rule
\* destructive or of a higher tier, or put a rule that denies in front of the others.
Stricter(rule) ==
    {[rule EXCEPT !.deny = @ \cup {p}] : p \in {Net, Host}}
    \cup {[rule EXCEPT !.decision = "require_approval"], [rule EXCEPT !.destructive = TRUE],
          [rule EXCEPT !.tier = @ + 1]}

StricterRules(rules) ==
    {[rules EXCEPT ![i] = r] : i \in {1}, r \in Stricter(rules[1])}
    \cup {[rules EXCEPT ![i] = r] : i \in {2}, r \in Stricter(rules[2])}
    \cup {<<Rule(m[1], m[2], CONTROL, "deny")>> \o rules : m \in Matches}

\* The tools there are, the one that is reserved (Tier 4), and the contract that is kept
\* for actions once they can be invoked: a tool with a classifier.
Tool(tier, capability, unsupported) == [tier |-> tier, capability |-> capability, unsupported |-> unsupported]

Invoke == Tool(CONTROL, "actions", FALSE)

Plain ==
    {Tool(READ, None, FALSE), Tool(DOCUMENTATION, "comments", FALSE), Tool(MODIFICATION, "incident_close", FALSE),
     Tool(CONTROL, "actions", TRUE), Tool(CONTROL, "actions", FALSE), Tool(AUTOMATION, "playbook_create", FALSE),
     Tool(HIGH_RISK, "actions", FALSE)}

--------------------------------------------------------------------------------
(* What may happen without a human. *)

Disk == [files |-> {"policy.yml"}, loadable |-> {}, real |-> [f \in {"policy.yml"} |-> f],
         keyReads |-> TRUE, auditOpens |-> TRUE,
         policy |-> Policy(<<Rule("name", {"isolate"}, CONTROL, "allow"), Rule("id", {"2"}, AUTOMATION, "allow")>>)]

Given ==
    [actions : {None, "on", "odd"}, playbook_create : {None, "on"}, writes : {None, "on"},
     approval_mode : {None, "in_band", "disabled", "odd"},
     require_action_confirmation : {None, "off", "odd"}, require_playbook_confirmation : {None, "off"},
     lab_mode : {None, "on", "odd"}, mcp_transport : {None, "streamable-http"}, http_auth_token : {None, "token"},
     action_policy_file : {None, "policy.yml"}]

AskEnforce == asked' \in [kind : {"enforce"}, given : Given, override : {None, "stdio", "streamable-http"}]

\* What each tool is answered, and each action by way of the policy.
Answers(runtime) ==
    LET s == IF runtime = None THEN None ELSE runtime.settings
    IN  {[tool |-> t, answer |-> enforce(s, t, None)] : t \in Plain}
        \cup (IF runtime = None \/ "actions" \notin s.enabled THEN {}
              ELSE {[tool |-> Invoke, answer |-> enforce(s, Invoke, classify(runtime.policy, a, {}, None))] :
                      a \in Actions})

\* From Tier 3 on, whatever is set, misspelt, deprecated or given on the command line: a call
\* goes through on stdio only, with the tool's own flag on, and after an answer to a human
\* out of band, unless the lab was asked for by name and the human turned off by name.
HighTierIsAsked ==
    asked.kind = "enforce" =>
        LET g == asked.given
            runtime == Build(Env(g), asked.override, Disk)
        IN  \A r \in Answers(runtime) :
              r.answer.code \in {"ALLOW", "REQUIRE_APPROVAL"} /\ r.answer.tier >= CONTROL =>
                /\ r.answer.tier < HIGH_RISK
                /\ runtime.settings.transport = "stdio"
                /\ g[r.tool.capability] = "on"
                /\ IF r.answer.code = "ALLOW"
                   THEN /\ g.lab_mode = "on"
                        /\ \/ g.approval_mode = "disabled"
                           \/ "off" \in {g.require_action_confirmation, g.require_playbook_confirmation}
                   ELSE g.approval_mode \notin {"in_band", "disabled"} \/ g.lab_mode = "on"

--------------------------------------------------------------------------------
(* What being stricter does. *)

AskPolicy == \E r \in Rules, q \in Seconds :
    asked' \in [kind : {"policy"}, rules : {<<r, q>>}, stricter : StricterRules(<<r, q>>), destructive : BOOLEAN]

Unset == Parsed(Env(<<>>))

CodeUnder(rules, action, targets, type, destructive) ==
    LET s == [Unset EXCEPT !.enabled = {"actions"} \cup IF destructive THEN {"destructive_actions"} ELSE {}]
    IN  enforce(s, Invoke, classify(Policy(rules), action, targets, type)).code

\* No call goes through after that did not before, and none without a human that needed one.
NoLooser(after, before) ==
    /\ after = "ALLOW" => before = "ALLOW"
    /\ after = "REQUIRE_APPROVAL" => before \in {"ALLOW", "REQUIRE_APPROVAL"}

\* Outside the lab, being stricter in one rule never lets a call through that was refused and
\* never drops the human from one that needed an approval, though rules hide each other and
\* what is denied, allowed and typed is looked up together.
StricterIsStricter ==
    asked.kind = "policy" =>
        \A a \in Actions, t \in Targets, y \in {None, "ip", "hash"} :
          NoLooser(CodeUnder(asked.stricter, a, t, y, asked.destructive),
                   CodeUnder(asked.rules, a, t, y, asked.destructive))

--------------------------------------------------------------------------------
(* What the client verifies SOAR with. *)

Bundles == {"a.pem", "a link", "b.pem"}

ASSUME BundlesAssumption == None \notin Bundles

AskTrust ==
    asked' \in [kind : {"trust"},
                given : [verify_ssl : {None, "on", "off", "odd"} \cup Bundles, ca_bundle : {None} \cup Bundles,
                         lab_mode : {None, "on", "odd"}, base_url : {"https", "http", "http on loopback"},
                         api_key : {None, "key"}],
                files : SUBSET Bundles, loadable : SUBSET Bundles]

RealPath(f) == IF f = "a link" THEN "a.pem" ELSE f

\* A client is verified against every bundle that was named, and against nothing else: not
\* against another source because a bundle is missing, does not load or contradicts the other
\* one, and not at all only when both variables that say so say so.
TrustIsAsNamed ==
    asked.kind = "trust" =>
        LET g == asked.given
            disk == [Disk EXCEPT !.files = asked.files, !.loadable = asked.loadable \cap asked.files,
                                 !.real = [f \in Bundles |-> RealPath(f)]]
            runtime == Build(Env(g), None, disk)
            named == {RealPath(b) : b \in Bundles \cap {g.verify_ssl, g.ca_bundle}}
        IN  runtime # None /\ runtime.trust # None =>
              CASE runtime.trust = "nothing"        -> g.verify_ssl = "off" /\ g.lab_mode = "on" /\ named = {}
                [] runtime.trust = "python default" -> g.verify_ssl \in {None, "on"} /\ named = {}
                [] OTHER                            -> named = {RealPath(runtime.trust)}
================================================================================
