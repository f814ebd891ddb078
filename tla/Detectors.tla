------------------------------ MODULE Detectors ------------------------------
(****************************************************************************)
(* What the four detectors of MCPSecurityMonitor report about a tool call,   *)
(* and how the monitor turns the reports into a decision.  The patterns the  *)
(* detectors search for are abstracted to the set a call matches; the        *)
(* counting, the scores, the failures and their order are the code's.        *)
(*                                                                          *)
(* A call is a record: tool (the part of its name before the dot, or         *)
(* NonString), server, shape of its arguments ("map", "text", or "deep": a   *)
(* map nested too deep for a recursive walk), injects                        *)
(* (names of injection patterns its texts match), ml (percent the classifier *)
(* gives it), pii (types it holds), exfil (indicators it shows).             *)
(*                                                                          *)
(* The shadow-server detector is a record: allowed, caps (server -> declared *)
(* capabilities, for the registered ones), calls (server -> calls seen), and *)
(* ml: the classifier behind the injection detector.                         *)
(****************************************************************************)
EXTENDS Integers, FiniteSets, FiniteSetsExt, Functions

CONSTANTS NonString,   \* a tool name that is not a string
          NoServer     \* a call without a server_id field

Detector == {"prompt_injection", "pii", "shadow_server", "exfiltration"}

\* The names of the patterns, family by family; a name is reported once.
OverridePatterns == {"ignore_previous_instructions", "system_override", "forget_everything",
   "jailbreak_identity", "tag_injection", "do_anything_now", "disregard_guidelines",
   "reveal_prompt", "act_as_unrestricted", "new_instructions", "bypass_safety", "roleplay_evil"}
MarkupPatterns == {"prompt_leak_what_is", "prompt_leak_repeat", "prompt_leak_verbatim",
   "delimiter_json_escape", "delimiter_triple_backtick", "delimiter_separator",
   "delimiter_xml_tag", "html_script_injection", "html_event_handler",
   "markdown_link_injection", "html_iframe_injection", "markdown_image_exfil"}
EncodingPatterns == {"base64_instruction", "hex_encoded_payload", "unicode_escape_payload",
   "rot13_instruction", "encoded_ignore_instruction"}
LanguagePatterns == {"injection_spanish", "injection_french", "injection_german",
   "injection_chinese", "injection_japanese", "injection_russian", "injection_arabic",
   "injection_portuguese", "injection_korean"}
IndirectPatterns == {"indirect_hidden_instruction", "indirect_assistant_note",
   "indirect_hidden_text", "indirect_email_injection", "indirect_document_payload",
   "unicode_bidi_override", "unicode_tag_chars", "unicode_confusables"}
EvasionPatterns == {"char_splitting", "payload_concatenation", "token_smuggling",
   "context_switch", "developer_mode", "hypothetical_frame", "completion_manipulation",
   "few_shot_injection", "instruction_boundary"}
AuthorityPatterns == {"obsolete_prior_text", "override_safety", "privileged_tool_output",
   "revoke_guardrails", "approval_spoofing", "sandbox_escape_authority",
   "exfiltrate_confidential", "secret_environment_exfil", "rule_override_above",
   "set_aside_prior", "revoke_developer", "authority_promotion", "guardrails_expired",
   "override_previous_directions"}

PatternName == OverridePatterns \union MarkupPatterns \union EncodingPatterns
   \union LanguagePatterns \union IndirectPatterns \union EvasionPatterns
   \union AuthorityPatterns \union {"zero_width_chars_detected"}

PIIType == {"email", "ssn", "credit_card", "phone_us", "ip_address", "date_of_birth",
            "passport", "aws_key", "api_key"}

ExfilReason == {"bcc", "size", "blob", "url"}

IsEmailTool(t) == t \in {"email", "smtp"}

----------------------------------------------------------------------------
(* The prompt-injection detector.  The classifier is consulted only when no  *)
(* pattern matched; it is loaded on its first use and, when that fails,      *)
(* switched off for good.                                                    *)

Ambiguous(c) == c.injects = {} /\ c.shape # "deep"

MLOutcome(ml, c) ==
   IF Ambiguous(c) /\ ml = "unloaded" THEN {"ready", "off"} ELSE {ml}

MLThreshold == 70

MLThreat(ml, c) == ml = "ready" /\ c.ml >= MLThreshold

Injected(ml, c) == c.injects # {} \/ MLThreat(ml, c)

\* Mutant: one pattern scores less than the quarantine threshold.
InjectionRisk_Low(ml, c) == Min({10 + 15 * Cardinality(c.injects), 100})

InjectionRisk(ml, c) ==
   IF c.injects # {} THEN Min({30 + 15 * Cardinality(c.injects), 100})
   ELSE IF MLThreat(ml, c) THEN Min({(c.ml * 80) \div 100, 80})
   ELSE 0

----------------------------------------------------------------------------
(* The shadow-server detector. *)

Shadow0(servers) ==
   [allowed |-> servers, caps |-> <<>>, calls |-> [s \in servers |-> 0], ml |-> "unloaded"]

Registered(sh, s) == s \in DOMAIN sh.caps

Register(sh, s, caps) ==
   [sh EXCEPT !.allowed = @ \union {s},
              !.caps = [t \in DOMAIN @ \union {s} |-> IF t = s THEN caps ELSE @[t]],
              !.calls = [t \in DOMAIN @ \union {s} |-> IF t = s THEN 0 ELSE @[t]]]

Unregistered(sh, c) == c.server = NoServer \/ c.server \notin sh.allowed

Undeclared(sh, c) ==
   /\ c.tool # "plain"
   /\ Registered(sh, c.server)
   /\ sh.caps[c.server] # {}
   /\ c.tool \notin sh.caps[c.server]

IsShadow(sh, c) == Unregistered(sh, c) \/ Undeclared(sh, c)

CountCall(sh, c) ==
   IF Unregistered(sh, c) THEN sh ELSE [sh EXCEPT !.calls[c.server] = @ + 1]

\* Mutant: volume counts for the server.
Trust_Volume(sh, s) == Min({10 + 5 * sh.calls[s], 90})

Trust(sh, s) ==
   IF s \notin sh.allowed THEN 0
   ELSE IF ~Registered(sh, s) THEN Max({30 - Min({5 * sh.calls[s], 20}), 10})
   ELSE Max({90 - Min({Max({sh.calls[s] - 20, 0}), 20}), 70})

----------------------------------------------------------------------------
(* The exfiltration detector: hidden recipients are looked for in the        *)
(* payloads of email tools only.                                             *)

ExfilReasons(c) == {r \in c.exfil : r = "bcc" => IsEmailTool(c.tool)}

----------------------------------------------------------------------------
(* The monitor: every detector runs, a detector that raises is recorded, and *)
(* the decision is taken from what is left.                                  *)

When(condition, d) == IF condition THEN {d} ELSE {}

\* Three detectors collect the texts of the arguments, first of all.
Fails(sh, c) ==
   (IF c.shape = "deep" THEN {"prompt_injection", "pii", "exfiltration"} ELSE {})
   \union When(c.tool = NonString /\ ~Unregistered(sh, c), "shadow_server")
   \union When(c.tool = NonString \/ (IsEmailTool(c.tool) /\ c.shape = "text"), "exfiltration")

Score(sh, ml, c) ==
   [prompt_injection |-> InjectionRisk(ml, c),
    pii              |-> IF c.pii = {} THEN 0 ELSE 40 + 10 * Cardinality(c.pii),
    shadow_server    |-> IF IsShadow(sh, c) THEN 80 ELSE 0,
    exfiltration     |-> IF ExfilReasons(c) = {} THEN 0
                         ELSE 70 + 5 * Cardinality(ExfilReasons(c))]

InspectCall(sh, ml, c, shadowMode) ==
   LET failed == Fails(sh, c)
       score  == [d \in Detector \ failed |-> Score(sh, ml, c)[d]]
       risk   == Min({Max({0} \union Range(score)), 100})
       threat == \/ "prompt_injection" \notin failed /\ Injected(ml, c)
                 \/ risk >= 50
                 \/ ("shadow_server" \notin failed /\ IsShadow(sh, c))
   IN [failed   |-> failed,
       findings |-> {d \in DOMAIN score : score[d] > 0},
       risk     |-> risk,
       allowed  |-> IF failed # {} THEN shadowMode ELSE ~threat]

InspectOutput(c, shadowMode) ==
   LET failed == Fails(Shadow0({}), c) \intersect {"exfiltration", "pii"}
       exfil  == IF "exfiltration" \in failed \/ ExfilReasons(c) = {} THEN 0
                 ELSE 70 + 5 * Cardinality(ExfilReasons(c))
       pii    == IF "pii" \in failed \/ c.pii = {} THEN 0 ELSE 50 + 10 * Cardinality(c.pii)
       risk   == Min({Max({exfil, pii}), 100})
   IN [failed   |-> failed,
       findings |-> {d \in {"exfiltration", "pii"} :
                        IF d = "pii" THEN pii > 0 ELSE exfil > 0},
       risk     |-> risk,
       allowed  |-> IF failed # {} THEN shadowMode ELSE risk < 50]
=============================================================================
