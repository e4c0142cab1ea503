------------------------------ MODULE Placement ------------------------------
(***************************************************************************)
(* Where a role's calls are made and under which limits: the providers,    *)
(* the meter, the controller and the retry gate that a configuration       *)
(* stands for (inference/factory.py), the preflight of a cloud role, and   *)
(* the schema each vendor is sent (inference/schema.py).                   *)
(*                                                                         *)
(* A role is [vendor, key, url, model]; url is a [host, port] or NoUrl.  A *)
(* model is [space, name, digest], its name cut at dashes and colons.      *)
(***************************************************************************)
EXTENDS Exchanges, FiniteSets

CONSTANT NoUrl  \* no base URL is set

-----------------------------------------------------------------------------
(* Does it stay on this machine? *)

\* is_cloud_ollama_model.
CloudModel(model) == "cloud" \in Range(model.name)

\* is_loopback_url; an empty host is 127.0.0.1.
LoopbackHosts == {"", "localhost", "localhost.", "127.0.0.1", "127.8.8.8", "::1", "::ffff:127.0.0.1"}
Loopback(url) == url.port # "malformed" /\ url.host \in LoopbackHosts

\* effective_ollama_host: what the client was given, or OLLAMA_HOST.
Local == [host |-> "127.0.0.1", port |-> "11434"]
OllamaHost(url, environment) == IF url # NoUrl THEN url ELSE IF environment # NoUrl THEN environment ELSE Local

\* is_local_ollama.
IsLocalOllama(model, url, environment) == ~CloudModel(model) /\ Loopback(OllamaHost(url, environment))

\* inference_mode.
Mode(cfg) ==
  LET local == {r \in {"orchestrator", "worker"} : cfg[r].vendor = "ollama"} IN
  CASE local = {} -> "cloud"
    [] local = {"orchestrator", "worker"} -> "local"
    [] OTHER -> "mixed"

\* advisory_block_reason: the client that all Ollama roles share has an address
\* of its own.
BlockReason(cfg, server, environment) ==
  LET o == cfg.orchestrator IN
  IF cfg.optedIn THEN "none"
  ELSE IF o.vendor # "ollama" THEN "cloud_provider"
  ELSE IF o.url # NoUrl /\ ~Loopback(o.url) THEN "role_base_url_remote"
  ELSE IF CloudModel(o.model) THEN "cloud_model"
  ELSE IF Loopback(OllamaHost(server, environment)) THEN "none" ELSE "remote_host"

-----------------------------------------------------------------------------
(* The providers of a configuration. *)

DefaultRetries == 3

\* _validate_cloud_role, and what a local role needs.
CanBuild(role, hasClient) ==
  IF role.vendor = "ollama" THEN hasClient ELSE role.key /\ (role.vendor = "openai" => role.url # NoUrl)

\* _build_single_provider: a cloud provider is wrapped in one that keeps the
\* meter; only the worker's model is loaded into a clean server.
Provider(cfg, name, hasClient) ==
  LET role == cfg[name] IN
  [built   |-> CanBuild(role, hasClient),
   vendor  |-> role.vendor,
   metered |-> role.vendor # "ollama",
   cleans  |-> role.vendor = "ollama" /\ name = "worker",
   retries |-> IF role.vendor = "ollama" THEN 0
               ELSE IF role.vendor \in DOMAIN cfg.limits THEN cfg.limits[role.vendor].retries ELSE DefaultRetries]

\* build_providers: the orchestrator first; the second is not tried if the
\* first cannot be built.
BuildProviders(cfg, hasClient) ==
  LET o == Provider(cfg, "orchestrator", hasClient)
      w == Provider(cfg, "worker", hasClient)
  IN  [ok |-> o.built /\ w.built, opened |-> IF o.built THEN {o} \cup (IF w.built THEN {w} ELSE {}) ELSE {}]

\* build_controller: the worker's vendor decides.
Controller(cfg) == IF cfg.worker.vendor = "ollama" THEN "governor" ELSE "rate_limit"

\* attach_retry_gate: the roles that hold the controller's gate.
Gated(cfg) ==
  {r \in {"orchestrator", "worker"} : cfg[r].vendor # "ollama" /\ cfg[r].vendor = cfg.worker.vendor}

\* OpenAICompatProvider.prepare and AnthropicProvider.prepare, with what the
\* listing says and the answers to the one-token request.
PreflightRetries == 2
Preflight(role, listed, answers, retries) ==
  IF role.vendor = "openai" /\ listed THEN "done"
  ELSE LET v == CloudCall(answers, Min({retries, PreflightRetries})).result IN
       IF v \in {"auth", "config"} THEN v ELSE "done"

\* preflight_cloud_roles: the first that is refused ends the run, before seeding.
PreflightRun(cfg, listed, answers) ==
  LET verdict == [r \in {"orchestrator", "worker"} |->
                    IF cfg[r].vendor = "ollama" THEN "done"
                    ELSE Preflight(cfg[r], listed[r], answers[r], Provider(cfg, r, TRUE).retries)]
  IN  IF verdict["orchestrator"] # "done" THEN verdict["orchestrator"] ELSE verdict["worker"]

-----------------------------------------------------------------------------
(* The schema of an answer.  A node is [type, keys, required, closed, props,*)
(* items, ref]: items holds the node of an array, if any; ref names one of *)
(* the definitions, or is "none".                                          *)

\* _OPENAI_STRICT_FORBIDDEN_KEYS and a cosmetic one.
Forbidden == {"minimum", "maxLength"}
Cosmetic == {"title"}

RECURSIVE Portable(_, _, _)
\* to_portable_schema: references are replaced by what they name; a reference
\* to a node one is in is an error, written as the type "error".
Portable(node, defs, seen) ==
  IF node.ref # "none"
  THEN IF node.ref \in seen THEN [node EXCEPT !.type = "error"]
       ELSE LET def == defs[node.ref] IN
            Portable([def EXCEPT !.keys = @ \cup node.keys], defs, seen \cup {node.ref})
  ELSE [node EXCEPT !.keys = @ \ Cosmetic,
                    !.props = [p \in DOMAIN @ |-> Portable(@[p], defs, seen)],
                    !.items = [i \in DOMAIN @ |-> Portable(@[i], defs, seen)]]

RECURSIVE Strict(_)
\* _normalise_object.
Strict(node) ==
  LET stripped == [node EXCEPT !.keys = @ \ Forbidden] IN
  CASE node.type = "object" ->
         [stripped EXCEPT !.closed = TRUE, !.required = DOMAIN node.props,
                          !.props = [p \in DOMAIN @ |-> Strict(@[p])]]
    [] node.type = "array" -> [stripped EXCEPT !.items = [i \in DOMAIN @ |-> Strict(@[i])]]
    [] OTHER -> stripped

\* What each vendor is sent of a request with a schema; the OpenAI one again
\* after a downgrade (to_openai_response_format, to_openai_json_object,
\* to_anthropic_tool).
Sent(vendor, node, downgraded) ==
  CASE vendor = "openai" -> IF downgraded THEN [format |-> "json_object"]
                            ELSE [format |-> "json_schema", schema |-> Strict(node)]
    [] vendor = "anthropic" -> [format |-> "tool", schema |-> node]
    [] OTHER -> [format |-> "schema", schema |-> node]

\* extract_anthropic_tool_json: a block is [type, name, input].
ToolInput(blocks) ==
  LET ours == SelectSeq(blocks, LAMBDA b : b.type = "tool_use" /\ b.name = "emit_decision") IN
  IF ours = <<>> THEN "missing" ELSE Head(ours).input
=============================================================================
