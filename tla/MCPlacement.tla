----------------------------- MODULE MCPlacement -----------------------------
(***************************************************************************)
(* The inputs of Failures and Placement for TLC: every class of failure,   *)
(* waves whose calls end in some order, waves on an endpoint,              *)
(* configurations of two roles, and schemas; and what is checked of        *)
(* Placement.                                                              *)
(***************************************************************************)
EXTENDS MCFailures, Placement

LOCAL Crew == 1..3
LOCAL RoleNames == {"orchestrator", "worker"}
LOCAL Answers == {[status |-> s, about |-> "any"] : s \in {0, 2, 200, 401, 404, 429, 503}}
                 \cup {[status |-> 400, about |-> a] : a \in {"model", "context"}}
LOCAL Ends == {"decided", "unparsed", "InferenceError", "ModelLoadError", "TransportError"} \cup HardStops

Machine == [host |-> "localhost", port |-> "80"]
Elsewhere == [host |-> "example.org", port |-> "80"]
Unreadable == [host |-> "127.0.0.1", port |-> "malformed"]
Id(space, name, digest) == [space |-> space, name |-> name, digest |-> digest]
Ids == {Id("x", <<"m">>, ""), Id("cloud", <<"m">>, "cloud"), Id("x", <<"m", "cloud">>, ""), Id("x", <<"m", "cloud", "latest">>, "")}
RolesOf(models) == [vendor : {"ollama", "openai", "anthropic"}, key : BOOLEAN, url : {NoUrl, Machine, Elsewhere, Unreadable}, model : models]
Limits == {[openai |-> [retries |-> 0]], [anthropic |-> [retries |-> 3], openai |-> [retries |-> 1]]}

Node(type, keys, props, items, ref) ==
  [type |-> type, keys |-> keys, required |-> {}, closed |-> FALSE, props |-> props, items |-> items, ref |-> ref]
Leaves == {Node("number", k, <<>>, <<>>, "none") : k \in {{"minimum", "title"}, {"enum"}}}
          \cup {Node("any", {"title"}, <<>>, <<>>, r) : r \in {"A", "B"}}
Over(inner) == {Node("array", {"maxLength"}, <<>>, <<n>>, "none") : n \in inner}
               \cup {Node("object", {"title"}, [p \in {"title", "x"} |-> IF p = "x" THEN n ELSE m], <<>>, "none") :
                       n \in inner, m \in Leaves}

FailureInputs(k) ==
  CASE k = "class" -> {<<c>> : c \in Classes}
    [] k = "wave" -> [roster : {Crew}, outcome : [Crew -> Ends], order : {o \in [Crew -> Crew] : Range(o) = Crew}, cut : 0..2]
    [] k = "endpoint" -> [agents : {2}, retries : {1}, answers : [1..2 -> [1..2 -> Answers]]]
    [] k = "place" -> [orchestrator : RolesOf(Ids), worker : RolesOf({Id("x", <<"m">>, "")}), optedIn : BOOLEAN, limits : Limits]
    [] k = "preflight" -> [retries : 0..3, vendor : {"openai", "anthropic"}, listed : BOOLEAN,
                          answers : [1..4 -> {a \in Answers : a.status \in {2, 200, 400, 401, 429} /\ a.about # "context"}]]
    [] k = "schema" -> [node : Over(Over(Leaves)), a : Leaves \cup Over(Leaves), b : Leaves]

FailureKinds == {"class", "wave", "endpoint", "place", "preflight", "schema"}

-----------------------------------------------------------------------------
\* What the advisory may send without the opt-in stays on this machine; the meter
\* is on every provider that leaves it and on none that does not; who shares the
\* controller's gate is limited like the worker (factory.py:149, factory.py:423).
PlacementHolds(cfg) ==
  LET Built(r) == Provider(cfg, r, TRUE)
      all == BuildProviders(cfg, TRUE)
  IN  /\ \A server \in {NoUrl, Machine, Elsewhere}, environment \in {NoUrl, Elsewhere} :
           LET reason == BlockReason(cfg, server, environment)
               stays == cfg.orchestrator.vendor = "ollama" /\ IsLocalOllama(cfg.orchestrator.model, server, environment)
           IN  /\ (reason = "none" /\ ~cfg.optedIn) => stays
               /\ (stays /\ cfg.orchestrator.url \in {NoUrl, Machine}) => reason = "none"
      /\ \A r \in RoleNames : Mode(cfg) = "local" => ~Built(r).metered
      /\ Mode(cfg) = "cloud" <=> \A r \in RoleNames : Built(r).metered
      /\ Controller(cfg) = "governor" <=> ~Built("worker").metered
      /\ Controller(cfg) = "governor" => Gated(cfg) = {}
      /\ \A r \in Gated(cfg) : Built(r).metered /\ Built(r).vendor = cfg.worker.vendor /\ Built(r).retries = Built("worker").retries
      /\ Controller(cfg) = "rate_limit" => "worker" \in Gated(cfg)
      /\ all.ok => all.opened = {Built(r) : r \in RoleNames}
      /\ BuildProviders(cfg, FALSE).ok => Mode(cfg) = "cloud"
      /\ {r \in RoleNames : Built(r).cleans} \subseteq {"worker"}

\* A preflight refuses only what stops a run as well, and never for an endpoint
\* that is slow, busy or lists the model (openai_provider.py:186).
PreflightRefusesForGood(p) ==
  LET role == [vendor |-> p.vendor, key |-> TRUE, url |-> Elsewhere, model |-> Id("x", <<"m">>, "")]
      local == [role EXCEPT !.vendor = "ollama"]
      verdict == Preflight(role, p.listed, p.answers, p.retries)
      cfg == [orchestrator |-> local, worker |-> role, limits |-> [openai |-> [retries |-> p.retries], anthropic |-> [retries |-> p.retries]]]
      run == PreflightRun(cfg, [r \in RoleNames |-> p.listed], [r \in RoleNames |-> p.answers])
  IN  /\ verdict \in {"auth", "config"} => verdict = CloudCall(p.answers, p.retries).result
      /\ run = verdict
      /\ (\A i \in 1..4 : p.answers[i].status \in {0, 1, 2, 200, 429, 503}) => verdict = "done"

RECURSIVE NodesOf(_)
LOCAL Inner(n) == {n.props[p] : p \in DOMAIN n.props} \cup Range(n.items)
NodesOf(n) == {n} \cup UNION {NodesOf(m) : m \in Inner(n)}

\* Every vendor is sent the schema that was meant: no reference is left but those
\* that turn in a circle, which are refused; a property called title is kept; the
\* strict form only closes objects and takes keywords away, at every depth
\* (schema.py:46, schema.py:215).
SchemaKeepsItsMeaning(s) ==
  LET defs == [d \in {"A", "B"} |-> IF d = "A" THEN s.a ELSE s.b]
      Refers(d) == {n.ref : n \in NodesOf(defs[d])} \ {"none"}
      circle == "A" \in Refers("A") \/ "B" \in Refers("B") \/ ("A" \in Refers("B") /\ "B" \in Refers("A"))
      used == {n.ref : n \in NodesOf(s.node)} \ {"none"}
      refused(p) == \E n \in NodesOf(p) : n.type = "error"
      portable == Portable(s.node, defs, {})
      strict == Strict(portable)
      sent == {Sent(v, portable, d) : v \in {"openai", "anthropic", "ollama"}, d \in BOOLEAN}
  IN  /\ refused(portable) => circle /\ used # {}
      /\ (circle /\ used = {"A", "B"}) => refused(portable)
      /\ ~refused(portable) =>
           /\ \A n \in NodesOf(portable) : n.ref = "none" /\ "title" \notin n.keys
           /\ \A n \in NodesOf(strict) : n.keys \cap Forbidden = {} /\ (n.type = "object" => n.closed /\ n.required = DOMAIN n.props)
           /\ Strict(strict) = strict
           /\ Cardinality(NodesOf(strict)) <= Cardinality(NodesOf(portable))
           /\ {n.type : n \in NodesOf(strict)} = {n.type : n \in NodesOf(portable)}
           /\ "x" \in DOMAIN s.node.props => DOMAIN strict.props = {"title", "x"}
           /\ \A m \in sent : "schema" \in DOMAIN m => m.schema \in {portable, strict}
=============================================================================
