-------------------------- MODULE MCWebOperations --------------------------
(* The configurations and updates of a small instance. *)
EXTENDS WebOperationsHistory, TLC

\* It begins with a stored configuration.
MCInit == HInit /\ path = Old

MCSpec == MCInit /\ [][HNext]_hvars

MCTasks == Requests \cup {Run}

Role(p, u, k) == [provider |-> p, url |-> u, key |-> k]
Both(r) == [n \in RoleNames |-> r]
MCDefault == Both(Role("ollama", Nothing, Nothing))
MCFirst == [n \in RoleNames |-> IF n = "worker" THEN Role("openai", "u1", "u1") ELSE Role("ollama", Nothing, Nothing)]

\* Without a URL, to another URL, to Ollama.
Bodies == {[url |-> Nothing], [url |-> "u2"], [provider |-> "ollama"]}
MCUpdates == {[worker |-> b] : b \in Bodies} \cup {[orchestrator |-> [provider |-> "anthropic", key |-> TRUE]]}

Symmetry == Permutations(Requests)
=============================================================================
