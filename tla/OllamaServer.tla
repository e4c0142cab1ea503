---------------------------- MODULE OllamaServer ----------------------------
(***************************************************************************)
(* The local model server and the manager that loads and unloads models    *)
(* (ollama_models.py, inference/ollama_provider.py, ollama_client.py).     *)
(* Any chat loads its model on the server; an unload is acknowledged       *)
(* before the memory is free, and ps lists what is still there.            *)
(***************************************************************************)
EXTENDS FiniteSets

CONSTANT Models  \* the configured aliases

VARIABLES
  resident,  \* the models ps lists
  leaving    \* those of them the server has promised to unload

serverVars == <<resident, leaving>>

ServerInit == resident \in SUBSET Models /\ leaving = {}

\* A request that the server answers; it also cancels a promised unload.
Chat(m) == resident' = resident \cup {m} /\ leaving' = leaving \ {m}

\* keep_alive=0, acknowledged.
AskUnload(m) == leaving' = leaving \cup ({m} \cap resident) /\ UNCHANGED resident

\* The server frees the memory, as promised or after five idle minutes.
Free(m) ==
  /\ m \in resident
  /\ resident' = resident \ {m}
  /\ leaving' = leaving \ {m}

\* Bug: only the model that is about to be loaded is unloaded.
ToCleanOwn(m) == resident \cap {m}

\* ensure_clean_state: the configured models ps lists, one after the other.
ToClean(m) == resident
=============================================================================
