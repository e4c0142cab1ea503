----------------------------- MODULE ConfigFile -----------------------------
(***************************************************************************)
(* The stored inference configuration: how an update is merged into it,    *)
(* how it is saved through a temporary file, and how the runtime caches    *)
(* it (web/routes/settings.py, inference/config.py, inference/factory.py,  *)
(* services/runtime.py).  A file is an inode, named by the task that made  *)
(* it; a key is known by the endpoint it was entered for.                  *)
(***************************************************************************)
EXTENDS Naturals

CONSTANTS
  Tasks,    \* who reads or saves the configuration; each saves at most once
  Old,      \* the inode of the file that is there at first
  NoFile,   \* no inode
  Nothing,  \* no key, no URL, no configuration
  Empty,    \* the content of a file that was just created or truncated
  Torn,     \* a content that is partial, or mixed from two writes
  Urls,     \* the base URLs roles are given
  Default,  \* the local configuration used when there is no file
  First     \* the configuration stored at first

Inodes == Tasks \cup {Old}
RoleNames == {"orchestrator", "worker"}

\* RoleConfig; the field key is the endpoint the key was entered for.
Providers == {"ollama", "openai", "anthropic"}
Roles == [provider : Providers, url : Urls \cup {Nothing}, key : Urls \cup Providers \cup {Nothing}]
Configs == [RoleNames -> Roles]

VARIABLES
  path,     \* the inode at the configured path, or NoFile
  tmp,      \* the inode at the path of the temporary file, or NoFile
  content,  \* what each inode holds
  writes,   \* how often each inode was written: its mtime and size
  handle,   \* the inode each saving task has open
  cached,   \* InferenceRuntime's [key, config]
  stat      \* the key each task that is reading through the cache took

fileVars == <<path, tmp, content, writes, handle>>
configVars == <<path, tmp, content, writes, handle, cached, stat>>

NoCache == [key |-> Nothing, config |-> Nothing]

ConfigInit ==
  /\ path \in {Old, NoFile}
  /\ tmp = NoFile
  /\ content = [i \in Inodes |-> IF i = Old THEN First ELSE Empty]
  /\ writes = [i \in Inodes |-> 0]
  /\ handle = [t \in Tasks |-> NoFile]
  /\ cached = NoCache
  /\ stat = [t \in Tasks |-> Nothing]

-----------------------------------------------------------------------------
(* A role is [provider, url, key]. *)

\* Where a role's calls go, its key included.
Endpoint(role) == IF role.provider = "openai" THEN role.url ELSE role.provider

\* Bug: a new URL of the same kind of provider keeps the key.
KeepKeyOfProvider(stored, update) ==
  LET merged == [f \in {"provider", "url"} |-> IF f \in DOMAIN update THEN update[f] ELSE stored[f]]
  IN  [provider |-> merged.provider, url |-> merged.url,
       key |-> IF "key" \in DOMAIN update THEN Endpoint(merged)
               ELSE IF merged.provider # stored.provider THEN Nothing ELSE stored.key]

\* _merge_role: update holds the fields of the request, a blank key left out.
\* A URL that is given as null is no change of vendor.
MergeRole(stored, update) ==
  LET merged == [f \in {"provider", "url"} |-> IF f \in DOMAIN update THEN update[f] ELSE stored[f]]
      urlChanged == "url" \in DOMAIN update /\ update.url \notin {Nothing, stored.url}
  IN  [provider |-> merged.provider, url |-> merged.url,
       key |-> IF "key" \in DOMAIN update THEN Endpoint(merged)
               ELSE IF merged.provider # stored.provider \/ urlChanged THEN Nothing ELSE stored.key]

Merge(stored, update) ==
  [r \in RoleNames |-> IF r \in DOMAIN update THEN MergeRole(stored[r], update[r]) ELSE stored[r]]

\* _validate_cloud_role: what a provider can be built from.
Buildable(role) ==
  \/ role.provider = "ollama"
  \/ role.key # Nothing /\ (role.provider = "openai" => role.url # Nothing)

\* A key that would be used belongs to where it would be used.
KeyFits(role) == role.provider # "ollama" /\ Buildable(role) => role.key = Endpoint(role)

\* What is stored at first was saved by this program or entered for its endpoint.
ASSUME ConfigAssumption ==
  /\ {Default, First} \subseteq Configs /\ Configs \cap {Nothing, Empty, Torn} = {}
  /\ \A c \in {Default, First}, r \in RoleNames : KeyFits(c[r])
  /\ Old \notin Tasks /\ NoFile \notin Inodes /\ Nothing \notin Tasks
  /\ Nothing \notin Inodes \X Nat /\ Nothing # <<NoFile, 0>>

\* load_inference_config: Torn for every file that is no configuration.
Load ==
  CASE path = NoFile -> Default
    [] path # NoFile /\ content[path] = Empty -> Torn
    [] OTHER -> content[path]

-----------------------------------------------------------------------------
(* save_inference_config, in the steps of its thread. *)

\* os.open with O_CREAT | O_TRUNC: an existing temporary file is emptied.
OpenTemporary(t) ==
  LET i == IF tmp = NoFile THEN t ELSE tmp IN
  /\ tmp' = i
  /\ handle' = [handle EXCEPT ![t] = i]
  /\ content' = [content EXCEPT ![i] = Empty]
  /\ writes' = [writes EXCEPT ![i] = @ + 1]
  /\ UNCHANGED path

\* The buffer is written at once, from the start of the inode: over what
\* another task wrote there it leaves the longer one's tail.  A full disk
\* leaves a part.
WriteTemporary(t, config, fails) ==
  LET i == handle[t] IN
  /\ content' \in {[content EXCEPT ![i] = c] :
                     c \in CASE fails -> {Torn}
                            [] ~fails /\ content[i] = Empty -> {config}
                            [] OTHER -> {config, Torn}}
  /\ writes' = [writes EXCEPT ![i] = @ + 1]
  /\ UNCHANGED <<path, tmp, handle>>

\* os.replace moves whatever the temporary path names by now.
CanReplace == tmp # NoFile
Replace == path' = tmp /\ tmp' = NoFile /\ UNCHANGED <<content, writes, handle>>

\* The finally: the temporary file is removed, whoever made it.
RemoveTemporary(t) ==
  /\ tmp' = NoFile
  /\ handle' = [handle EXCEPT ![t] = NoFile]
  /\ UNCHANGED <<path, content, writes>>

-----------------------------------------------------------------------------
(* InferenceRuntime.config, under its lock. *)

\* _file_key: the modification time and the size.
FileKey == IF path = NoFile THEN <<NoFile, 0>> ELSE <<path, writes[path]>>

Reading(t) == stat[t] # Nothing

TakeKey(t) ==
  /\ \A u \in Tasks : ~Reading(u)
  /\ stat' = [stat EXCEPT ![t] = FileKey]
  /\ UNCHANGED <<cached, fileVars>>

\* Bug: the file is read once and for all.
NeverRead(t) == cached.config = Nothing

Stale(t) == cached.config = Nothing \/ cached.key # stat[t]

\* What the call returns: Torn stands for InferenceConfigError.
Answer(t) == IF Stale(t) THEN Load ELSE cached.config

KeepAnswer(t) ==
  /\ Reading(t)
  /\ cached' = IF Stale(t) /\ Load # Torn THEN [key |-> stat[t], config |-> Load] ELSE cached
  /\ stat' = [stat EXCEPT ![t] = Nothing]
  /\ UNCHANGED fileVars
=============================================================================
