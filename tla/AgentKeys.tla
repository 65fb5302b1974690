----------------------------- MODULE AgentKeys -----------------------------
(***************************************************************************)
(* The provider key a chat message runs with.  The dashboard writes the    *)
(* row of a provider and then tells the agent service to forget it; the    *)
(* service keeps a configuration cache with a time to live and, for every  *)
(* session, an agent that holds its key in a closure.  A handler awaits    *)
(* two queries between looking into the caches and filling them.           *)
(*                                                                         *)
(* One workspace and one provider: the key of another provider, or of      *)
(* another workspace, that fetchProviderKey would find in the cache, and   *)
(* the default AWS credentials that stand in a row for no key, are left    *)
(* out.  A key is the number of the write that stored it.                  *)
(***************************************************************************)
EXTENDS Naturals

CONSTANTS
  Session,
  Msg,         (* messages that may be handled at once                     *)
  Write,       (* requests that write the provider at once                 *)
  Upserts,     (* whether POST may write an existing provider              *)
  EnvKey,      (* the environment has a key for system models              *)
  MaxKeys,     (* bound: writes of the provider                            *)
  MaxFaults    (* bound: calls to the agent service that fail              *)

AgentKeysAssumption ==
  /\ Upserts \in BOOLEAN /\ EnvKey \in BOOLEAN
  /\ MaxKeys \in Nat \ {0} /\ MaxFaults \in Nat /\ Session # {}

VARIABLES
  row,       (* the provider row: key, and whether it is there and enabled *)
  cache,     (* configCache: key, 0 for none; expiresAt is still ahead     *)
  agent,     (* sessionAgents, sessionModels: model and key of the closure *)
  msg,       (* message handlers                                           *)
  write,     (* requests to the provider routes                            *)
  faults,    (* calls that failed so far                                   *)
  acked,     (* history: latest write whose request invalidated and ended  *)
  missed     (* history: a write no invalidation could cover               *)

vars == <<row, cache, agent, msg, write, faults, acked, missed>>

Key     == 0 .. MaxKeys      \* 0: none, and the environment's
Model   == {"byok", "system"}
NoCache == [key |-> 0, fresh |-> FALSE]
NoAgent == [model |-> "none", key |-> 0, held |-> FALSE]
NoMsg   == [st |-> "idle", session |-> CHOOSE s \in Session : TRUE, model |-> "system",
            key |-> 0, acked |-> 0]

Init ==
  /\ row = [key |-> 1, on |-> TRUE]
  /\ cache = NoCache
  /\ agent = [s \in Session |-> NoAgent]
  /\ msg = [m \in Msg |-> NoMsg]
  /\ write = [w \in Write |-> [st |-> "idle", key |-> 0]]
  /\ faults = 0 /\ acked = 1 /\ missed = FALSE

Db == UNCHANGED <<row, write, faults, acked, missed>>

-----------------------------------------------------------------------------
(* POST messages: getOrCreateAgent.                                        *)

(* Up to the first await.  An agent of another model is dropped; what      *)
(* sessionModels says of the session stays until a new agent is stored.    *)
Arrive(m) ==
  /\ msg[m].st = "idle"
  /\ \E s \in Session, model \in Model :
       LET cached == agent[s].held /\ agent[s].model = model
           hit    == model = "byok" /\ cache.key # 0 /\ cache.fresh
       IN
       /\ msg' = [msg EXCEPT ![m] =
            [st |-> IF cached THEN "run"
                    ELSE IF model = "system" \/ hit THEN "context" ELSE "read",
             session |-> s, model |-> model, acked |-> acked,
             key |-> IF cached THEN agent[s].key ELSE IF hit THEN cache.key ELSE 0]]
       /\ agent' = IF cached THEN agent ELSE [agent EXCEPT ![s].held = FALSE]
  /\ UNCHANGED cache /\ Db

(* The database answers; the answer waits for its turn of the event loop.  *)
(* A disabled provider ends a BYOK message, and leaves a system model      *)
(* without a key.                                                          *)
ReadRow(m) ==
  /\ msg[m].st \in {"read", "find"}
  /\ msg' = [msg EXCEPT ![m].key = IF row.on THEN row.key ELSE 0,
               ![m].st = IF msg[m].st = "read" THEN IF row.on THEN "store" ELSE "failed"
                         ELSE IF row.on THEN "keep" ELSE "ran"]
  /\ UNCHANGED <<cache, agent>> /\ Db

StoreConfig(m) ==
  /\ msg[m].st \in {"store", "keep"}
  /\ cache' = [key |-> msg[m].key, fresh |-> TRUE]
  /\ msg' = [msg EXCEPT ![m].st = IF @ = "store" THEN "context" ELSE "ran"]
  /\ UNCHANGED agent /\ Db

(* The history of the session is loaded, then the agent is stored.         *)
StoreAgent(m) ==
  /\ msg[m].st = "context"
  /\ agent' = [agent EXCEPT ![msg[m].session] =
                 [model |-> msg[m].model, key |-> msg[m].key, held |-> TRUE]]
  /\ msg' = [msg EXCEPT ![m].st = "run"]
  /\ UNCHANGED cache /\ Db

(* getApiKey.  A system model takes the key of the environment; if there   *)
(* is none, fetchProviderKey looks for a provider of the same kind, in the *)
(* cache and then in the database.                                         *)
Run(m) ==
  /\ msg[m].st = "run"
  /\ \/ /\ msg[m].model = "byok" \/ EnvKey
        /\ msg' = [msg EXCEPT ![m].st = "ran"]
     \/ /\ msg[m].model = "system" /\ ~EnvKey
        /\ msg' = [msg EXCEPT ![m].st = IF cache.fresh THEN "ran" ELSE "find",
                             ![m].key = IF cache.fresh THEN cache.key ELSE 0]
  /\ UNCHANGED <<cache, agent>> /\ Db

Finish(m) ==
  /\ msg[m].st \in {"ran", "failed"}
  /\ msg' = [msg EXCEPT ![m] = NoMsg]
  /\ UNCHANGED <<cache, agent>> /\ Db

Expire ==
  /\ cache.fresh /\ cache' = [cache EXCEPT !.fresh = FALSE]
  /\ UNCHANGED <<agent, msg>> /\ Db

-----------------------------------------------------------------------------
(* The provider routes.                                                    *)

(* POST creates the provider, or writes over it, and tells nobody.         *)
Post ==
  /\ Upserts /\ row.key < MaxKeys
  /\ row' = [key |-> row.key + 1, on |-> TRUE]
  /\ missed' = TRUE
  /\ UNCHANGED <<cache, agent, msg, write, faults, acked>>

(* PATCH stores another key or switches it on or off; DELETE removes it.   *)
WriteRow(w) ==
  /\ write[w].st = "idle" /\ row.key < MaxKeys
  /\ \E on \in BOOLEAN : row' = [key |-> row.key + 1, on |-> on]
  /\ write' = [write EXCEPT ![w] = [st |-> "written", key |-> row.key + 1]]
  /\ UNCHANGED <<cache, agent, msg, faults, acked, missed>>

(* A handler between its look into the caches and what it stores brings    *)
(* back what an invalidation removes.                                      *)
Filling(m) == \/ msg[m].st \in {"read", "store", "find", "keep"}
              \/ msg[m].model = "byok" /\ msg[m].st = "context"

InvalidateCacheOnly(w) ==  \* mutant: sessions keep their agents
  /\ write[w].st = "written"
  /\ cache' = NoCache /\ UNCHANGED agent
  /\ acked' = IF write[w].key > acked THEN write[w].key ELSE acked
  /\ missed' = (missed \/ \E m \in Msg : Filling(m))
  /\ write' = [write EXCEPT ![w].st = "idle"]
  /\ UNCHANGED <<row, msg, faults>>

Invalidate(w) ==
  /\ write[w].st = "written"
  /\ cache' = NoCache
  /\ agent' = [s \in Session |-> IF agent[s].model = "byok" THEN NoAgent ELSE agent[s]]
  /\ acked' = IF write[w].key > acked THEN write[w].key ELSE acked
  /\ missed' = (missed \/ \E m \in Msg : Filling(m))
  /\ write' = [write EXCEPT ![w].st = "idle"]
  /\ UNCHANGED <<row, msg, faults>>

(* The agent service cannot be reached; the route answers all the same.    *)
InvalidateFails(w) ==
  /\ write[w].st = "written" /\ faults < MaxFaults
  /\ faults' = faults + 1
  /\ write' = [write EXCEPT ![w].st = "idle"]
  /\ missed' = TRUE
  /\ UNCHANGED <<row, cache, agent, msg, acked>>

-----------------------------------------------------------------------------
Handle(m) == Arrive(m) \/ ReadRow(m) \/ StoreConfig(m) \/ StoreAgent(m) \/ Run(m) \/ Finish(m)

Next ==
  \/ \E m \in Msg : Handle(m)
  \/ Expire \/ Post
  \/ \E w \in Write : WriteRow(w) \/ Invalidate(w) \/ InvalidateFails(w)

Spec == Init /\ [][Next]_vars

-----------------------------------------------------------------------------
(* Properties.                                                             *)

TypeOK ==
  /\ row \in [key : Key, on : BOOLEAN]
  /\ cache \in [key : Key, fresh : BOOLEAN]
  /\ agent \in [Session -> [model : Model \cup {"none"}, key : Key, held : BOOLEAN]]
  /\ msg \in [Msg -> [st : {"idle", "read", "store", "context", "run", "find", "keep",
                             "ran", "failed"},
                      session : Session, model : Model, key : Key, acked : Key]]
  /\ write \in [Write -> [st : {"idle", "written"}, key : Key]]
  /\ faults \in 0 .. MaxFaults /\ acked \in Key /\ missed \in BOOLEAN

(* The message runs with the provider key it started out with or a later.  *)
RunsCurrent(m) == msg[m].st = "ran" /\ msg[m].model = "byok" => msg[m].key >= msg[m].acked

(* A message that arrives after the answer of PATCH or DELETE does not run *)
(* with a key from before it, unless a handler was filling the caches at   *)
(* the time, a call failed, or the row was written by the POST route.      *)
OldKeyNeedsMiss == ~missed => \A m \in Msg : RunsCurrent(m)
=============================================================================
