------------------------------- MODULE Session -------------------------------
(***************************************************************************)
(* The desktop session: the commands of the shell that set the password,   *)
(* lock and unlock the vault, change the configuration and switch servers, *)
(* over AppState (the key in memory, the configuration in memory and on    *)
(* disk) and Services (the installed service set with its servers).        *)
(*                                                                         *)
(* A section under the mutex of Services touches nothing else that is      *)
(* shared, so it is one step, but for one that stops the local API: it     *)
(* keeps the mutex until the request being served there is answered.       *)
(* A command whose guard fails at once (wrong password, already            *)
(* initialised, locked) changes nothing and is left out.                   *)
(***************************************************************************)
EXTENDS Naturals, FiniteSets

CONSTANTS
    Callers,
    Keys,            \* master keys; every setup draws a fresh salt and so a new one
    Models,          \* LLM selections: provider, model, URL, headers
    Keyed,           \* those whose provider has a slot for an API key
    DefaultModel,    \* the selection of AppConfig::default, a local CLI
    Earlier,         \* configurations that an earlier session may have left
    Torn, None,
    MaxCalls, MaxMishaps    \* bounds on commands, and on faults and crashes together

ASSUME SessionAssumption ==
    /\ IsFiniteSet(Callers)
    /\ Keyed \subseteq Models /\ DefaultModel \in Models \ Keyed
    /\ Earlier \subseteq [policy : BOOLEAN, server : BOOLEAN, sharing : BOOLEAN, model : Models]
    /\ {Torn, None} \cap Keys = {} /\ Torn # None
    /\ MaxCalls \in Nat /\ MaxMishaps \in Nat

VARIABLES
    keystore,   \* keystore.json: the key its salt leads to, None, or Torn
    saved,      \* the configuration document, and the key it is encrypted under
    secret,     \* the stored API key: the key it is encrypted under, None, or Torn
    current,    \* the key in memory, None while locked
    config,     \* the configuration in memory
    env,        \* the LLM selection in the process environment
    installed,  \* Services: the live service set, or None
    task,       \* per caller, the command in progress
    settled,    \* observer: no damage of overlapping or failed commands is left
    calls, faults, crashes

disk   == <<keystore, saved, secret>>
memory == <<current, config, env>>
bounds == <<calls, faults, crashes>>
vars   == <<disk, memory, installed, task, settled, bounds>>

Doc    == Keys \cup {None, Torn}
Config == [policy : BOOLEAN, server : BOOLEAN, sharing : BOOLEAN, model : Models]
Default == [policy |-> FALSE, server |-> FALSE, sharing |-> FALSE, model |-> DefaultModel]

\* The servers of a set that run, its tunnel, what its LLM client was built from, and
\* whether its local API is serving a request.
ServiceSet == [up : SUBSET {"api", "owner", "shared"}, tunnel : BOOLEAN, model : Models,
               busy : BOOLEAN]
Down == [up |-> {}, tunnel |-> FALSE, model |-> DefaultModel, busy |-> FALSE]

Task ==
    [step  : {"idle", "keystore", "remember", "restore", "secret", "snapshot", "put",
              "commit", "apply", "servers", "teardown", "client", "api", "sharing",
              "install", "stopping", "forget", "spawn", "tunnel"},
     after : {"forget", "client", "idle"},    \* what follows once the servers have stopped
     cmd   : {"none", "setup", "unlock", "lock", "tunnel"} \cup DOMAIN Default,
     arg   : Keys \cup BOOLEAN \cup Models \cup {None},   \* key, switch or selection
     next  : Config,          \* the configuration about to be saved
     set   : ServiceSet,      \* the service set under construction, or being stopped
     clean : BOOLEAN]         \* observer: ran alone so far, and read what it had to

Idle == [step |-> "idle", cmd |-> "none", arg |-> None, next |-> Default, set |-> Down,
         after |-> "idle", clean |-> TRUE]

\* A fresh installation, or one that was used before.
Init ==
    /\ \E k \in Keys \cup {None} : \E c \in IF k = None THEN {Default} ELSE Earlier :
          /\ keystore = k
          /\ saved = [key |-> k, val |-> c]
    /\ secret = None
    /\ current = None /\ config = Default /\ env = DefaultModel
    /\ installed = None
    /\ task = [p \in Callers |-> Idle]
    /\ settled = TRUE
    /\ calls = 0 /\ faults = 0 /\ crashes = 0
-----------------------------------------------------------------------------
At(p, step) == task[p].step = step

Become(p, t) == task' = [task EXCEPT ![p] = t]
GoTo(p, step) == Become(p, [task[p] EXCEPT !.step = step])
Finish(p) == Become(p, Idle)

\* The mutex of Services is held over an await only while a server is being stopped.
Held == \E q \in Callers : At(q, "stopping")

\* LocalApiHandle::stop: what serves a request is awaited, then `after` follows.
Stopped(t, set, after) ==
    IF set # None /\ set.busy
    THEN [t EXCEPT !.step = "stopping", !.set = [Down EXCEPT !.busy = TRUE], !.after = after]
    ELSE IF after = "idle" THEN Idle ELSE [t EXCEPT !.step = after, !.set = Down]

OthersIdle(p) == \A q \in Callers \ {p} : At(q, "idle")

\* A command begins; if another one is running, both cease to run alone.
Begin(p, t) ==
    /\ At(p, "idle")
    /\ calls < MaxCalls
    /\ calls' = calls + 1
    /\ task' = [q \in Callers |-> IF q = p THEN [t EXCEPT !.clean = OthersIdle(p)]
                                  ELSE [task[q] EXCEPT !.clean = At(q, "idle")]]
    /\ settled' = (settled /\ OthersIdle(p))
    /\ UNCHANGED <<faults, crashes>>
-----------------------------------------------------------------------------
\* setup_password: refused once a keystore exists; otherwise a key is derived.
BeginSetup(p) ==
    /\ keystore = None
    /\ \E k \in Keys : Begin(p, [Idle EXCEPT !.step = "keystore", !.cmd = "setup", !.arg = k])
    /\ UNCHANGED <<disk, memory, installed>>

WriteKeystore(p) ==
    /\ At(p, "keystore")
    /\ keystore' = task[p].arg
    /\ GoTo(p, "remember")
    /\ UNCHANGED <<saved, secret, memory, installed, settled, bounds>>

\* unlock reads the keystore, derives the key (slowly) and then keeps it.
BeginUnlock(p) ==
    /\ keystore \in Keys
    /\ Begin(p, [Idle EXCEPT !.step = "remember", !.cmd = "unlock", !.arg = keystore])
    /\ UNCHANGED <<disk, memory, installed>>

\* The end of setup and of unlock in the key manager: the key is in memory.
Remember(p) ==
    /\ At(p, "remember")
    /\ current' = task[p].arg
    /\ GoTo(p, IF task[p].cmd = "setup" THEN "put" ELSE "restore")
    /\ UNCHANGED <<disk, config, env, installed, settled, bounds>>

\* apply_to_env: the environment names the selected model. Clients are built from it.
ApplyToEnv(c) == env' = c.model

\* restore_config: a document that cannot be read leaves the configuration as it
\* is; without a document that is the default.
Restored(p, readable) ==
    LET fine == readable /\ current # None /\ saved.key \in {None, current}
    IN  /\ At(p, "restore")
        /\ config' = IF fine /\ saved.key # None THEN saved.val ELSE config
        /\ ApplyToEnv(config')
        /\ settled' = (settled /\ fine)
        /\ Become(p, [task[p] EXCEPT !.step = "apply", !.clean = @ /\ fine])

Restore(p) == Restored(p, TRUE) /\ UNCHANGED <<disk, current, installed, bounds>>
-----------------------------------------------------------------------------
\* set_transfer_policy, set_server_enabled, set_sharing_enabled: the configuration
\* is copied at once, changed in one field and saved.
BeginSet(p) ==
    \E f \in {"policy", "server", "sharing"}, on \in BOOLEAN :
        /\ Begin(p, [Idle EXCEPT !.step = "put", !.cmd = f, !.arg = on,
                                 !.next = [config EXCEPT ![f] = on]])
        /\ UNCHANGED <<disk, memory, installed>>

\* set_llm_config: the API key first, if one was entered, then the configuration.
BeginSelect(p) ==
    \E m \in Models, first \in {"secret", "snapshot"} :
        /\ first = "secret" => m \in Keyed
        /\ Begin(p, [Idle EXCEPT !.step = first, !.cmd = "model", !.arg = m])
        /\ UNCHANGED <<disk, memory, installed>>

\* A blank API key deletes the stored one, which works on a locked vault as well.
PutSecret(p) ==
    /\ At(p, "secret")
    /\ \/ current # None /\ secret' = current /\ GoTo(p, "snapshot")
       \/ secret' = None /\ GoTo(p, "snapshot")
       \/ current = None /\ UNCHANGED secret /\ Finish(p)
    /\ UNCHANGED <<keystore, saved, memory, installed, settled, bounds>>

\* Mutant: the new configuration is made from the default one.
SnapshotOfDefault(p) ==
    /\ At(p, "snapshot")
    /\ Become(p, [task[p] EXCEPT !.step = "put", !.next = [Default EXCEPT !.model = task[p].arg]])
    /\ UNCHANGED <<disk, memory, installed, settled, bounds>>

Snapshot(p) ==
    /\ At(p, "snapshot")
    /\ Become(p, [task[p] EXCEPT !.step = "put", !.next = [config EXCEPT !.model = task[p].arg]])
    /\ UNCHANGED <<disk, memory, installed, settled, bounds>>

\* save_config, first half: the document is written, unless the vault is locked.
PutConfig(p) ==
    /\ At(p, "put")
    /\ \/ current # None /\ saved' = [key |-> current, val |-> task[p].next] /\ GoTo(p, "commit")
       \/ current = None /\ UNCHANGED saved /\ Finish(p)
    /\ UNCHANGED <<keystore, secret, memory, installed, settled, bounds>>

\* Mutant: a new selection is saved and nothing is rebuilt.
AfterSaveNoRebuild(cmd) ==
    CASE cmd \in {"policy", "model"} -> "idle"
      [] cmd \in {"server", "sharing"} -> "servers"
      [] OTHER -> "apply"

AfterSave(cmd) ==
    CASE cmd = "policy" -> "idle"
      [] cmd \in {"server", "sharing"} -> "servers"
      [] OTHER -> "apply"

\* Second half: the environment and the memory follow.
Commit(p) ==
    LET t == task[p]
    IN  /\ At(p, "commit")
        /\ ApplyToEnv(t.next)
        /\ config' = t.next
        /\ IF AfterSave(t.cmd) = "idle" THEN Finish(p)
           ELSE Become(p, [t EXCEPT !.step = AfterSave(t.cmd), !.next = Default])
        /\ UNCHANGED <<disk, current, installed, settled, bounds>>

Selection(p) == IF task[p].cmd = "model" THEN task[p].arg ELSE config.model

\* apply_api_key_to_env: a stored API key must be readable, or the command ends
\* here, with the vault unlocked and before any service is rebuilt.
ApplyKey(p, readable) ==
    /\ At(p, "apply")
    /\ \/ /\ Selection(p) \notin Keyed \/ (readable /\ current # None /\ secret \in {None, current})
          /\ GoTo(p, "teardown")
          /\ UNCHANGED settled
       \/ /\ Selection(p) \in Keyed
          /\ ~readable \/ current = None \/ secret \notin {None, current}
          /\ Finish(p)
          /\ settled' = (settled /\ task[p].cmd # "model")

Apply(p) == ApplyKey(p, TRUE) /\ UNCHANGED <<disk, memory, installed, bounds>>
-----------------------------------------------------------------------------
\* activate: the old set is taken down, its servers stopped.
Teardown(p) ==
    /\ At(p, "teardown") /\ ~Held
    /\ installed' = None
    /\ Become(p, Stopped(task[p], installed, "client"))
    /\ UNCHANGED <<disk, memory, settled, bounds>>

\* build: the LLM client is built from the environment; what follows up to the
\* servers (the index, the stored scope) may fail without consequence.
BuildClient(p) ==
    /\ At(p, "client")
    /\ Become(p, [task[p] EXCEPT !.step = "api", !.set.model = env])
    /\ UNCHANGED <<disk, memory, installed, settled, bounds>>

\* bind_loopback: a server that finds no free port is left out.
Bound(servers) == SUBSET servers

StartApi(p) ==
    /\ At(p, "api")
    /\ \E up \in IF config.server THEN Bound({"api"}) ELSE {{}} :
          Become(p, [task[p] EXCEPT !.step = "sharing", !.set.up = up])
    /\ UNCHANGED <<disk, memory, installed, settled, bounds>>

\* Mutant: the MCP listeners are started whatever the configuration says.
StartSharingAlways(p) ==
    /\ At(p, "sharing")
    /\ Become(p, [task[p] EXCEPT !.step = "install", !.set.up = @ \cup {"owner", "shared"}])
    /\ UNCHANGED <<disk, memory, installed, settled, bounds>>

StartSharing(p) ==
    /\ At(p, "sharing")
    /\ \E up \in IF config.sharing THEN Bound({"owner", "shared"}) ELSE {{}} :
          Become(p, [task[p] EXCEPT !.step = "install", !.set.up = @ \cup up])
    /\ UNCHANGED <<disk, memory, installed, settled, bounds>>

\* The set is installed only if the vault is still unlocked; otherwise its servers
\* are stopped. After an unlock that ran alone all is in order again.
Install(p) ==
    LET t == task[p]
    IN  /\ At(p, "install") /\ ~Held
        /\ IF current # None THEN installed' = t.set /\ Finish(p)
           ELSE UNCHANGED installed /\ Become(p, Stopped(t, t.set, "idle"))
        /\ settled' = (settled \/ (t.clean /\ t.cmd = "unlock"))
        /\ UNCHANGED <<disk, memory, bounds>>
-----------------------------------------------------------------------------
\* Mutant: the services are left alone when the vault is locked.
BeginLockOnly(p) ==
    /\ Begin(p, [Idle EXCEPT !.step = "forget", !.cmd = "lock"])
    /\ UNCHANGED <<disk, memory, installed>>

\* lock: the services are taken down first (deactivate), then the key is dropped.
BeginLock(p) ==
    /\ ~Held
    /\ Begin(p, Stopped([Idle EXCEPT !.cmd = "lock"], installed, "forget"))
    /\ installed' = None
    /\ UNCHANGED <<disk, memory>>

\* Mutant: the handle is dropped, which stops the server without waiting for it.
StopEndsAtOnce(p) ==
    LET t == task[p]
    IN  /\ At(p, "stopping")
        /\ IF t.after = "idle" THEN Finish(p) ELSE GoTo(p, t.after)
        /\ UNCHANGED <<disk, memory, installed, settled, bounds>>

StopEnds(p) ==
    LET t == task[p]
    IN  /\ At(p, "stopping") /\ ~t.set.busy
        /\ IF t.after = "idle" THEN Finish(p) ELSE GoTo(p, t.after)
        /\ UNCHANGED <<disk, memory, installed, settled, bounds>>

Forget(p) ==
    /\ At(p, "forget")
    /\ current' = None
    /\ Finish(p)
    /\ UNCHANGED <<disk, config, env, installed, settled, bounds>>
-----------------------------------------------------------------------------
\* What a switch turned on or off does to the live set, if there is one. Only what
\* is missing is started, and each start may fail.
ToggleApi(set, on) ==
    IF on THEN {[set EXCEPT !.up = @ \cup up] : up \in Bound({"api"})}
    ELSE {[set EXCEPT !.up = @ \ {"api"}, !.busy = FALSE]}

\* Mutant: the tunnel is forgotten.
ToggleListenersOnly(set, on) ==
    IF on THEN {[set EXCEPT !.up = @ \cup up] : up \in Bound({"owner", "shared"})}
    ELSE {[set EXCEPT !.up = @ \ {"owner", "shared"}]}

ToggleSharing(set, on) ==
    IF on THEN {[set EXCEPT !.up = @ \cup up] : up \in Bound({"owner", "shared"})}
    ELSE {[set EXCEPT !.up = @ \ {"owner", "shared"}, !.tunnel = FALSE]}

Toggle(p) ==
    LET t == task[p]
    IN  /\ At(p, "servers") /\ ~Held
        /\ \/ installed = None /\ UNCHANGED installed /\ Finish(p)
           \/ /\ installed # None /\ t.cmd = "server"
              /\ installed' \in ToggleApi(installed, t.arg)
              /\ Become(p, IF t.arg THEN Idle ELSE Stopped(t, installed, "idle"))
           \/ /\ installed # None /\ t.cmd = "sharing"
              /\ installed' \in ToggleSharing(installed, t.arg)
              /\ Finish(p)
        /\ UNCHANGED <<disk, memory, settled, bounds>>

\* start_tunnel looks for the shared listener, then waits for cloudflared, without
\* the lock and for up to half a minute.
BeginTunnel(p) ==
    /\ installed # None /\ ~Held
    /\ "shared" \in installed.up
    /\ Begin(p, [Idle EXCEPT !.step = "spawn", !.cmd = "tunnel"])
    /\ UNCHANGED <<disk, memory, installed>>

SpawnTunnel(p) ==
    /\ At(p, "spawn")
    /\ GoTo(p, "tunnel") \/ Finish(p)
    /\ UNCHANGED <<disk, memory, installed, settled, bounds>>

InstallTunnel(p) ==
    /\ At(p, "tunnel") /\ ~Held
    /\ \/ installed # None /\ installed' = [installed EXCEPT !.tunnel = TRUE]
       \/ installed = None /\ UNCHANGED installed
    /\ Finish(p)
    /\ UNCHANGED <<disk, memory, settled, bounds>>

\* stop_tunnel is one section under the mutex.
StopTunnel(p) ==
    /\ At(p, "idle") /\ calls < MaxCalls /\ ~Held
    /\ installed # None /\ installed.tunnel
    /\ calls' = calls + 1
    /\ installed' = [installed EXCEPT !.tunnel = FALSE]
    /\ UNCHANGED <<disk, memory, task, settled, faults, crashes>>
-----------------------------------------------------------------------------
\* The local API, of the installed set or of one under construction, takes a request of a
\* loopback client and answers it; in between the persona service may wait for the
\* language model. One that is being stopped takes no more.
Serving(busy) ==
    \/ /\ installed # None /\ installed.busy = ~busy
       /\ "api" \in installed.up \/ ~busy
       /\ installed' = [installed EXCEPT !.busy = busy] /\ UNCHANGED task
    \/ \E p \in Callers :
          /\ task[p].set.busy = ~busy
          /\ "api" \in task[p].set.up \/ ~busy
          /\ Become(p, [task[p] EXCEPT !.set.busy = busy]) /\ UNCHANGED installed

Receive == Serving(TRUE) /\ UNCHANGED <<disk, memory, settled, bounds>>
Respond == Serving(FALSE) /\ UNCHANGED <<disk, memory, settled, bounds>>
-----------------------------------------------------------------------------
\* A write that does not complete leaves a file that cannot be used.
Tear(p) ==
    \/ At(p, "keystore") /\ keystore' = Torn /\ UNCHANGED <<saved, secret>>
    \/ At(p, "secret") /\ current # None /\ secret' = Torn /\ UNCHANGED <<keystore, saved>>
    \/ /\ At(p, "put") /\ current # None
       /\ saved' = [key |-> Torn, val |-> Default]
       /\ UNCHANGED <<keystore, secret>>

\* A file cannot be written or read. Most commands end; restore_config goes on.
StoreFails(p) ==
    /\ faults + crashes < MaxMishaps
    /\ faults' = faults + 1
    /\ \/ /\ task[p].step \in {"keystore", "secret", "put"}
          /\ UNCHANGED disk \/ Tear(p)
          /\ Finish(p)
          /\ UNCHANGED <<memory, settled>>
       \/ Restored(p, FALSE) /\ UNCHANGED <<disk, current>>
       \/ Selection(p) \in Keyed /\ ApplyKey(p, FALSE) /\ UNCHANGED <<disk, memory>>
    /\ UNCHANGED <<installed, calls, crashes>>

Crash ==
    /\ faults + crashes < MaxMishaps
    /\ crashes' = crashes + 1
    /\ UNCHANGED disk \/ \E p \in Callers : Tear(p)
    /\ current' = None /\ config' = Default /\ env' = DefaultModel
    /\ installed' = None
    /\ task' = [p \in Callers |-> Idle]
    /\ settled' = TRUE
    /\ UNCHANGED <<calls, faults>>

Work(p) ==
    \/ WriteKeystore(p) \/ Remember(p) \/ Restore(p)
    \/ PutSecret(p) \/ Snapshot(p) \/ PutConfig(p) \/ Commit(p) \/ Apply(p)
    \/ Teardown(p) \/ BuildClient(p) \/ StartApi(p) \/ StartSharing(p) \/ Install(p)
    \/ StopEnds(p) \/ Forget(p) \/ Toggle(p) \/ SpawnTunnel(p) \/ InstallTunnel(p)

Next ==
    \/ \E p \in Callers :
          \/ BeginSetup(p) \/ BeginUnlock(p) \/ BeginLock(p)
          \/ BeginSet(p) \/ BeginSelect(p) \/ BeginTunnel(p) \/ StopTunnel(p)
          \/ Work(p) \/ StoreFails(p)
    \/ Receive \/ Respond
    \/ Crash

Spec == Init /\ [][Next]_vars
-----------------------------------------------------------------------------
\* Every variable holds a value of its type.
TypeOK ==
    /\ keystore \in Doc /\ secret \in Doc
    /\ saved \in [key : Doc, val : Config]
    /\ current \in Keys \cup {None} /\ config \in Config /\ env \in Models
    /\ installed \in ServiceSet \cup {None}
    /\ task \in [Callers -> Task]
    /\ settled \in BOOLEAN
    /\ calls \in Nat /\ faults \in Nat /\ crashes \in Nat

AtRest == \A p \in Callers : At(p, "idle")

\* main.rs:80: a locked vault has no live services. Commands that ran alone since the
\* last restart, or since an unlock that ran alone, keep to it, and that unlock ends
\* whatever commands that overlapped had left behind.
LockedMeansDown == settled /\ AtRest /\ current = None => installed = None

\* What listens is what the owner switched on (server_enabled, sharing_enabled): no
\* order of switches, locks, failed saves and restarts leaves a server behind.
ExposedAsConfigured ==
    AtRest /\ installed # None =>
        /\ "api" \in installed.up => config.server
        /\ installed.up \cap {"owner", "shared"} # {} => config.sharing

\* services.rs:451: turning sharing off also tears down the tunnel, so that one is
\* up only in front of the shared listener, at every moment.
TunnelNeedsSharing ==
    installed # None /\ installed.tunnel => "shared" \in installed.up

\* main.rs:181: the services use the LLM selection of the configuration, after every
\* change of it and after every unlock.
SelectionInUse ==
    AtRest /\ installed # None => installed.model = config.model

\* What runs is what the owner chose, in all three respects.
RunsAsConfigured == settled => ExposedAsConfigured /\ TunnelNeedsSharing /\ SelectionInUse

\* LocalApiHandle::stop, "an orderly stop that waits for in-flight requests to finish": the
\* key is dropped only after every request of the set that was taken down is answered, so
\* that none of them meets a locked vault. Promised while commands run alone: of two sets
\* built at once the first is dropped, and its requests are on their own.
Busy == \E set \in {task[p].set : p \in Callers} \cup ({installed} \ {None}) : set.busy
RequestsEndBeforeLock ==
    [][settled /\ current # None /\ current' = None /\ crashes' = crashes => ~Busy]_vars

\* AppState::save_config writes the whole configuration, from a copy that may be old:
\* saving one setting still leaves the stored value of every other one as it was,
\* across locks, restarts and failed saves.
SettingsAreKept ==
    [][\A f \in DOMAIN Default :
         settled /\ saved.key \in Keys /\ saved'.key \in Keys /\ saved'.val[f] # saved.val[f]
             => \E p \in Callers : At(p, "put") /\ task[p].cmd = f]_vars
=============================================================================
