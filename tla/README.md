# TLA+ models of the golem-unlimited session engine

This directory holds TLA+ models of four parts of golem-unlimited:

* the node-local session engine, the host-direct manager `HdMan` of
  `src/gu-provider/src/hdman.rs`, with an abstract specification of its
  SessionUpdate pipeline (`Pipeline`) that it is shown to implement;
* the Ethereum key file of `src/ethkey/src/lib.rs`, shared by several
  processes;
* the hub's plugin REST scope of `src/gu-hub/src/plugins/rest.rs`;
* the mDNS service table of `src/gu-lan/src/service.rs`.

It also holds TLC configurations that model-check the models on small
instances, and TLAPS proofs of the properties that matter most.

## The system and its parts

The manager `HdMan` is one actix actor. It owns a *deploy registry*
(`DeployManager<SessionInfo>`), a map from session ids to session records.
Four kinds of request reach it:

* **CreateSession** (`hdman.rs:179-232`):
  * takes an id from `generate_session_id`;
  * creates the workspace directories, and replies with an error if that
    fails;
  * registers a `PENDING` session;
  * returns a future that downloads and unpacks the image.
  
  When the future completes, its continuation runs on the actor. It sets
  the session `CREATED`, or on failure rolls the session back with
  `destroy_deploy`.
* **SessionUpdate** (`hdman.rs:235-425`): checks once that the session
  exists. It then builds a chain of `ActorFuture` links, one per command:
  * `Exec` waits for `SyncExecManager` and then marks the session dirty;
  * `Start` spawns the executable, resolved under the session's
    directory `sessions/<id>/`, and inserts the child in the session's
    process table. A session leaves the registry only after `destroy`
    has removed that directory, so a Start that runs after its session
    is gone fails to spawn;
  * `Stop` removes the child from the table, waits for the Kill, and
    then sets `CONFIGURED` if the table is empty;
  * `AddTags` and `DelTags` change the tag set;
  * `DownloadFile` and `UploadFile` are HTTP transfers that look no
    session up;
  * `Open` and `Close` add no link.
  
  The chain stops at the first failing link. Its reply is the vector of
  the outputs pushed so far.
* **DestroySession** (`hdman.rs:500-513`): `destroy_deploy` kills and
  waits for every child of the session, clears its directory, and drops
  the entry. The entry stays if `clear_dir` fails.
* **GetSessions** and **GetEnvStatus** only read the registry.

A timer started in `Actor::started` runs `scan_for_processes` every 10
seconds (`hdman.rs:77, 135-156`). It `try_wait`s every tracked child,
removes the finished ones, and sets a session `CONFIGURED` when it
removed some and none is left.

The actor runs one closure at a time. A pipeline can therefore interleave
with other requests, with the provisioning continuation and with the
reaper only where the code suspends:

* the image download and unpack;
* the `Exec::Run` and `Exec::Kill` sent to `SyncExecManager`;
* the HTTP transfers.

The model has one action for each stretch of code between two such
points.

## Modules

| module | models |
|---|---|
| `SessionInfo` | the session record (`hdman.rs:159-177`): `status`, `dirty`, tags and the process table. Operators for `insert_process`, the per-session pass of `scan_for_processes`, and the handles `destroy` kills. |
| `HdMan` | the actor: registry, sessions, download futures in flight, OS processes, SessionUpdate requests. Its actions are `CreateSession`, `ProvisionDone(s)`, `DestroySession(s)`, `SessionUpdate`, the links `SkipOpenClose`, `Exec`, `Start`, `StopBegin`, `StopEnd`, `Tags` and `Transfer`, the reaper `Reap`, and `ProcessExit(p)` for a child that terminates by itself. |
| `Pipeline` | the abstract promise of a SessionUpdate: a request is refused or accepted with its command list; the commands run in order, Open and Close add nothing, a link pushes its output and goes on, or fails with its error last and the request resolves Err. One variable `preq`. |
| `MCHdMan` | the pipelines TLC enumerates |
| `HdManProofs` | TLAPS: type correctness |
| `HdManConfiguredProofs` | TLAPS: `ConfiguredOnlyAfterRun` with fresh ids |
| `HdManHandleProofs` | TLAPS: `HandleAccounting`, with or without id reuse |
| `HdManPipelineProofs` | TLAPS: `HdMan` implements `Pipeline`; `TrailFaithful` |
| `PipelineProofs` | TLAPS: the reply trail of `Pipeline` (`TrailOK`) |
| `Keystore` | the key file of an `EthAccount` (`ethkey/src/lib.rs:113-172`), used by a set `Proc` of processes on one path. `LoadOrGenerate(q, pw)` and `ChangePassword(q, pw)` each start a `save_key` (`SaveBegin`), `Truncate` is its `File::create` and `SaveEnd` completes or fails the write. `Crash(q)` models a process dying. |
| `MCKeystore` | TLC instance of `Keystore` |
| `KeystoreProofs` | TLAPS: `TypeOK` (a lemma), `AccountStored`, `SingleIdentity` and `ImplementsVault` |
| `KeyVault` | what the key file promises: one identity (`key`), created once; whether a load can read it (`readable`); the account each process holds (`held`). Actions `Create`, `Load`, `Rewrite` (by a holder), `Damage` and `Drop`. |
| `PluginRest` | the route table of `scope` (`rest.rs:71-81`) with actix's first-match dispatch, the handlers `list_scope`, `install_scope`, `dev_scope`, `state_scope` and `file_scope` (`rest.rs:83-205`) split into their synchronous part (`Dispatch`) and their continuation on the PluginManager's answer (`Answer`), and the requests `list_query` and `dev_query` send (`rest.rs:31-69`). |
| `MCPluginRest` | seven segments, one supported and one unsupported extension |
| `PluginRestProofs` | TLAPS: `MessageFaithful` and `FileReplyFaithful` |
| `Services` | one mDNS query's table (`service.rs`): `ToServices` (one iteration of the loop of `to_services`), `AddInstance`, `Collect` |
| `ServicesProofs` | TLAPS: `CollectFaithful` |
| `MCServices` | two services, one foreign answer name, two instances |

How the state maps to the code:

* `registered` and `sess` are the keys and values of `deploys`.
  `sess[s].procs` maps a child id to a process number, or to `NoPid` for
  an absent key.
* `prov[s]` counts the provisioning futures for `s` still pending.
* `proc[p]` is the life of OS process `p`: `none`, `alive`, `exited`
  (a zombie) or `reaped`.
* `req[r]` is SessionUpdate request `r`:
  * `st` is "run" while its chain has a next link, "stop" while a Stop
    waits for its Kill, and "ok" or "err" once it has replied;
  * `pc` is the index of the next command;
  * `out` is the reply vector, abstracted to (command index, ok or err)
    entries;
  * `hold` is the child handle a Stop owns between its two links.
* `used` and `inserted` are history variables. `used` holds the ids
  handed out; `inserted` holds the processes put in a table.
* `nSpawn`, `nReq` and `nCreate` are counters bounded by `MaxSpawn`,
  `MaxReq` and `MaxCreate`.

Only the data the properties tell apart is kept:

* executable names, arguments, URIs, paths and output strings are left
  out;
* a command is its kind, plus the child id of a Stop and the tag set of a
  tag command.

The registry, the id generators, the provisioner and `SyncExecManager`
are not in the sources. They are modelled from the specification, and
PROJECT.json marks them `spec_modelled`:

* `destroy_deploy` removes the entry unless the teardown failed;
* `generate_session_id` returns an unregistered id. With `ReuseIds =
  FALSE` it returns an id never handed out (a UUID generator). With
  `ReuseIds = TRUE` it returns any id not currently live, which is all
  that spec 4.1 requires;
* `generate_new_id` returns a key not in the table;
* a download, Exec or transfer completes with success or failure;
* a Kill of a live child succeeds and kills it. A Kill fails only once
  the child has terminated.

## The keystore

`save_key` builds the JSON key file and creates the parent directory.
It then calls `File::create` on the path, which truncates the file, and
writes the JSON into it with `to_writer_pretty`. Other processes on the
same path can interleave between these steps, so the model splits it:

* `SaveBegin` is the call, which builds the key file (scrypt); nothing
  is on disk yet;
* `Truncate` is the directory creation and `File::create`. Either can
  fail and leave the file untouched;
* `SaveEnd` is the write, which completes or fails part way.

Between `Truncate` and `SaveEnd`, the file is `Partial`. The variables are:

* `disk`: `NoFile`, `Partial` or a complete `[key, pwd]`;
* `acct`: the secret of the `EthAccount` the process holds;
* `saving`: the `save_key` in progress;
* `stored`: a history of the secrets written in full;
* `nCrash`: the crash counter, bounded by `MaxCrash`.

`load_or_generate` behaves as follows:

* it decrypts the file when `File::open` succeeds. A partial file or a
  wrong password is an error;
* it generates a secret only when there is no file;
* it returns the account only once the save succeeded.

A crash loses the account and any save in progress. The file stays as
it is.

## The SessionUpdate pipeline and its refinement

`Pipeline` says what a caller of SessionUpdate may observe, with the
sessions, processes and suspension points left out. `HdMan!PipelineOf`
maps each request `req[r]` of `HdMan` to a `Pipeline` request: the same
command list, index and reply vector, with the state "stop" (a Stop
between its two links) seen as "run". `HdMan!ImplementsPipeline` is
`Pipe!Spec` for `Pipe == INSTANCE Pipeline WITH preq <- PipelineOf`:

* `SessionUpdate` is `Refuse` (no session) or `Accept`;
* `SkipOpenClose` is `Skip`;
* `Exec`, `Start`, `Tags`, `Transfer` and `StopEnd` are `Succeed` or
  `Abort`. `StopBegin`, which only takes the child's handle, is a
  stutter, and its failure (no such child) is `Abort`;
* every other action leaves `PipelineOf` unchanged.

## The plugin REST scope

A path is the sequence of its segments after `/plug`. `Matching(path)`
lists the five resources of `scope` whose pattern matches, in
registration order, and `Handler(req)` takes the route of the first one
for the request's method, or `none` (404). Each handler keeps no state
between requests, so the model serves one request at a time:

* `Receive(req)` takes a request of the CLI queries or of any client;
* `Dispatch` runs the route and the handler up to its send to the
  PluginManager, or its early 400/404 reply;
* `Answer` is the manager's answer (Ok, an error, or a `MailboxError`)
  and the handler's continuation that builds the reply.

The PluginManager is not in the sources, so its answer is a free choice.

## The mDNS service table

A query starts from `Services::new()`, an empty table. Each
`ToServices` step is one iteration of the loop of `to_services`: it
adds the next description with `AddService`. A repeated description
resets its entry to the empty set, exactly as `HashMap::insert` does.
`built` counts the descriptions added so far. The answers and `collect`
wait until the loop has returned the table (`built = Len(descs)`),
because the query is sent only after that. `AddInstance`
adds an answer to the entry of its name, or drops it when the name was
not queried. `Collect` returns the union of the entries.

## Runs

All runs use these constants:

* two session ids and one child id;
* one tag;
* at most two spawned processes, two SessionUpdate requests and two
  CreateSession requests.

`MCPipelines` has five pipelines. Between them they cover every command
kind and the orders that matter:

* a transfer before a Start (a suspension point that looks no session
  up);
* an Exec before a tag command;
* Start then Stop;
* the no-op commands.

With two ids and two creates, the model reaches:

* a destroy or rollback racing a pipeline;
* a provisioning completion after pipeline links;
* a child id reused after a child is removed.

`CHECK_DEADLOCK FALSE` is set because the agent legitimately idles once
the bounds are reached.

| run | cfg | result | shows |
|---|---|---|---|
| safety | `MCHdMan_safety.cfg` | pass (785,841 states, under `FairSpec`) | `HandleAccounting` (no handle held twice; an inserted process still running is held by its table or by the Stop killing it); `ConfiguredOnlyAfterRun` (CONFIGURED only on a dirty session); `TrailFaithful` (the reply vector has at most one error, which is last, and entries follow the command order; an Ok reply has an entry for every command that adds a link); `ImplementsPipeline` (every behaviour of `HdMan` is one of `Pipeline` under `PipelineOf`); `ExitedChildEventuallyRemoved` under `WF_vars(Reap)` |
| revert | `MCHdMan_revert.cfg` | violation | `NoRevertAfterRun`, an action property: a Start on the still PENDING session makes it RUNNING, and the provisioning completion then sets it back to CREATED while the child runs (hdman.rs:220) |
| stuck | `MCHdMan_stuck.cfg` | violation | `IdleRunningHasProcesses`: a failed Kill leaves RUNNING with no child forever (hdman.rs:348) |

Three runs check the keystore. They use three secrets and three
passwords, because a password change followed by a load with a third,
wrong password must be reachable. The safety run allows up to two
crashes.

| run | cfg | result | shows |
|---|---|---|---|
| keystore_safety | `MCKeystore_safety.cfg` | pass | `AccountStored` (a held account is a secret written in full); `SingleIdentity` (no second secret is ever written at the path); `ImplementsVault` (every step is a step of `KeyVault` under `VaultKey`, `IsKeyFile(disk)` and `acct`) |
| keystore_lost | `MCKeystore_lost.cfg` | violation | `KeyNeverLost`: with no crash at all, a `change_password` whose write fails after the truncation leaves no complete copy of the secret. Every later `load_or_generate` fails to parse the file (lib.rs:171) |
| keystore_race | `MCKeystore_race.cfg` | violation | `SingleIdentity` with two processes on one path: both find no file and generate, and the second `File::create` replaces the secret the first one already returned (lib.rs:125) |

The REST runs use paths of up to three segments over seven segments
(the keywords, a plugin name, a `.js`, a `.png` and an extensionless
file), which covers every resource, both methods, a plugin called
`dev`, and supported, unsupported and missing extensions:

| run | cfg | result | shows |
|---|---|---|---|
| rest_safety | `MCPluginRest_safety.cfg` | pass | `MessageFaithful` (the manager only gets the message the method and URL name); `FileReplyFaithful` (a 200 file reply follows an Ok and carries the URL's plugin and path with a supported content type) |
| rest_dev | `MCPluginRest_dev.cfg` | violation | `DevQueryRouted`: `dev_query` sends GET `/plug/dev/...`, but the dev resource has only a POST route (rest.rs:63, 75) |
| rest_ok | `MCPluginRest_ok.cfg` | violation | `OkMeansApplied`: `state_scope`, `install_scope` and `dev_scope` answer 200 when the manager reports an error (rest.rs:186) |

The services run enumerates every services vector of up to three
descriptions over two services, so repeated descriptions occur, and
answers for both services and for a foreign name:

| run | cfg | result | shows |
|---|---|---|---|
| services_safety | `MCServices_safety.cfg` | pass | `CollectFaithful`: `collect` returns exactly the instances answered for a listed service, whatever the order of answers and repeats |

Fairness. The reaper runs on `run_interval`, and the actor is not
blocked forever between its runs. So a reaper pass that has something to
remove is eventually taken: this is weak fairness of `Reap`. Nothing else
is assumed fair. A download, an Exec or a transfer may stay pending
forever, because the code sets no timeouts.

Each property of a passing run has a mutant in PROJECT.json. The mutant
is a plausible bug in the code it names, and it makes TLC find the
property violated:

* a destroy that drops the handles without killing the children;
* a reaper that sets CONFIGURED on any empty table;
* a failed link that lets the chain go on;
* a reaper that never removes children;
* a `load_or_generate` that returns the account although `save_key`
  failed. The same mutant also breaks `ImplementsVault`: the process
  would hold an identity the file never received;
* a `load_or_generate` that regenerates a secret over an unreadable file;
* an Open or Close that pushes an output like a link (refinement);
* a `file_scope` that accepts any extension;
* a `dev_scope` that installs from the matched path with `/dev` kept;
* an `add_instance` that creates the entry of a name never queried.

## Proofs

The two HdMan theorems are checked by `tlapm` for every value of the
constants that satisfies `SessionInfoAssumption` and `HdManAssumption`.

* `HdManProofs!TypeCorrect`: `Spec => []TypeOK`. `TypeOK` is not
  inductive. A link reads `Cmd(r) = cmds[pc]`, which is typed only when
  `pc` is in range, and `CreateSession` increments `prov[s]`. The proof
  strengthens it to `TypeInv = TypeOK /\ PcInRange /\ ProvBound`:
  * `PcInRange`: a running or stopping request points at one of its
    commands;
  * `ProvBound`: `prov[s] <= nCreate`.
  
  It then proves `Init => TypeInv`, and one lemma per action for
  `TypeInv /\ A => TypeInv'`, and concludes with PTL. Lemmas on the
  record operators (`NewSession`, `InsertProcess`, `ScanSession`,
  `Advance`, `Fail`) are stated once and cited.

  The other HdMan proofs rest on this theorem. No run checks `TypeOK`
  as a property. The only steps that could break it would change the
  model's own counters and sentinels, and no plausible bug in the code
  does that. The same holds for `KeystoreProofs!TypeCorrect`.
* `HdManConfiguredProofs!ConfiguredOnlyAfterRunHolds`: under `~ReuseIds`,
  `Spec => []ConfiguredOnlyAfterRun`. The invariant alone is not
  inductive, because Stop and the reaper set CONFIGURED on an emptied
  table. The proof carries these further facts:
  * `TableDirty`: a registered session with a child is dirty;
  * `StopDirty`: a Stop waiting for its Kill either targets a dirty
    session or an id no longer registered;
  * `ActiveSidUsed` and `RegUsed`: the ids of running requests and of
    registered sessions have been handed out.
  
  The last two are what fresh ids buy: `CreateSession` never registers
  an id a pending Stop refers to. Under `ReuseIds = TRUE` this step
  fails: a late Kill result of a destroyed session would mark a
  re-created, never-run session with the same id CONFIGURED
  (hdman.rs:334).

* `HdManHandleProofs!HandleAccountingHolds`: `Spec => []HandleAccounting`
  for both values of `ReuseIds`. The inductive invariant `HInv` adds to
  `TypeInv`:
  * `Fresh`: every handle in a table or held by a Stop is at most
    `nSpawn`, and a pid above `nSpawn` was never spawned or inserted, so
    `Start` inserts a handle nobody holds;
  * `HoldOnlyInStop`: a request holds a handle exactly while it is
    between the two links of a Stop;
  * `SlotsUnused`: request slots above `nReq` are idle;
  * `Unique`: no two table entries, no two Stops and no entry and a Stop
    hold the same handle;
  * `Kept`: an inserted, live process has a table entry or a Stop
    holding it.
  
  `HandleAccounting` follows from `Unique` and `Kept`. The proof has one
  lemma per action and a frame lemma for the actions that touch no
  handle.
* `HdManPipelineProofs!ImplementsPipelineHolds`: `Spec => Pipe!Spec`,
  for every value of the constants. Initial states map to `Pipeline`'s,
  and each action is shown to be the `Pipeline` step listed above or a
  stutter. It needs `RInv = TypeInv /\ StopAtStop /\ SlotsIdle`: a
  request waiting for a Kill is at a Stop command (so `StopEnd` is a
  `Succeed` or `Abort` of a link), and unused slots are idle (so
  `SessionUpdate` takes an idle `Pipeline` request).
* `PipelineProofs!TrailHolds`: `Spec => []TrailOK` in `Pipeline`. The
  invariant `IInv` describes each request's trail: a running or Ok
  request has one ok entry per link before `pc`, in increasing order; an
  Err request was refused, or has such a trail followed by the tail its
  failing link appended. Lemmas on `\o` and `SubSeq` carry it through
  `Step` and `Abort`.
* `HdManPipelineProofs!TrailFaithfulHolds`: `Spec => []TrailFaithful`,
  from the refinement and `TrailHolds`: `TrailFaithful` is `TrailOK` of
  `PipelineOf`.
* `PluginRestProofs!MessageFaithfulHolds` and `FileReplyFaithfulHolds`
  hold for every segment alphabet, extension table and depth satisfying
  `PluginRestAssumption`. Lemmas give the handler of each path shape
  (the first match of `Matching`) and the segments of a path. `MInv`
  says that a request in service is a `Request`, that no message is sent
  before `Dispatch`, and `MessageFaithful`. `FInv` adds that no reply
  exists before the handler answered and that a waiting file request
  sent a file message with a supported extension.
* `KeystoreProofs!AccountStoredHolds` and
  `KeystoreProofs!SingleIdentityHolds` hold for any secrets, passwords
  and number of crashes; `AccountStored` for any set of processes,
  `SingleIdentity` for a single process (the race run shows why). Both rest on one inductive invariant `KeyInv`:
  * a complete file holds a stored secret;
  * there is no file only before any save;
  * a save in progress has truncated the file, and writes either a
    stored secret or, before anything was stored, a fresh one.
  
  The assumption `KeystoreAssumption` says that the sentinel model
  values are not secrets, key files or saves.

* `KeystoreProofs!ImplementsVaultHolds`: with one process,
  `Spec => ImplementsVault`. The refinement mapping sends the identity
  to the secret stored, if any (`VaultKey`); `readable` to "the file is
  a complete key file"; and `held` to `acct`. The proof uses
  `VInv = IdInv /\ SavingHeld`. `SavingHeld` says that a
  `change_password` in progress rewrites the account its caller holds.
  Each step then maps as follows:
  * a completed generating save is `Create`, because nothing was stored
    before (`SavingStored`);
  * a completed change is `Rewrite` by the holder;
  * a read of a complete file is `Load` of the identity (`FileStored`
    and `SingleIdentity`);
  * a successful truncation is `Damage`, and a crash is `Drop`;
  * everything else leaves the mapped state unchanged.
  
  With two processes the refinement fails, as the race run shows.
* `ServicesProofs!CollectFaithfulHolds` holds for every set of
  descriptions, answer names and instances, and every `MaxDesc`. The
  invariant `SInv` says:
  * the table's names are those of the descriptions added so far;
  * no answer arrives before the loop is done;
  * every entry holds exactly the instances answered for its name;
  * `collect` returned the union of the entries.
  
  An entry reset by a repeated description is therefore still
  complete. With `to_services` as a `FoldLeft`, the proof would need
  induction over the vector, which the provers cannot instantiate.
  Modelling the loop one iteration per step turns that induction into
  the invariant.

These are checked only with TLC:

* the liveness property `ExitedChildEventuallyRemoved` (the prover does
  not handle fairness or ENABLED);
* the properties of the violation runs, which do not hold.

## Not modelled

* Two processes sharing one key file are modelled for the race only;
  `SingleIdentity` is proved for one process.
* A `File::open` that fails while the file exists is not modelled. The
  code would then overwrite the file with a new secret.
* The PluginManager that answers the REST messages, and the mDNS socket
  actor that feeds the service table, are not in the sources.
* The RAM query (`gu-hardware/src/ram.rs`) reads three counters and
  changes no state.
* The image cache shared by concurrent downloads belongs to the
  provisioner, which is not in the sources.
* The blocking of the actor thread by `child.wait()` in `destroy` is
  outside what the model represents. The model treats kill and wait as
  one step.
* `GetSessions` and `GetEnvStatus` only read the registry.

## Plan for later work

1. An abstract per-session lifecycle specification, refined by `HdMan`.
   The revert and stuck divergences must be accounted for in the
   abstraction, or shown as refinement failures.
2. An abstract specification of the REST scope, which `PluginRest`
   would refine.
3. Several requests served concurrently by the REST scope, once the
   PluginManager's behaviour is specified.
