# A verification project for the Anona memory SDK

TLA+ modules, TLC configurations and TLAPS proofs about the programs of this
repository: the Python package (`anona/`), the Node package
(`typescript/src/`) and the Claude Code hooks (`hooks/`). The two packages
implement one design twice and share files, locks and servers; a module that
models both says where they differ.

## 1. The system

| Component | State it keeps | Operations | Interacts with |
|---|---|---|---|
| Credential files (`store`) | `credentials.json` (MCP login, temporary profile), `cli-credentials.json` | load, atomic save, clear | everything below |
| File locks (`tokens`) | `<file>.nodelock` (both), `<file>.lock` (flock, Python) | acquire with stale recovery and a time limit, release | every writer of a credential file except `start` |
| Token refresh (`tokens`) | the pair in the file | read, lock, read again, post, save, return | the authorization server, which rotates |
| Login (`login`, `oauth`) | one pending approval per process | register, browser, exchange, save, fall back from the command-line scope to MCP | server, both files, temporary profile |
| Temporary profiles (`temp`) | the profile's token, only in the file | `start` | server (72-hour deadline), login (claims it), logout (refuses to drop it) |
| Logout (`main`, `index.ts`) | none | check, delete, revoke | both files, server |
| MCP proxy (`proxy`) | none; reads a credential per message | forward, one repeat after 401 | token refresh |
| Data commands (`memory`, `target`, `credential`, `config_env`) | none | choose a credential, pin it to its deployment, renew once | token refresh, SDK client |
| Jobs (`jobs`) | deadline, outstanding ids | poll with back-off | SDK client |
| SDK client (`client.py`, `http.ts`) | a sync client, one async client per event loop, a rate-limit snapshot | about ninety requests, retries, close | REST API |
| Hooks (`anona_sync.py`) | a pending file per send, a cached list of spaces | read at session start, detached send at compaction and session end | API or the `anona-memory mcp` process |
| Integrations | a bridge to the client | recall and record, fail-open | agent frameworks |
| Grammar, help, formatting | none | parse words into one request | - |

What is hard: the locks are files that a killed process leaves behind and that
waiters remove; the refresh token is burned by the very request that replaces
it, so a crash, a lost answer, a second process or a failed write in between
can strand the user; commands that wait minutes for a browser write a file
others are refreshing; a temporary profile's token exists in that file only.
`PROJECT.json` lists each hazard at the line where it bites.

What makes each part correct:

- locks: one process inside, until a lock file is stolen; nothing is stolen
  while owners are quick and leave no file behind; every wait ends;
- refresh: no token is presented twice; no process refreshes what another has
  just refreshed; what is returned is on disk; nobody is told to log in again
  without a cause; every call ends;
- login, logout, start: no live profile is lost unasked; a deleted login stays
  deleted; a refresh never undoes a login; a token is filed under the
  deployment it came from;
- credentials in use: a stored token goes to the deployment that issued it, on
  every message; the login of a deployment goes ahead of a leftover profile; a
  refused token is not sent again;
- commands: a POST or PATCH is executed at most once whatever is retried,
  renewed, polled or executed late; the exit code tells whether it was; a
  `set` does not clear what it was not told to; `--wait` reports the jobs as
  they are; every command ends;
- connections: a client of one event loop never serves another; a close does
  not fail the asynchronous calls that come after it, unless it was itself
  cancelled half-way; closing finds every client; closed loops leave the table;
- hooks: a payload is stored once at most (over MCP with one exception), in a
  space of the user's own, and is not dropped without a cause; a hook does not wait for its child, and neither
  a child nor its file stays behind.

## 2. The modules

```
CredentialMutex        what the lock promises
  <- CredentialLock    the lock files, system call by system call
       CredentialLockProps, MCCredentialLock, CredentialLockProofs
  <- TokenRefresh      callers of access_token and the rotating server
       TokenRefreshProps, TokenRefreshInv, MCTokenRefresh, TokenRefreshProofs
       <- Session      login, logout, start beside those callers
            SessionProps, MCSession, SessionProofs
            SessionRotation, SessionRotationProofs: rotation beside those commands
RenewableLogin         what one stored login is to its users
  <- TokenRefresh
Bearer                 which credential a command or the proxy presents, and where
       BearerProps, MCBearer, BearerProofs
Commands               one request or script of requests, its retries and exit code
       CommandsProps, CommandsProofs
       ApiCalls        the table of all requests, which MCCommands puts together
            MCCommands     with Commands
LoopClients            the connections of one AnonaClient
       LoopClientsProps, MCLoopClients, LoopClientsProofs
HookSend               the hooks, their children and the cached list of spaces
       HookSendProps, MCHookSend, HookSendProofs
Delivery               what becomes of an item that is handed in once
  <- Commands, HookSend
```

Below the three abstract specifications (CredentialMutex, RenewableLogin, Delivery)
`<-` reads "is implemented by"; TokenRefresh also uses CredentialMutex, and Session
is built on TokenRefresh. The models below them take what the upper ones show as one
step: `access_token` in Bearer (`Access`, `Renew`) is what TokenRefresh spells out, a
renewal in Commands is what Bearer spells out (`Renew`, `RenewFails`), a request in
LoopClients (`Send`, `Hear`, `Break`) is what Commands spells out.

**CredentialMutex** is the abstract specification: `holders` and `stolen`.
Before a theft one process holds the lock; after one, Python processes still
exclude each other, because they hold an flock as well.

**CredentialLock** has the lock file's owner and age, the flock, and a place for
each acquisition. `Create`/`Exists` are the exclusive create, `Stat*` the stat
and what it decides, `TakeOver` the unlink of a stale file, `Flock` the second
lock of Python, `Finish` and `Release` the way out, `Die` a kill at any point.
`CreateFails` and `ReleaseFails` are the errors that leave the lock file behind a process
that lives on (the pid is written before the `try`); `TakeOverFails` is an unlink that
fails, which Python raises and Node takes for a file that was released.
Neither unlink looks at the owner; `RemoveFile` records in `stolen` when it
removed the file of a live process. Stat and unlink are separate steps, as in
the code.

**TokenRefresh** has the file, the server's current generation per family (one
family per approval), the request of each caller on the `wire`, and the place
of each caller. A pair is a family and a generation; the access token and the
refresh token of a pair are not told apart. `Read`, `Acquire`, `Reread`, `Post`,
`Receive`, `Save`, `Release` are the code in its order; `Refused` is the
repeat after a 401. Faults: `SaveFails`, `RequestTimesOut` (the request may
still be answered: `late`), `Crash`, `StealLock`. The server's actions
(`Answer`, `AnswerLate`, `Revoke`) are external and follow what the code says of
it: it burns the old token when it issues the new one, and a burned one that
comes back revokes the family.

**RenewableLogin** is what a stored login promises to those who use it: a numbered
pair on disk that only its successor replaces, one save at a time, and a caller is
given the pair on disk. TokenRefresh maps to it by `Stage` (is the newest pair on
disk, about to be saved, or lost), the generation in the file, the generation each
caller went away with, and whether the family was ever abandoned.

**Session** adds the command processes. Each runs one command, `job` holds its
options and place. `login` reads the profile (`Ask`), registers with it, waits
for `Consent`, redeems, and saves under the lock with the profile carried
over if it was neither claimed nor refused. `logout` is `CheckHeld`, `DeleteCli`,
`Delete`, `RevokeDeleted`. `start` is `Probe`, `Create`, `Store`, and takes no lock.
`Probe` differs between Python and Node as the code does. The command-line
file is abstracted to the deployment it is for.

**Bearer** follows one process, a data command or the proxy, through `main.py`,
`target.py`, `credential.py` and `memory.py` or `proxy.py`. `opt` is what the user
named where (flags, environment, config file), `file` the two credential files.
`ChooseKey`, `NameASpace`, `ReadCli`, `ReadMcp` and `ProxyReadCli`, `ProxyReadMcp` fix
the deployment (`base`); `Check`, `Load`, `Access`, `Send`, `End`, `Denied`, `Renew` are one
message, a read of a file each where the code reads. `Resolve` and `ForApiKey` are the
functions of `target.py`. The actions `Other*` and `ProfileExpires` are all other
processes. `quiet` and `still` record whether one of them has changed a login or a
deployment since the process, or the message, began.

**Commands** has for each command its script (`one` request, a `merge` that reads a
record and writes it back, a write and a `wait` for its jobs), the step, the
attempt, the last answer and the exit code. `Retry`, `Succeed`, `Fail`, `Renew`,
`RenewFails`, `RefuseLocally`, `Expire` are the code: `ShouldRetry` is the policy of
both transports, `ExitOf` the table of `exits.py`, `Outcome` that of `jobs.py`. The
server (`Refuse`, `Execute`, `ShowRecord`, `ShowJob`, `Lose`, `ExecuteLate`, `Settle`) is
external: it may execute and not say so, or execute after the sender gave up,
and counts in `ran` what it executed. A 5xx may come with execution, without it, or, from
the edge (`Lose`), ahead of it. When a PUT or DELETE is sent again, a late execution of
the first attempt is not told apart from the second one: both carry the same.

**Delivery** is the contract of Commands and HookSend: the server executes an item
once at most, a sender may abandon it, and the owner is told one word, for good:
"yes" if it has been executed, "no" if it has not and never will be, or that nobody
knows. A command is mapped to it by `Fate`, what the server has executed and may
still execute, and `Word`, how its exit code is to be read; a PUT, GET or DELETE may
be repeated, so only a POST or PATCH is counted. A hook's payload is mapped by its
copies, by who still carries it, and by no word: nobody is told.

**ApiCalls** is a table: for every method of `AnonaClient`, its asynchronous twin and
every verb of the command line, the HTTP method, how the body is filled (every
key with nulls, or only what was named), the effect, and whether it may be
refused unsent. `TwinsAgree` is an assumption that TLC evaluates: both clients send
the same. MCCommands runs `Commands` on every shape of request in the tables.

**LoopClients** has the event loops and what became of them, the table of
`_async_clients`, the pinned and the synchronous client, the loop a client's
connection is `bound` to, and the clients that were `shut`. `GetAsync` is one step
because the code holds a lock; `LookSync`, `MakeSync`, `ReturnSync` are three because
it holds none. `Aclose` and `BridgeClose` begin a close, `ClosePinned`, `Unpin`, `Take`,
`CloseOne`, `Closed` are its steps, with calls of other loops and threads between
any two. `CloseLoop` is the end of `asyncio.run`: it cancels what is left, and an
`aclose` that was closing the pinned client stays "halfway", with that client closed and
in place. A call is `calm` while nobody closes what it uses, and `stale` if the client
it would use was closed before it began. How httpx
behaves (a closed client sends nothing, a connection of another loop breaks) is
external.

**HookSend** has each hook's process, its payload's file, its detached child, and
the list of spaces that all of them cache. `MakeFile`, `WriteFile`, `Spawn`, `PushStops`
are the hook; `ReadPayload`, `Unlink`, `TakeCached`, `AskForList`, `Truncate`, `Fill`, `Select`,
`RefuseToRoute`, `MistakeForRefusal`, `Refuse`, `Lose`, `GiveUp`, `Cleanup` the child; a recall
takes the same way without a file. Over MCP every error of the tool counts as a refusal:
`RefuseToRoute` is one before the payload was stored, `MistakeForRefusal` one after it, and
`misled` remembers the latter. An unlink may fail (`UnlinkFails`, "stuck"). `Target` is the choice of the space and `Listing` the list of own
spaces. The server's `Record` and `StoreLate` append to `stored` the kind of space that
the payload ended up in. `KillChild`, `KillRecall` may come at any point,
`ViewChanges` is a space made, deleted or shared, or another account, and
`CacheAges` the hour.

Definitions marked "Mutant" are broken variants used to see that a property
notices; no specification refers to them.

## 3. The runs

| Run | Shows | Instance |
|---|---|---|
| `lock` | `ExclusiveUntilStolen`, `NoTheftWithoutDeath`, `Implements` (CredentialMutex), `EveryWaitEnds`, `TypeOK` | two Python processes and a Node one, one killed or failing over its file, staleness after 1 tick, time limit 2 |
| `lock_takeover` | `MutualExclusion` is violated | the same |
| `tokens` | `NoReplay`, `RotatesOnlyStale`, `ReloginIsEarned`, `Promised` (RenewableLogin), `EveryCallEnds`, and that `RefreshInv`, which contains `TypeOK`, holds | a Python and a Node caller, one family, 2 rotations, 2 faults |
| `session` | `ProfileKept`, `LogoutSticks`, `FiledAtItsDeployment`, `RefreshKeepsLogin`, `SessionTypeOK`, and that `RotationInv`, which contains `NoReplay`, `StoredIsCurrent` and `PersistBeforeUse`, holds | one caller, one Python and one Node command out of login, logout, start; 2 deployments, 2 families, 2 profiles |
| `start_race` | `StartNeverOrphans` is violated | two `start` commands |
| `login_fallback` | `PlainLoginKeeps` is violated | plain `login` at another deployment |
| `bearer` | `PinnedWhileQuiet`, `RightCredential`, `OneFreshRetry`, `EveryMessageEnds`, `TypeOK` | a command or a proxy; keys and servers named in any of three places; deployments Anona's, one's own and one without TLS; 3 tokens |
| `login_switch` | `OwnDeployment` is violated | the same without keys |
| `commands` | `AtMostOnce`, `ExitTellsTheWrite`, `WaitTellsTheTruth`, `SetKeepsOthers`, `OneDelivery` (Delivery), `LeavesLess`, `EveryCommandEnds`, `TypeOK` | every shape of request, or two commands on one record or item; one retry, 2 fields, 2 jobs |
| `contract` | `OnlyAnonaErrors` is violated | the same |
| `loops` | `OwnLoop`, `ServedUnlessClosed`, `NoneForgotten`, `NothingAccumulates`, `TypeOK` | 3 asynchronous calls; 2 and two closes; an asynchronous and a synchronous one and a close; 2 synchronous ones and a close; 3 loops |
| `hooks` | `OwnSpaceOnly`, `NotLost`, `OneDelivery` (Delivery), `EveryPushEnds`, `TypeOK` | two pushes, or a push and a recall; routed over MCP, unrouted over REST, pinned over MCP; two names that differ in case; one change of the account |

Some properties are theorems without a run of their own, because a checked one
says more: `PersistBeforeUse` and `NeverBackwards` follow from `Promised`,
and `AtMostOneCopy` says of single payloads what `OneDelivery` says of deliveries.

Why the bounds are enough. A takeover race needs an abandoned file and two
waiters: three processes, one death or failure. With the limits at 1 and 2 ticks every
order of "stale", "timed out" and "released" occurs; larger numbers only add
ticks. A replay needs two callers of one generation, a third only repeats the
second; two rotations make a late answer meet a later generation, and two
faults combine a theft with a lost answer. In `session` two commands of any
kinds meet one refresh; the two deployments are interchangeable (the symmetry
of `MCSymmetry`), and the second family and profile are what a second login
or start makes. Faults of the callers are left to `tokens` there; commands die
anywhere. In `bearer` a secure deployment that is Anona's, one that is not and one
without TLS are all that `target.py` tells apart, and three tokens are one at the
start and two logins or rotations, so a renewal can itself be overtaken. In
`commands` one retry already gives every order of a retry, a renewal and a late
execution, and a poll of two jobs every mix of outcomes; two commands meet only at
a record or an item, so only those run in pairs. In `loops` a third loop is the one
swept while two are in use, or the one made for a close; calls, closers and all
loops but the pinned one's are interchangeable, which the symmetry uses. In `hooks`
two writers of the list are what mixes it, and one change makes it stale. The
proofs below do away with these bounds for the safety properties they cover.

Deadlock is not checked: every acquisition, command, message, call and hook ends,
and then nothing is left to do.

**Fairness.** `lock`: a live process keeps executing (`WF` of its steps), the
clock runs, the kernel grants a contended flock to each waiter in turn
(`SF(Flock)`), and the unlink of a stale file does not fail each time a Node process
tries it (`SF(TakeOver)`: nothing but success ends that loop, which `EveryWaitEnds`
therefore does not show for a directory that has become read-only). `tokens`: a caller keeps executing and the server answers or the
connection breaks, which the request's timeout guarantees. Nobody has to
call, expire, fail, die or steal. `commands`: a command keeps executing, a request
is answered or runs into its time limit, and the clock of `--wait-timeout` runs; no
job has to settle. `bearer`: the process keeps executing, and its requests have time
limits; no other process has to do anything. `hooks`: hooks and children keep
executing until they are killed. `session` and `loops` state no liveness: a command may
wait for a user who never comes, and a loop may never run a task again.

## 4. What the runs found

- *The lock can be stolen from a live process* (`lock_takeover`). An owner is
  killed, or cannot write its pid into its lock file; two waiters stat its stale file; the first unlinks it and creates
  its own; the second unlinks that. If one of them is Node, both run under
  the lock, against "Exclusive access to the credential file, shared with the
  Node CLI" (`anona/cli/tokens.py:106`). `ExclusiveUntilStolen` says what is left.
- *Two starts orphan a profile* (`start_race`). `start` looks, asks the server
  and saves without the lock (`anona/cli/temp.py:101`), against the comment at
  line 71 and the docstring at `tokens.py:147`.
- *A profile announced as kept is overwritten* (`login_fallback`). Plain `login`
  at another deployment says the stored profile "is kept"
  (`anona/cli/main.py:1071`); when the deployment refuses the command-line scope,
  the MCP approval it falls back to (`login.py:437`) replaces the file.
- *A broken answer escapes the contract* (`contract`). The transports translate
  errors of sending, but the body is read outside that `try`
  (`anona/client.py:422` and `456`): a timeout or a drop there leaves as a raw httpx error,
  against "every call either returns or raises AnonaError" (line 208). A
  data command then ends in a traceback with the code that says "refused", although
  its write may have been executed; `ExitTellsTheWrite` makes an exception for it.
- *A token goes to the deployment of an older login* (`login_switch`). A command
  fixes its base URL from the login it has read (`anona/cli/main.py:500`), and
  `_cli_bearer` reads the file again without a look at the deployment
  (`anona/cli/memory.py:153-165`); the proxy compares, and then `access_token` reads
  once more (`anona/cli/proxy.py:90`). A login elsewhere in between has its token sent to
  the old deployment, against "used only for the deployment it was issued by"
  (`proxy.py:14`). `PinnedWhileQuiet` says what is left.

Disagreements met while modelling that have no run of their own, because a checked
property states them exactly, as its exception:

- *Over MCP an unknown outcome is retried.* `_send` repeats a routed write that was
  "refused", "Never retried on an unknown outcome" (`hooks/anona_sync.py:847`). But
  `Mcp.record` calls every error of the tool a refusal (lines 421-424), and "Per-tool
  failures come back as tool errors, not broken connections"
  (`skills/anona-memory/references/usage.md:19`): one that follows the storing of the
  payload has it stored a second time. This takes `ANONA_HOOK_ROUTE=auto` and no pinned
  space. `AtMostOneCopy` says that nothing else does, and that there is no third copy.
- *A cancelled `aclose` leaves a closed client in place.* `except Exception` lets a
  cancellation pass, and the line that drops the pinned client is skipped
  (`anona/client.py:3736-3739`): every later asynchronous call fails, which a bridge reads
  as "no memories". Synchronous calls after `close()` also get the client it closed
  (line 3713). `ServedUnlessClosed` allows both and no others.
- *What `list_spaces` shows.* The hooks take it for "the caller's own spaces only"
  (`hooks/anona_sync.py:398`); `usage.md:17` says "the spaces this key can see". The tool is
  the server's; `Listing` follows the hooks. Were shares listed by name,
  a write could go to one over MCP.

## 5. What is proved

TLAPS proves, for any processes and any values of the other constants that
satisfy the assumption named in each module (`LockAssumption`,
`RefreshAssumption`, `SessionAssumption`, `BearerAssumption`, `CommandsAssumption`,
`ClientsAssumption`, `HookSendAssumption`). Each module has its inductive invariant, a
lemma per action that it is preserved, and the theorems that follow from it:

- **CredentialLockProofs**: `TypeCorrect`, `Exclusion`, `Refinement`, `NoTheft`. The
  invariant is `LockInv`: while nothing was stolen, whoever relies on the lock
  owns the file that is there; and a Python process inside holds the flock.
  The first half gives exclusion before a theft, the second what remains after
  it. `PunctualInv` carries `NoTheft`: until somebody leaves a file behind, none gets
  older than the limit, so nobody is about to unlink one.
- **TokenRefreshProofs**: `RefreshTypeCorrect`, `RefreshInvariant`, `NeverReplayed`,
  `OnlyStaleRotated`, `Persisted`, `ReloginEarned`, `OnlyForward`, `PromiseKept`. None of
  the properties is inductive. `RefreshInv` (TokenRefreshInv, checked by TLC in
  `tokens`) adds what they rest on: a generation the file does not hold is known to
  one process only, the one about to save it (`GenInv`, which needs no lock, since the
  server rotates a generation once); under an unstolen lock the file does not
  change between a caller's second read and its save (`StaleInv`), so what it
  presents is current unless an earlier answer was lost (`CurrentInv`); and a late
  request belongs to a family counted as abandoned (`FamInv`). One lemma per action
  shows that it is preserved. `PromiseKept` is the refinement of RenewableLogin: each
  step of a caller, a fault or the server is one of its steps or a stutter. It adds
  `LagInv`, that the server is ahead of the file by one generation at most, and then
  either one caller has the new pair or the family was abandoned. No token of a pair
  is `NoToken`, which the assumption says.
- **SessionProofs**: `SessionTypeCorrect`, `ProfileNeverLost`, `LoggedOutForGood`,
  `NeverRetagged`, `RefreshSavesItsOwn`, about any number of commands and refreshing
  callers. `SessionInv` separates what each property rests on. That every
  credential, stored or in hand, is known at its deployment (`CredInv`) needs no lock
  at all. That a deleted login is in nobody's hand (`LogoutInv`) needs the lock not
  stolen. That a refresh under way is of the file's own login and profile
  (`KeepInv`) also needs `start`, which takes no lock, to have run alone. `JobInv` has
  what a command may rely on at each place: a login just redeemed is neither in the
  file nor in anybody's hand; a profile that is dropped was claimed or refused.
- **SessionRotationProofs**: `RotationHolds`, `SessionNeverReplays`, `StoredCanBeRenewed`,
  `ReturnedWasStored`: the properties of rotation where logins, logouts and starts
  rewrite the file beside the refreshing callers. The invariant (SessionRotation) is
  that of `TokenRefresh` in what survives: a refresh that finds the file replaced has
  nothing to save, and a replaced family is either deleted or still current. It needs
  the lock not stolen, because a theft lets an older read of the file be written back.
- **BearerProofs**: `BearerTypeCorrect`, `PinnedToIssuer`, `RightOne`, `FreshRetry`. `QuietInv` says that while nobody changes a deployment or a login, the
  file the process is about to read agrees with the base it has fixed; `StillInv`
  that a file passed over was not to be used; `GenInv` that every token
  in use has been issued, so that a rotated one is another than the refused one.
- **CommandsProofs**: `CommandsTypeCorrect`, `RunOnce`, `ExitTells`, `WaitTells`,
  `KeepsOthers`, `DeliversOnce`, `UsedUp`. The invariant `CommandsInv` says which
  requests and answers still leave a write unexecuted: one that is not yet answered,
  or was answered with a refusal. `DataInv` adds what a command knows: a merge that may
  still write has seen the other fields as they are (`MergeInv`); a write that may be
  executed late is not sent again (`LateInv`); and a wait knows of
  the jobs of its write and no other, those it saw end being as it saw them
  (`PollInv`). `DeliversOnce` is the refinement of Delivery: every step goes on
  (a stutter), ends (`Tell`) or runs the write (`Execute`, or a stutter for what may
  be repeated). `UsedUp` is the part of `EveryCommandEnds` that needs no fairness: of
  eight numbers (`Left`, naturals by the lemma `Grounded`), taken in order, every
  step of a command makes one smaller and none before it larger, but for a new
  round of polls while jobs run and there is time. The jobs of a write are assumed
  to be finitely many.
- **LoopClientsProofs**: `ClientsTypeCorrect`, `StaysOnItsLoop`, `Served`, `AllFound`,
  `ClosedLoopsLeave`. `LoopInv` ties a client to the one loop it serves; `CalmInv`, that
  an undisturbed call has a client nobody has shut or is about to; `StaleInv`, that an
  asynchronous call begins with a closed client only after an `aclose` was cancelled while
  it closed the pinned one; `KeptInv`, that every client in use is where a close
  will find it.
- **HookSendProofs**: `HookTypeCorrect`, `OneCopy`, `OwnOnly`, `NothingLost`,
  `PushedOnce`. `CopyInv` says that while the payload can still be sent
  nothing is stored but the copy of a child that was misled, and `RouteInv` that only a
  payload that Anona was to place over MCP misleads one; `ListInv` and `SpaceInv` that a
  sound list, in the cache or in hand, has only own spaces, each under a name that
  reaches no share; `LossInv`, that it has all of them, so that a child without a
  request had none to choose from. `PushedOnce` is the refinement of Delivery, from
  `CopyInv` alone: a step stores the payload or leaves it, and once neither hook, child
  nor request has it, none gets it back.

Only model-checked: the liveness properties (`EveryWaitEnds`, `EveryCallEnds`,
`EveryCommandEnds`, `EveryMessageEnds`, `EveryPushEnds`), which are out of the prover's
reach; of `EveryCommandEnds`, `UsedUp` proves what does not need fairness. Every
invariant and action property of the passing runs, and every refinement, is proved.
That `TwinsAgree` holds of the table in ApiCalls is evaluated by TLC.

## 6. What is not modelled

- Named profiles (`--profile`): separate directories, so separate instances.
- The command-line credential's own refresh: the same code on another file,
  with a lock of its own; `TokenRefresh` is one file at a time.
- A loss of power between `os.replace` and the disk: `save` does not sync, and
  the models take a replaced file as durable.
- Dashboard revocation beside commands (it is in `TokenRefresh` alone).
- The Node client, proxy and data commands (`typescript/src/client.ts`, `http.ts`,
  `cli/proxy.ts`, `cli/memory.ts` and the rest): a second implementation that shares
  nothing with the Python one at run time but the credential files, whose locks, refresh,
  login, start and logout are modelled for both. These parts have not been compared with
  Bearer and Commands.
- The lost update of two `set` commands: the API takes no precondition, so nothing
  the client does could prevent it; `SetKeepsOthers` asks only about a command's
  own retries.
- The lengths of waits and back-offs, the rate-limit snapshot (advisory numbers that
  nothing decides on), and connections left for the garbage collector.
- litellm's injected block and the adapters' mapping of types; the JSON-RPC lines
  between a hook and its bridge process, whose answers and silences are those of a
  request.
- PKCE, metadata checks, listener pages, messages, output formats, argument
  parsing, transcripts and redaction, help, completion, skills: no state, or text.

## 7. Plan

1. Proofs: what a measure like `Left` shows of a call of `access_token` and of a
   message of the proxy, whose liveness is only model-checked; an abstract
   specification of LoopClients (one connection for each loop).
2. The Node data commands and client: a second kind of process in Bearer and
   Commands.
3. Login repeated after a lost answer: with a user who comes in the end, some later
   login succeeds and no dead profile stays in its way.
4. litellm's injected block.
