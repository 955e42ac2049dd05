# Hecate Propylaea: specifications, model checking and proofs

Propylaea is an edge proxy: it takes HTTP requests of agents, checks them
against tables it syncs from a Hecate server, and forwards what passes.  This
directory holds TLA+ modules translated from its Rust source
(`crates/proxy/src/`), TLC configurations that check them on small instances,
and TLAPS proofs for every value of the constants.  `PROJECT.json` maps each
definition to the lines it stands for.

## 1. The system

| component | state | operations | hard because |
|---|---|---|---|
| identity and forwarding gate (`sync.rs`, `state.rs`, `identity.rs`, `crypto.rs`, `main.rs`, `cli.rs`) | files `proxy.key` and `proxy_id`; in memory the keypair, the id, `forwarding`, cached tokens | start-up, `bootstrap` (enrol, probe, re-enrol, wipe), `run_once`, `heartbeat_once`, `forget` | three tasks share the memory, a command of its own shares the files; crashes between two file operations; lost replies; answers that overtake each other |
| agent request verification (`validate.rs`, `nonce.rs`) | nonce cache, agents table | `verify_signed_agent_request`, `NonceCache::insert` | handlers run side by side, the clock moves between the skew check and the nonce check, the agent may be revoked or rotated meanwhile |
| release artifact cache (`artifact_cache.rs`) | blobs on disk, index, inflight map, reader counts, LRU times, `bytes_used`, `fill_lock` | `serve_or_fill`, `fill_once`, `reserve_space`, `serve_blob`, `bootstrap` | single flight with `Notify`, clients that go away, eviction beside readers and writers, book-keeping beside the files |
| rate limiter (`state.rs` 44-68, 198-272; classes in `allowlist.rs`) | a window per client and class | check, unban, report | cap on entries is check-then-insert, cleanup in between |
| agent and token directory (`sync.rs` 222-252, `state.rs` 180-195, `validate.rs` 72-117, `main.rs` 185-222) | `agents`, `enrollment_tokens` | refresh by `run_once`, upsert and consume by a forwarded enrolment, `precheck_enroll` | refresh is clear-then-insert, two refreshes interleave, a refresh may be older than an enrolment |
| request pipeline (`main.rs` 131-232, `forward.rs`) | none of its own | `handle_request` | order of gate, limits, verification and forwarding |
| routing and header filters (`allowlist.rs`), client address (`client_ip.rs`, CIDRs in `config.rs`), signing (`signing.rs`), configuration (`config.rs`, `cli.rs`) | none | pure functions | boundaries |
| release versioning (`ci/*.sh`) | git tags | compute and push the next version | pipelines race |

How they interact: `serve` (main.rs 54-129) builds `AppState` from the files
and spawns the bootstrap task, the sync loop and the heartbeat loop.  They call
Hecate and change the tables and the gate; request handlers read both.  A
handler asks the gate, the rate limiter and the verification before it forwards,
through the artifact cache if the route is a release artifact; an enrolment is
checked against the cached tokens instead, and its answer changes the tables.

What makes each part correct:

* identity: the two files are never a mixture of two enrolments; a restart never
  falls back behind the working pair of a running process; working credentials are
  not thrown away; the gate opens only for approved identities, closes after a
  revocation and opens again after an approval;
* verification: no replay within the window of valid timestamps, nothing
  accepted under an entry that is gone;
* artifact cache: one filler per path, every request ends, the books match the
  files, what is served was confirmed by Hecate;
* rate limiter: per client and class at most the quota per window, nobody refused
  for another's traffic, whoever is refused can be unbanned, the map stays bounded;
* directory: converges to Hecate's tables, a consumed token ends up refused,
  nothing is accepted under a key that Hecate never had on record.

## 2. Modules

| module | models |
|---|---|
| `ControlPlane` | identity and forwarding gate, with Hecate and the operator as environment |
| `ControlPlaneInv` | the inductive invariants of the proofs, as TLC checks them |
| `ControlPlaneProofs` | type correctness, for all constants |
| `ControlPlaneIdentity` | `DiskPairAccepted` |
| `ControlPlaneCredentials` | `WorkingCredentialsKept`, `WorkingPairOnDisk` |
| `ProxyGate` | abstract specification of what the proxy promises about its identity and its gate |
| `ControlPlaneGate` | `ForwardingApproved`, and that `ControlPlane` implements `ProxyGate` |
| `AgentRequests`, `AgentRequestsProofs` | verification of signed requests and the nonce cache, with proofs |
| `AgentDirectory`, `AgentDirectoryProofs` | the tables of agents and tokens, composed with `AgentRequests`, with proofs |
| `Quotas` | abstract specification of what the rate limiter promises |
| `RateLimiter`, `RateLimiterProofs` | the rate limiter, and that it implements `Quotas` |
| `ClientAddress`, `RequestIntake` | under which address and class a request reaches the rate limiter |
| `ArtifactCache`, `ArtifactCacheProofs` | the release artifact cache, with proofs |
| `MC...` | constants for TLC |

Definitions marked "Mutation" are deliberate faults: each property of a passing
run is violated when the mapped definition after it is replaced by one of them.

### ControlPlane

Variables mirror the code: `keyFile`, `idFile` are the files (a value, `None`,
or `Torn`: created or truncated but not written), `memKey`, `memId`,
`forwarding`, `cachedTokens` are fields of `AppState`.  `boot` is a program
counter over start-up and `bootstrap()`; the sync and heartbeat loops need none,
because each has at most one HTTP call outstanding.  `request[t]` is what task
`t` sent (and, in a rotation, the key it holds in memory until it is on disk),
`answer[t]` what came back.  A task is cut at every await and at every file
operation; a synchronous piece between two of them is one action.  A key or an
id is persisted in three: the file is truncated or created (`OpenKey`,
`OpenId`), written (`WriteKey`, `WriteId`), and then, after `sync_all` and an
await, memory follows (`SwapKey`, `SwapId`).  `BootWriteFails` ends the task at
any of them: if `sync_all` fails, the file is whole and memory keeps the old
value, for as long as the process runs.  `clear_proxy_identity` is six actions
(`WipeIdFile` to `WipeGate`); of these `WipeKey` reads the key back and replaces
it in one, as only a `forget` beside the process could write in between.  A 200
is applied in two (`SyncClears`, `SyncApplies`), since `run_once` empties and
refills the tables entry by entry while others read them.  The command `forget`
is a process of its own: `ForgetId`, `ForgetOpen` and `ForgetWrite` on the
files, `ForgetDone` when it ends well, `ForgetCrash` when it fails or is
interrupted at any of them.

*Abstractions.*  A signature is the key that made it.  Keys are drawn once
(`Draw`).  The HTTP statuses are the verdicts the code distinguishes: success,
401, 403, the rejections of `should_reset_identity_for_enroll`, and everything
else (`failed`, which includes transport errors, timeouts and unusable bodies).
The time between two ticks of a loop is arbitrary.  A crash loses memory and
outstanding calls; what Hecate did stays done, since a lost reply is its own
outcome (`lost` in `HecateEnrolls`).  A file that was truncated or created and
not written whole stays `Torn`; one that was written whole keeps it when the
process or its host stops.

*Hecate and the operator* are not in the repository.  A signed call
authenticates if the id is known and the key is the registered one (otherwise
401); a known proxy that is not active gets 403.  A token is one-shot; a token
bound to a proxy re-registers that proxy's key, a generic one creates a proxy
and refuses a `proxy_id`.  The operator starts the process with any allowed
environment, may run `forget`, approve, revoke and, with `MayDelete`, delete.

`ProxyGate` is what an administrator sees of all this: a proxy
keeps an identity (`Keep`: the file is whole) before it takes it up (`Load`: at
once, at a later start or never), keeps it over restarts until it is told to
forget it, and opens its gate only under an identity that was approved.  `KeepsIdentity` is
`Gate!Spec` under the mapping that reads the identity from memory, the kept one
from a whole id file and the gate from `forwarding`.  It says more than
`ForwardingApproved`: a running process never loses or changes its identity, on
disk or in memory, and what it takes up at a start is what was kept.

### AgentRequests

A handler's check is two actions: `Check` (clock, skew, entry, signature) and
`Accept` or `Replay` (under the mutex of the nonce cache).  In between up to
`Pause` ticks pass.  The agent's table entry is read-locked from its lookup to
the handler's return (a `DashMap` reference is held), so `Put` waits for it.
Wall clock and monotonic clock are one clock.  A refused request changes
nothing, so only those that pass the first half appear.

### ArtifactCache

A request is a record with the stage it has reached in `serve_or_fill`,
`fill_once`, `reserve_space` or `serve_blob`, and the locals that live across
awaits (`known`, `got`, `used`, `todo`).  An artifact is its digest; `lastUsed`
orders digests by their last use; `inflight[p]` is the request whose `Notify` is
registered.  `Subscribe` is apart from `Arrive` because `notify_waiters` keeps no
permit for a `Notify` that was cloned but not yet waited for.  A client that
goes away drops its handler at an await (`Cancel`); an inflight entry it leaves
behind becomes `Orphan`, a `Notify` nobody will ever fire.  `answer` remembers what
Hecate said is current.  In an eviction the unlink may fail, which the code
ignores (`EvictRemove`, with `MayFailUnlink`): the blob stays and `EvictSettle`
takes it off the books all the same.  `unlinkFailed` is history: whether that
ever happened, and whether since the last start, which counts the files afresh.
A blob may also be unreadable although it is there (`ReadBlob`, and the metadata
of a victim).  Temporary files are left out; the few synchronous map accesses of
`serve_blob` (332-345) and of the end of `fill_once` (299-311) are one step each.
No digest is in `lastUsed`, in the index of a path or in the list of an eviction
twice (`TypeOK` says so), so taking one out is `RemoveFirst`.  `TotalSize` counts
the bytes of a set of blobs, as `bootstrap` does, as the size of the set of those
bytes; so it needs no order of summation.

### RateLimiter, Quotas, RequestIntake, ClientAddress

`check_rate_limit` reads the clock once and then accesses the map up to four
times; each access is one step of a handler task (`FindFull`, `Cleanup`,
`FindRoom`, `FindClient`, `Count`), and other checks, unbans and ticks come in
between.  A window keeps its age instead of its start and a check the lag of its
clock, so the clock itself needs no bound; `Pause` bounds the lag.  `len()` and
`retain()` are one step each, although `DashMap` goes from shard to shard.

`Quotas` says what is promised: a client has at most `Limit` requests of a class
admitted in a window, a window lasts `Window` ticks and begins at most `Late`
ticks in the past, only a spent quota refuses a client that has a window.
`KeepsQuotas` is `Quota!Spec` under a refinement mapping: `Ages` (no entry, no
window), `Spent` (the counter up to the limit, since refused requests count
too), `Told` (what a handler task asked or was told).

`RequestIntake` puts in front how `handle_request` comes to the client and the
class (`Arrive`).  The gate's 503 and the limiter's 404 for unknown routes change
no state and are no steps.  A path is represented by the row of the route table
it matches and whether it is canonical.  `ClientAddress` does the CIDR match with
mask and shift on words of the family's width, where a shift takes its amount
modulo the width as the machine does; `CidrMatches` (in `MCRateLimiter`) compares
it, for every CIDR and address of three and of two bits, with a comparison bit by
bit.

### AgentDirectory

The tables of agents and of tokens, and everything that changes them: a sync of
the bootstrap task or of the loop that clears and refills the agents entry by
entry, in any order (`Clear`, `Fill`), then empties the tokens and learns them
one by one (`ClearTokens`, `LearnToken`), and opens the gate;
and handlers that enrol an agent (`PrecheckEnroll`, Hecate's answer,
`UpsertAgentFromEnroll`, `RemoveToken`).  What a sync applies is what Hecate had
when it answered (`task[t].agents`, `task[t].tokens`), and any number of steps
of others may lie between.  The verification is `AgentRequests` itself, by
`INSTANCE`: its variables are shared, its `Put` is what `Clear`, `Fill` and the
upsert do, and `VerifiesRequests` says that the whole is one of its behaviours,
so what is proved of it holds beside refreshes and enrolments.

Two syncs that interleave may thus leave the union of two answers.  `opened`
stands for the gate: a handler reads it once and may go on for any time after it
was closed.  The expiry of tokens and the tokens for proxies are left out.
Hecate is external: agents are recorded, rotated, revoked and removed, tokens
issued, and an enrolment takes up an unused token for the machine it is bound to
or for a new one.  `registered` is history: all that Hecate ever had on record
for an agent.

## 3. Runs

| run | bounds | what it shows |
|---|---|---|
| `identity` | 2 proxies, 3 keys, 3 tokens (two generic, one bound), every environment, deletion allowed | `DiskPairAccepted`, `WorkingPairOnDisk`, `WorkingCredentialsKept` |
| `gate` | 2 proxies, 3 keys, 2 generic tokens, never forced, no deletion | `ForwardingApproved`, `KeepsIdentity` (refinement), `RevocationStops`, `ReadyForwards` |
| `requests` | 1 agent, 1 nonce, 2 keys, 2 tasks, skew = lifetime = 2 ticks, pause 1, 5 ticks | `SpacedByTtl`, `AcceptedOnce`, `AcceptedUnderCurrentEntry` |
| `rate_limits` | 2 handler tasks, 3 clients with room for one, 2 classes with a quota of 1, window and pause of 1 tick, counters up to 2 | `CapOvershoot`, `RefusedIsReported`, `KeepsQuotas` (refinement), `CountedUnderPeer` |
| `directory` | 1 agent, 1 key, entries active or revoked, 1 unbound token, 1 handler that enrols, 1 that verifies, 2 changes at Hecate, 1 restart, 1 tick | `AcceptedWasRegistered`, `VerifiesRequests` (refinement), `Converges`, `SpentTokensRefused` |
| `cache_fill` | 2 requests, 2 paths with a common artifact, room for one blob, clients may go away, unlinks succeed | `SingleFlight`, `ReadersCounted`, `EntryHasLeader`, `LockHeldByEvictor`, `RequestsEnd` |
| `cache_books` | 1 request at a time, 2 paths, 4 artifacts, room for two, p2 without content-length, unlinks may fail | `BudgetExact`, `IndexedBlobsExist` |

Why the bounds are enough: three keys are the first key, one that is offered in
a rotation and one that a wipe draws; two generic tokens and two proxies allow a
second enrolment after a wipe or `forget`; in `requests` five ticks let a nonce
expire and be taken again while a timestamp from before or ahead of the clock is
still valid; in the cache a second artifact always forces an eviction and the
common one is read through one path while the other evicts or stores it.  In
`rate_limits` one client fills the map, so the second is cleaned up after or
refused and the third overshoots; with a pause as long as the window a check's
clock may lie before the window it finds, and the requests come from trusted and
untrusted peers of both families, with a hop that is an address, one that is
not, and no header at all.  In `directory` two changes are an enrolment and a revocation or removal
after it, or two changes made elsewhere, each of which a sync of either task, a
lost or late answer and the restart can meet at any point; further agents and
keys only add independent entries, and the theorems cover them.  `Skew = 0`
leaves a stamp valid in its own tick, which is enough for a check that spans a
refresh.
`ReaderBound` and `ExcessBound` stop new requests once a leaked reader count, or
what `bytes_used` is above the budget, has grown beyond them; requests in
progress go on.  In `cache_fill` unlinks succeed, because with failures the
liveness check takes too long; `SingleFlight`, `ReadersCounted`, `EntryHasLeader`
and `LockHeldByEvictor` are proved for either value of `MayFailUnlink`, and an
eviction goes on after a failed unlink as after one that succeeds.
`KeySymmetry` and `TokenSymmetry` only exchange values no definition names.

In `gate` a signed call is never unauthorized, for nothing is deleted or forced;
what it explores is how the three tasks' stale answers meet approvals,
revocations, crashes and `forget` with a second enrolment.

### Where code and documents differ

| run | shows |
|---|---|
| `forced_reenroll` | With `PROXY_FORCE_REENROLL=1` left set, a rejected token makes `try_reenroll` wipe credentials that work (the run ends when their `proxy_id` is deleted); sync.rs 126-127 and the changelog promise that a rejected leftover token does not. |
| `forced_liveness` | Only a 403 closes the gate.  After a rotation that Hecate accepted but whose reply was lost, all calls get 401, the gate stays open, and a revocation cannot close it; architecture.md 20 says it fails closed. |
| `live_forget` | `forget` run to its end beside a serving process does not stop it from forwarding; install.md 26 says it does. |
| `cache_cancelled_leader` | A leader dropped with its client leaves the inflight entry: the path answers 503 until a restart. |
| `cache_rollback` | A 304 that confirms an older digest is answered with the newest cached blob. |

Further observations made while modelling, without a run of their own:

* with MayCancel = FALSE `WaitsForAFill` fails as well: a leader that finishes
  between a follower's `get` and its `notified()` wakes nobody, and the follower
  answers 503 after 120 s;
* with deletions or forced starts a 200 that was sent before a wipe opens the
  gate when it is applied after it, for a process without an id or with a new,
  unapproved one (`ForwardingApproved` fails with MayDelete = TRUE);
* after a `sync_all` that failed behind a whole write the process goes on with
  the old key, or without an id, while the next start takes up the new one
  (`BootWriteFails` in the stages `swapKey` and `swapId`): the disk may be ahead
  of memory, never behind it (`WorkingPairOnDisk`);
* after a failed unlink the blob takes space that the byte count no longer
  shows, until the next start counts it, so until then the directory may exceed
  the budget; the start itself does not evict;
* a crash between truncating and writing either file makes every later start fail;
* concurrent fills make `bytes_used` drift from the files (an eviction's `store`
  undoes another's `fetch_add`; two fills of one blob add it twice), a failed
  read keeps its reader count, and a fill that finds its blob just before an
  eviction removes it indexes a blob that is gone, after which every 304 for the
  path is a 503.

## 4. Fairness

Safety properties need none.  `ControlPlane!Fairness`: the sync loop never ends
(main.rs 77-86), so sending and receiving are weakly fair; a request ends with
an answer or the client's timeout (state.rs 73-78), but it may fail, so being
answered is strongly fair: a proxy that asks for ever is answered again and
again.  Nothing is assumed of the bootstrap task, the heartbeat, the operator or
of crashes.  `ArtifactCache!Fairness`: every await of a request ends (file
operations return, upstream calls end, a follower waits 120 s at most), and
tokio's mutex is a queue, hence strong fairness for `Reserve`.

`AgentDirectory!Fairness`: as above for the sync loop; a task that applies an
answer waits for locks on entries that handlers hold for a moment again and
again, hence strong fairness for `Apply` and `Handle`; a verification does not
await anything (weak fairness for `Decide`); an enrolment ends with an answer or
the client's timeout (state.rs 73-78).  Nothing is assumed of Hecate's changes,
of restarts or of new requests.  The rate limiter has no liveness property: no
step of it waits for another.

## 5. Proofs

All theorems are checked by TLAPS for every value of the constants that meets
the named assumptions.

* `TypeCorrect`: `Spec => []TypeOK`.  The type invariant is inductive; the proof
  has one lemma per group of actions.
* `DiskPairIsAccepted`: under `~LiveForget`.  `DiskPairAccepted` is not inductive:
  that the key being written belongs to the id on disk depends on what the
  bootstrap task offered, what Hecate accepted and that no id file exists during a
  wipe or an enrolment.  `IdentityInv` says this for each stretch of `boot`
  (`KeyBeforeId`, `MemoryFollows`, `WithoutId`, `Offer`, `ForgetAlone`).
* `CredentialsAreKept`: under `~LiveForget`.  `CredentialsInv` adds that keys on
  disk, in memory or on offer were all drawn (`KeysDrawn`), so a newly drawn key
  never coincides with one in use, that a bootstrap task about to replace or
  wipe the identity was forced to or knows that the credentials are dead
  (`ReplacedOnlyIfDead`): a 401 stays true, because no administrator's decision
  and no enrolment revives the key on disk; and that from the acceptance of a
  rotation on Hecate has the new key (`NewKeyOnRecord`).
* `NoncesAreSpaced`, `RequestsAcceptedOnce`, `AcceptedUnderCurrent`: from an
  invariant that every accepted nonce is still recorded for `Ttl` ticks and that a
  check in progress was valid at its start, no longer than `Pause` ago, against an
  entry that is still there.  `Skew <= Ttl` is assumed (both are five minutes).
  `AcceptedOnce` is limited to timestamps that are not ahead of the clock: the
  window reaches as far into the future as into the past, so a request stamped
  ahead outlives its nonce.

* `GateOpensForApproved`: under `Undisturbed` (`~LiveForget`, no deletion, never
  forced), without which it is false.  `GateInv` adds to `IdentityInv` that no
  credentials on disk are ever dead (`NeverDead`), so that no call gets a 401 and
  nothing is replaced or wiped (`NothingReplaced`); that what a running process
  has in memory is on disk (`DiskFollows`); and that every signed call in progress
  is about the id and key in memory, its 200 for a proxy that was approved
  (`CallsCurrent`), so that no stale answer opens the gate for another identity.
  (`GateInv`, given to TLC in place of `ForwardingApproved`, holds on the
  instance of `gate`, also with a bound token.)
* `IdentityIsKept`: under `Undisturbed` too, every step is a step of `ProxyGate`
  or none, from `GateInv` before and after the step.  The steps that matter are
  those that write an id and take it up: the bootstrap task writes one only where
  neither memory nor disk has one (`WriteId` is `Keep`), and what it or a start
  then takes up is the kept one (`SwapId`, `LoadId` are `Load`); a `sync_all` that
  fails in between leaves a proxy that keeps an identity it has not taken up;
  `forget` is alone (`ForgetAlone`), and nothing is wiped (`NothingReplaced`).
  When a re-enrolment is forced it is false: a wipe takes the id file away first,
  then the id in memory, and closes the gate last.
* `WorkingPairIsOnDisk`: under `~LiveForget`, from `CredentialsInv`.  The disk is
  ahead of memory after `WriteKey` and `WriteId`, for good if `sync_all` failed.
  In a rotation Hecate has the new key by then (`NewKeyOnRecord`), so the pair in
  memory no longer works; in an enrolment memory has no id, hence no pair.
* `AgentRequestsProofs!TypeCorrect`, `RateLimiterProofs!TypeCorrect` (no counter
  ever runs over), `AgentDirectoryProofs!TypeCorrect`: the type invariants.
* `CapHolds`: the entries there are, together with those that checks past the
  test for room are about to count (`EntriesBounded`), stay below the cap plus the
  number of tasks: a check passes the test with room left, or with an entry that
  only a cleanup can take, and each task has one check.  The handler tasks are
  assumed to be finitely many.
* `RefusedAreReported`: a check that finds its quota spent leaves a counter above
  the limit, since refused requests count and the counter saturates only at
  `MaxCount`, which is above every limit.  It needs the type invariant alone.
* `QuotasKept`: every step of the limiter is a step of `Quotas` or none, from the
  type invariant alone.  The step that matters is `Count`: a window that is over
  for the check's own clock begins anew with the check's lag as its age.
* `VerificationUndisturbed`: every step of the directory is a step of
  `AgentRequests` or none; in particular nobody changes an entry that a handler
  reads.  `DirectoryAssumption` implies the assumption of `AgentRequests`, so by
  TLA's rule of instantiation `NoncesAreSpaced`, `RequestsAcceptedOnce` and
  `AcceptedUnderCurrent` hold of the directory.  That last step is on paper: the
  prover cannot cite a theorem of an instantiated module.
* `OnlyRegisteredAccepted`: `DirectoryInv` says that every entry, cached, in an
  answer still to be applied or in an enrolment under way, was on record at
  Hecate, and so was the key of every check in progress.
* `OneFiller`, `EntriesHaveLeaders`, `ReadersAreCounted`: `CacheInv`.  Who is
  filling a path is who is registered for it (`FillerLeads`) and the entry of a
  path is that of a filler (`EntryHasLeader`): each needs the other, since a
  leader is elected only where there is no entry.  `ReadersCounted` follows by
  counting the requests that read a blob, which are assumed to be finitely many
  at a time (`IsFiniteSet(Requests)`).
* `ArtifactCacheProofs!TypeCorrect`: `TypeOK` says that no digest is listed twice.
  It is not inductive, as an eviction takes the `Tail` of its list; `TypeInv`
  adds `Victims`: an eviction that is about to remove a blob, or to settle it,
  still has it in its list.  It rests on lemmas about sequences without
  repetitions (`WithoutFirst`, `OneMore`, `FirstOff`): what `RemoveFirst`,
  `Append` and `Tail` do to the set of elements, and that such a sequence is no
  longer than there are digests.
* `LockIsHeldByEvictor`: inductive together with `CacheInv`.
* `BudgetIsExact`, `IndexedBlobsAreThere`: under `OneAtATime` (at most one request
  is not idle) and `NoneDropped` (no client goes away), as hypotheses about the
  behaviour and for any number of requests, because both properties are false
  otherwise (below "Further observations").  Restarts, failures, evictions, failed
  unlinks and releases at Hecate are unrestricted.  `BudgetExact` says what a
  failed unlink costs: until the next start the books lack that blob, and the
  budget holds only if no unlink ever failed.  They are about idle moments, so
  `BooksInv` says for each stage of the one request how the books lag behind the
  files: an eviction has removed a blob, or failed to, that byte count, order and
  index still have (`settle`); a stored blob is not counted yet (`count`) or not
  listed yet (`index`).  `TotalSize(blobs \ Unmeasured) <= Budget` is the bound:
  what came with a length fits, whatever came without one.  That an eviction makes
  the room it looks for needs that `used` is the byte count (nobody else changes
  it) and that a blob removed takes exactly its size off the total
  (`OneMoreSize`). (`BooksInv`, given to TLC with two requests kept one at a time,
  holds.)

Only model-checked: `CountedUnderPeer`, whose module uses `Bitwise`; and every
liveness property (`RevocationStops`, `ReadyForwards`, `RequestsEnd`,
`Converges`, `SpentTokensRefused`), since the prover handles neither fairness
nor `ENABLED`.  Induction over data and RECURSIVE operators are out of its reach
too; the modules that are proved about use neither.

## 6. Not modelled, and the plan

Not modelled for good: request signing (calls into cryptographic libraries),
configuration and command line (environment variables parsed once, the models'
constants), the text of paths and header lists (pure functions over strings,
with unit tests beside them), body limits and the streaming of answers (no
state), permissions of files, logging, packaging, and the release scripts in
`ci/`, whose race is decided by the CI server and the git remote, neither of
which is in the repository.

What could follow:

1. `AgentDirectory` over `ProxyGate` instead of `opened`, so that requests are
   verified only by a process whose identity was approved;
2. an abstract single-flight specification that `ArtifactCache` implements;
3. `retain()` of the rate limiter shard by shard.
