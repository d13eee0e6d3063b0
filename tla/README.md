# agent-mvp in TLA+

TLA+ models of the agent host in this repository, their model-checking runs
(TLC) and machine-checked proofs (TLAPS). The modules are translated from the
Rust source; `PROJECT.json` maps every definition to the lines it models.

## The system

An `App` runs *tools* for an agent. A tool does nothing by itself: it asks
access facades (files, network, Monty sessions) for an effect; the facade turns
the request into an *action*, has the *policy engine* grant it, and executes the
granted action. Tools may invoke other tools. There are no threads of the
host's own: everything is `async`, calls interleave at every `await`, and a
caller may drop a future at any of them. Only the memory store of sessions, the
counter of grants and the file system are shared between calls.

| Component | State | Operations | What makes it correct |
|---|---|---|---|
| vocabulary, `crates/contract` | none | constructors | – |
| grant protocol, `crates/core/src/policy` | `NEXT_GRANT_ID` | `grant_with_engine` | an id per grant, an answer per call |
| policy pipeline, `crates/kernel/src/policy` | three kinds of policy queue, `next_policy_id` | prepend/append × inbound/typed/outbound, `decide`, `grant` | the envelope gates everything, the first decisive answer wins, the report says which |
| audit, `crates/kernel/src/audit.rs` | the event stream | `record_*` | one true record per answer; capability events explain the sets in use |
| host, `crates/app` | `tools` | `register`, `invoke`, `invoke_tool` | capabilities only narrow on the way down; calls come back |
| built-in tools, `crates/tool-builtin` | none | `read_file`, `write_file`, `double` | `double` is two calls, or stops at the first error |
| files, `crates/access-fs` | the workspace | `read_file`, `write_file`, policies | effects where the granted path leads, and nowhere without a grant; undisturbed accesses are whole |
| network, `crates/access-network` | none | `fetch_url`, policies | a fetch only of what was granted; hosts matched by whole labels where they are read right |
| Monty sessions, `crates/access-monty` | the session store | `load`, `save` | sessions apart, each access atomic |
| Monty tool, `crates/tool-monty` | a REPL per run | `execute`, `drive`, OS calls, conversions | a session is what its runs left; classification covers what was seen; values survive their way |
| test support, `crates/test-support` | `MockKernel.tools` | `register`, `invoke`, `invoke_tool` | what the tests run on behaves like the application |
| demo, tracing set-up | – | – | – |

Hard behaviours: policies, tools and stores awaited in the middle of an
operation; futures dropped there; state loaded before and saved after arbitrary
nested work; tools that nest without limit, themselves included; a file system
that others change, and accesses to it that go on after their caller is gone.
`PROJECT.json` lists the hazards, each at its line.

## The modules

| Module | Models | State ↔ code |
|---|---|---|
| `PolicyContract` | `crates/contract`: answers, evaluations, outcomes, records | definitions only; a policy id stands for name and reason |
| `Authorizer` | abstract: what the rest of the host may expect of `grant` | – |
| `PolicyPipeline` | registry, pipeline, `grant_with_engine`, grant records | `inbound`, `typed`, `outbound`, `nextPolicyId` are `PolicyRegistry`; `pc`, `stage`, `pos`, `evals`, `outcome`, `grantId` are the locals of one `grant` future; `nextGrantId` is `NEXT_GRANT_ID`; `audit` the events of `record_grant` |
| `PolicyPipelineProofs` | theorems about it, `Authorizer` among them | – |
| `AgentHost` | `App`, the tool protocol, `double`, tools of one access, and any custom tool | `tools` is `App.tools`; every invocation has a place in `Inv` with the fields of its `AppToolContext`; `audit` the two capability events |
| `MockHost` | `MockKernel`, and through it abstract: a host as the tests of the other crates know it | `tools` is `MockKernel.tools`; the tree of invocations as in `AgentHost`; `scopes` the nested-scope events |
| `AgentHostProofs`, `AgentHostTreeProofs` | theorems about the host: capabilities, types and `MockHost`; nesting, Double, its cost, and the trail | – |
| `MontySession` | `MontyTool::execute`/`drive` over `MemoryMontySessionStore` | `store` is the map of the store; the other functions are locals of a run; `saved`, `received`, `overlapped` are history |
| `MontySessionProofs` | theorems about it | – |
| `MontyCalls` | `drive` and `execute` again, with values in place of histories: what the code may call, the payload of a call, `MontyOsTool`, the input and outcome of `read_file` and `write_file` | `files` is what the file tools reach; `held` and `class` are the values of the REPL and the classification of a run, `session` the values stored; `detached` are the files that writes of dropped runs still change; the rest is history. The conversions of values are parameters |
| `MontyCallsProofs` | theorems about it, for any conversions | – |
| `MontyValues` | the conversions of `MontyTool`, which the run of `MontyCalls` takes for those parameters | operators only |
| `NetworkAccess` | `fetch_url`, both policies, both backends | `pc`, `holds` are locals of a fetch; a request is the parts of a URL by its syntax (RFC 3986); the code sees `Text` of it |
| `NetworkAccessProofs` | theorems about it | – |
| `FsAccess` | `FsAccess`, `CanonicalPath`, the six file policies, `StdFsBackend` | `inode`, `link`, `data`, `gone` are the file system; `pc`, `target`, `existed` are locals of an operation; `task`, `handle`, `written`, `result` are its access in the blocking pool; `overlapped`, `unfollowed`, `relinked` are history |
| `FsAccessProofs` | theorems about it | – |
| `NumberLemmas` | lemmas the proofs share: induction over numbers, powers of two | – |
| `MC*` | instances for TLC | – |

How they fit: the pipeline is proved and checked against policies that may
answer anything. `Authorizer` is what it promises, and run `pipeline_concurrent`
checks the refinement. `NetworkAccess`, `AgentHost`, `MontySession` and `FsAccess` use that
promise in place of the pipeline: a grant is one step that may always refuse
and may allow only what the capabilities (and, in `FsAccess`, the installed
policies) cover. A run of Monty is a `custom` tool to `AgentHost`; `FsAccess` is
the inside of an `access` tool. The two modules on Monty divide the tool:
`MontySession` has runs that overlap and knows a session as the runs it went
through; `MontyCalls` has runs one after the other and knows a session as values.

`MockHost` is the second host of the repository: `crates/test-support` repeats
registration, the tool context and `invoke_tool`, and the tools are tested on that.
A tool of `MockHost` does anything its capabilities cover, so every step of
`AgentHost` must be one of its steps (`ImplementsMock`): were the attenuation, the
scope events or the registration of the two hosts to drift apart, the tests would
say nothing of the application. What the application does beyond it, the event
for an override of what a tool declares, is left out by the mapping of `scopes`.

Deliberate abstractions:

- Reasons, predicates, audit fields and spans are wording. Inputs are reduced to
  what decides: which path a `double` unwraps, which session a run names.
- A policy is what it may answer. It has no state in the model, and may answer
  differently each time.
- Registration is possible between calls only (`&mut self` on `App` and
  `PolicyPipeline`). Replacing the pipeline as a whole through `kernel_mut` is
  not modelled, so the envelope that `KernelRuntime::new` installs stays.
- A REPL is the sequence of runs whose code it was fed. What the interpreter
  does with a call's result, and what it decides to call next, is arbitrary; so
  is whether a stored REPL loads.
- Error kinds of custom tools are one kind.
- Paths are sequences of components. A path is walked by the links there are at
  that moment, each time it is used: when it is probed, when it is resolved, and when the
  backend opens it. Other programs remove the files and links of `Touched` and make
  links there. A directory is not replaced by a link, there are no hard links, and a
  walk takes at most `MaxHops` steps (the kernel has such a bound, too).
- Values are tagged with their kind. Numbers have a small word size with the rules of
  `i64`, `u64` and `f64`; objects and dicts are compared without order; JSON for kinds
  of the interpreter that are not listed in `monty_to_json` is arbitrary.
- An access in `MontyCalls` is refused, succeeds, or is a write that fails half way
  and leaves some of its text (`Cut`). It is one step for a run that waits for it; what a
  dropped run was writing is any text from then on, until that write ends, since it
  may mix with others. `FsAccess` has how. A path argument leads to one file, or to none that
  the policies let through.
- URLs are made of words and of the separators of their syntax. Every such text is that
  of some request; nothing is assumed of it but where its parts begin. Words are compared
  as they are written, since the code does not look into them either: letter case, escapes
  and the brackets of IPv6 are not modelled.
- Files are sequences of pieces. `tokio::fs` opens by path, goes through the
  file piece by piece at its own offset, and is not stopped by dropping the
  future; these are modelled from how `StdFsBackend` uses them.
- Slips: definitions marked *Slip* are wrong variants of the definition that
  follows, used to see that each property can fail. No specification uses them.

## What the runs check

| Run | Instance | Properties |
|---|---|---|
| `pipeline_order` | 1 call, 2 action types, ids up to 4 (the envelope and 3 more policies) | `EnvelopeGate`, `EnvelopeInv` (its inductive form), `ReportExplainsOutcome`, `PolicyIdsUnique`, `CallsAnswered` |
| `pipeline_concurrent` | 2 calls, ids up to 3 | `TypeOK`, `GrantIdsUnique`, `AuditFaithful`, `ImplementsAuthorizer` |
| `host_double` | 1 call, payloads up to a Double of a Double of a read, 8 invocations | `DoubleIsTwice`, `DoublingBound`, `CallsReturn` |
| `host_custom` | 2 calls, 3 invocations, 2 capabilities, 3 tools of which one has no valid spec | `TypeOK`, `EffectsWithinCall`, `NestedWithinParent`, `CapabilitiesAudited`, `NoneOutlivesParent`, `ImplementsMock` |
| `session_overlap` | 3 runs, 2 workspaces, up to 2 tool calls per run | `TypeOK`, `SerialRunsAccumulate`, `StoredIsSavedHistory`, `SessionsIsolated`, `OkIsSaved`, `CallerSupersedes`, `ClassificationCovers` |
| `session_ends` | 3 runs of one session | `RunsEnd` |
| `session_persist` | 2 runs of one session | `OkRunsPersist`, **violated** |
| `fs_grants` | 2 operations of 5 requests: a file by its name and by one with `..`, a new file, a link to what is not there; the file may be removed and made a link to a file next to the workspace | `AccessAsGranted`, `OperationsEnd` |
| `fs_overlap` | 3 operations on one file of 3 pieces, writes of 2 | `TypeOK`, `WritesIntact`, `ReadsIntact`, `PiecesKeepTheirPlace` |
| `fs_root` | 1 operation | `RootStaysCanonical`, **violated** |
| `monty_calls` | 2 runs, up to 2 values held, 5 literals, integers of 4 bits and floats of 3, one file and 3 texts for it | `ResultsPassOn`, `PayloadsTellCallsApart`, `FileToolsTakeOneDict`, `SessionExplained`, `WritesReported` |
| `network` | 2 fetches, 7 hosts with 3 continuations each, user information, queries at the host, no scheme | `DomainByLabels`, `FetchAsGranted`, `FetchesEnd` |

Why the bounds are enough. *Pipeline:* three policies besides the envelope put
something before, behind and after it in every queue combination, with every
answer of each; two calls are enough to share a counter or a trail, and the
theorems cover any number. *Host:* two layers of Double need seven
invocations (1 + 2 + 4), and there is room for one too many;
for custom tools three invocations give a chain of depth three, or one parent
with two children, or two calls side by side. *Sessions:* three runs give nested
runs that overlap an outer one, and overlaps of three; two tool calls let a
classification go up, and down again. *Files:* a write shorter than what was
there leaves a rest if it were not truncated; two pieces suffice for a mixed
file and for a hole; a link that leads nowhere and one that appears between grant and
access are the two ways in which a path leads somewhere else than it did, and two hops
follow either. *Values:* 4 bits hold a number of every kind (below, at
and above the largest signed one, and those that round up and down as floats), and
one answer lists them all; two values are what it takes to pass a result on with
another one, and two runs to find a value of an earlier run; three texts are nothing,
some and all of a write. *Network:* the
hosts are the domain, one below it, one that only ends like it, one that starts
like it, its last label, the domain with a last dot, and none; of each way in which
`extract_host` reads something else there is a URL. The runs use symmetry over calls, runs and operations only where no
liveness is checked; the next-state relations treat them alike.

`CHECK_DEADLOCK FALSE` everywhere: calls are finite in number, and a host that
has answered all of them stops.

### Fairness

Weak fairness of the steps of each call, invocation, run or operation, and
nothing else: the executor polls futures that are ready, and the policies,
backends and interpreter it awaits are assumed to answer (the interpreter has
`ResourceLimits`, the blocking pool a thread for every task, and the network
backends of the repository answer from memory). Registrations, new
calls, drops, and what a custom tool or Monty code chooses to call are never
forced.

### What the Monty runs say

`ResultsPassOn`: a tool that is handed an earlier result gets what that tool
answered, but for numbers above `i64::MAX`, which are floats from then on and
do not change again. `PayloadsTellCallsApart`: a payload shows which arguments it was
made from, unless the only one is a dict that looks like the arguments of
another call: `CallOf` is how a tool reads them off it. `FileToolsTakeOneDict`: a file tool exposed to code is reached with a dict
alone; `read_file("f")` and `read_file(path="f")` do not parse.
`WritesReported`: what the code is told of a write is true as far as it goes. Success
means that all of the text is in the file; an error means that the file is as it was or,
when the access itself failed after the truncation, that it has less than the text, which the
code cannot tell apart. Arguments that do not parse never change a file. Of what a dropped
run was writing nobody is told anything.
`SessionExplained`: a run starts as public whatever its session holds, which the
repository leaves so (classification is not enforced, `docs/design.md:34`); what does hold is
that every value a session keeps came with a saved run at least as sensitive,
and that its outcome told the caller so, unless the value of a run did not
convert, which fails the run after its session was saved.

### What the runs on files and URLs say

`AccessAsGranted` says who can have opened, written or left something in a file: an
operation that was granted its path. There are two exceptions, which `Strayed` names, and
both follow from authorization by path (`docs/architecture.md:186-188`):

- A write whose target does not exist is granted the path of its parent with the name
  re-attached (`crates/access-fs/src/action.rs:45-55`, `docs/architecture.md:179-180`). Where that
  name is a link that leads nowhere yet, `exists()` is false, the granted path is that of the
  link, under the root, and `tokio::fs::write` creates the file where the link leads, which may be
  outside the workspace (`unfollowed`).
- A path may be made a link by another program after it was resolved (`relinked`).

Also a strayed operation was granted a path under the root, with the capability, by the
policies for that path; the file it reached is another one. That every other operation
reaches what it was granted is the property, and it does not depend on when files come and go.

The deny arm of `AllowWorkspaceFsPolicy` (`crates/access-fs/src/policy.rs:39-42`) is not reached
through the facade, which has compared the path with the same root before; the model
has `UnderRoot` as a guard of `GrantParent` all the same.

`WritesIntact` and `ReadsIntact` say nothing of accesses that overlapped a write. That is
the case of a caller that gives up and tries again while its first write goes on: of that,
`PiecesKeepTheirPlace` says that no piece moves, and `OperationsEnd` that both writes end.
`OperationsEnd` is checked for two operations: each is answered or dropped, and its access
is neither waiting for a thread nor open any more.

`DomainByLabels` is an equivalence for the URLs in which `extract_host`
(`crates/access-network/src/policy.rs:93-98`) finds the user information and the host, whatever
port, path or query follows. `Misread` names the others: a `:` in the user information ends
the host there; a `?` or `#` right after the host does not end it; and where there is no
scheme, a later `://` is taken for the end of one. Of these nothing is claimed, and
`FetchAsGranted` lists them as a third reason for which a fetch may be allowed: the policy matched
the text, not the host. The repository calls its handling of URLs simple (`README.md:407`,
`policy.rs:3-5`). User information without a `:` is not cut off either, so that a URL with it is
allowed under the domain and not at the domain itself.

### Two runs that fail, and why

- `session_persist`. Each access to the store takes the lock, the run does not:
  `execute` loads, awaits tools, and saves everything it has
  (`crates/tool-monty/src/lib.rs:279-298`). Two overlapping runs of one session both
  return an outcome, and the session keeps only the one that saves last.
  `docs/design.md:30` speaks of persisting the state without such a condition.
  The same happens to a nested run on its caller's session (`CallerSupersedes`).
  `SerialRunsAccumulate` and `StoredIsSavedHistory` say what does hold, and
  `RunsEnd` why a lock over the whole run is no way out: code may call Monty on
  its own session.
- `fs_root`. `FsAccess::new` expects the root that was canonicalised with the
  context to resolve once more (`crates/access-fs/src/access.rs:39-40`), and panics
  when the workspace was removed in between; `AppToolContext::new` reports the
  same situation as an error.

## What is proved

TLAPS proves, for every value of the constants that satisfies the assumption
named in the module:

| Theorem | Statement |
|---|---|
| `PolicyPipelineProofs!TypeCorrect` | `Spec => []TypeOK` |
| `PolicyPipelineProofs!EnvelopeStaysInForce` | `Spec => []EnvelopeInv` |
| `PolicyPipelineProofs!EnvelopeSound` | `Spec => []EnvelopeGate` |
| `PolicyPipelineProofs!GrantIdsNeverShared` | `Spec => []GrantIdsUnique` |
| `PolicyPipelineProofs!PolicyIdsNameOne` | `Spec => []PolicyIdsUnique` |
| `PolicyPipelineProofs!ReportsExplain` | `Spec => []ReportExplainsOutcome` |
| `PolicyPipelineProofs!TrailIsFaithful` | `Spec => []AuditFaithful` |
| `PolicyPipelineProofs!PipelineIsAuthorizer` | `Spec => Abstract!Safety`, the refinement without liveness |
| `AgentHostProofs!HostTypes` | `Spec => []TypeOK` |
| `AgentHostProofs!CallBoundsEffects` | `Spec => []EffectsWithinCall` |
| `AgentHostProofs!NestedNeverWidens` | `Spec => []NestedWithinParent` |
| `AgentHostProofs!AppImplementsMock` | `Spec => ImplementsMock` |
| `AgentHostTreeProofs!NestedEndsFirst` | `Spec => []NoneOutlivesParent` |
| `AgentHostTreeProofs!DoubleCallsTwice` | `Spec => []DoubleIsTwice` |
| `AgentHostTreeProofs!TrailAccountsForCaps` | `Spec => []CapabilitiesAudited` |
| `AgentHostTreeProofs!DoublingIsBounded` | `Spec => []DoublingBound` |
| `MontySessionProofs!SessionTypes` | `Spec => []TypeOK` |
| `MontySessionProofs!OutcomeAsSensitive` | `Spec => []ClassificationCovers` |
| `MontySessionProofs!SuccessIsOneSave` | `Spec => []OkIsSaved` |
| `MontySessionProofs!StoredWasSaved` | `Spec => []StoredIsSavedHistory` |
| `MontySessionProofs!OwnRunsOnly` | `Spec => []SessionsIsolated` |
| `MontySessionProofs!SerialSessionsAreExact` | `Spec => []SerialRunsAccumulate` |
| `MontySessionProofs!CallerSavesOver` | `Spec => []CallerSupersedes` |
| `MontyCallsProofs!SessionsExplained` | `Spec => []SessionExplained` |
| `MontyCallsProofs!NoSilentWrite` | `Spec => WritesReported` |
| `MontyCallsProofs!PayloadShowsTheCall` | `Spec => []PayloadsTellCallsApart` |
| `MontyCallsProofs!FilesByOneDict` | `Spec => []FileToolsTakeOneDict` |
| `FsAccessProofs!AccessTypes` | `Spec => []TypeOK` |
| `FsAccessProofs!NothingMoves` | `Spec => []PiecesKeepTheirPlace` |
| `FsAccessProofs!NoAccessWithoutGrant` | `Spec => []AccessAsGranted` |
| `FsAccessProofs!LoneWritesStay` | `Spec => []WritesIntact` |
| `FsAccessProofs!LoneReadsAreWhole` | `Spec => []ReadsIntact` |
| `NetworkAccessProofs!HostsByLabels` | `Spec => []DomainByLabels` |
| `NetworkAccessProofs!FetchesOfTheGranted` | `Spec => []FetchAsGranted` |

### Pipeline

*The envelope.* `EnvelopeGate` is not inductive: it says nothing of a call that
is still being decided. `EnvelopeInv` adds that the envelope is queued inbound,
and that a call which is past it asks for something within its capabilities.
Registration may shift the envelope, but only when no call is past anything;
an inbound answer decides only by denying; and a call leaves the inbound queue
only at its end, hence past the envelope. `TypeOK` and `EnvelopeInv` together are
inductive, and `EnvelopeInv` is also checked by TLC.

*Grant ids.* Every id a call holds is below `nextGrantId`; minting takes
`nextGrantId` and raises it in one step (the `fetch_add`).

*Policy ids.* `IdsInv` keeps every queue's ids distinct, those of different
queues apart, and all of them among `1..nextPolicyId - 1`; a registration adds
one that is not.

*Reports.* `ReportExplainsOutcome` speaks of decided calls alone. `ReportInv` says of
a call that is being decided that its evaluations are exactly the policies before
its place in the three queues (`Before` counts those of the earlier stages), in
order, and that all of them left the question open. The answer that decides is
the next one; running off the end of the last queue gives the default. That the
default cannot be mistaken for a policy's denial needs `IdsInv`: ids start at 1.

*The trail and Authorizer.* `GrantState` ties the id of a call to where the call is
and to its outcome: none before it is drawn, one exactly for an allow. Recording
appends the one record of its call, and to `Authorizer` it is the grant or the refusal;
everything before is asking, and drawing the id is nothing. That a grant is
permitted comes from `EnvelopeInv`, that its id is new from `GrantIdsUnique`.

### Host

*Capabilities.* `EffectsWithinCall` speaks of an effect and of the call far above
it. The invariant behind it (`Ind` in `AgentHostProofs`) keeps the shape of the
tree (an invocation's parent is an earlier one, of the same call, and a call has
one top) and that every invocation holds at most what the top of its call does;
`NestedWithinParent` is the step that carries it down.

*The two hosts.* A tool of `MockHost` returns only when nothing it awaits is
running. A custom tool of `AgentHost` checks that; a Double and a tool of one access
do not, and are right because of how they nest, which `NestingInv` says: a tool of one
access has nothing below it, and a Double at most two invocations of which one
succeeded before the other began.

*The tree.* `StepKinds` sorts the steps by what they do to the tree: one more
invocation, at the end of all others and with none below it; an end, with none
running below; a drop; or nothing. A drop stops every invocation that has the
dropped one above it, and `Above` is a recursive function. TLAPS only
knows such a function to be some choice among those that satisfy the equation, so
`AboveUnfolds` first shows that there is one: the least set closed under parents
is. From there `NoneOutlivesParent` is inductive beside the shape of the tree.
`DoubleInv` adds to `DoubleIsTwice` that of two calls of a Double the
earlier one succeeded, also while the Double still runs, and that a Double has the
input it had when it called; how an invocation ended does not change afterwards.
`TrailInv` says what is in the trail also for invocations that have not begun
(nothing), and makes "one scope event" a set of one element, so that no counting
is needed until the end.

*The cost of Doubles.* `DoublingBound` compares a count over a tree with a power of
two, and holds of calls that reach no custom tool (`DoublesOnly`); one of those may
nest as often as it likes. `CountInv` says that every invocation comes after
the one that made it and belongs to the same call, and that a call has one
invocation of its own: so everything a call makes is in the tree of that one (`OneTree`),
and a tree is its root and the trees of the children (`TreeOfChildren`). Both
look at the earliest invocation that would be an exception. Only a Double has
children, at most two, with one path less in their payload, and `TreeIsSmall` is
the induction over what is left of it. That `2^(n + 1)` is twice `2^n`, which
the provers do not know, comes from counting subsets (`PowersDouble`).

### Sessions

`Typed` is `TypeOK` and that a waiting run has somebody to wait for. `SavesInv` counts
the saves of a run by where it is. `CopiesInv` carries `StoredIsSavedHistory`: it
holds the copy of every run between load and save against the saves of its
session *now*, which others go on making. One sequence `Follows` another if it is
a part of it in the same order; `FollowsInserted` is the step that matters, when
another run saves first. `SerialInv` says that two copies of a session at
once mark it as overlapped, and that a copy of any other session is what was saved
there. `CallerInv` says that what is stored is the copy of the run that saved
last, which stays as it was, and that no run's copy has a run that it called itself:
it loaded before it called, and a copy has only runs that had ended (`SaversEnded`).

### Calls of Monty code

The conversions are parameters of `MontyCalls`, so these theorems do not depend on
how values are represented, and hold for values of any size. `ToolOutcome` goes through
the tools: an outcome has a class of the host, and if it changed a file, its
text and answer are those of one write (`ShowsWrite`). `NoSilentWrite` is that, for each
step: what a call was writing when its run was dropped is in `detached` and changes in steps of its own.
`SessionExplained` is not inductive, since it forgets the run in between: `CallsInv` adds
that a value the run holds is explained already, having come with the session,
or is no more sensitive than what the run has accumulated since. A run that begins as public with the
values of a sensitive one is the first case, and merging never takes back the second.
`PayloadShape` splits the payloads into the two forms `monty_tool_payload` builds;
the two theorems on payloads follow from it.

### Files

`Typed` is `TypeOK`, what each stage of an operation implies of the next (an access
starts with both grants for the target it keeps), and that inodes nobody has opened
are unused; `FreeInode` then finds a free one for each operation by counting.
`Straight` says of a granted path that there is no link and no `..` on it, unless the
operation has strayed: resolution leaves none, and only `MakeLink` makes one. Such a path
leads to itself (`PlainReached`, by induction over the steps of a walk).
`GrantInv` adds that who has an inode open was granted the path it is at, if it is
still at one, or has strayed, and that the authors of its pieces are writers that opened it.
`ContentInv` is what makes undisturbed accesses whole, in parts: two open accesses
of a file of which one writes are marked as overlapping; a writer that is alone has
written the first pieces and nobody else's are left; a reader that is alone has read
the first pieces of what is there; a completed write that was alone is gone from the file when
another one has begun; and so is what was there before. Each part rests on the
truncation when a write opens its file, and none on a lock.

### Hosts

The domain policy compares texts; what is meant is that the labels of the domain
end those of the host. `MeetsByLabels` says that the two agree for labels and hosts
of any length: the last dot of a text is the one before its last label (`LastDot`),
so labels can be taken off both texts together until the domain has none left.
The text of `n` labels is a recursive function of `n`, which `JoinUnfolds` shows to
exist, and the induction is `AllNumbers`, which follows from the order of the
numbers and takes a set in place of a predicate. `ExtractHostIs` says that the
two cuts of `extract_host` leave exactly the text of the user information and the host unless
the URL is misread: a scheme has no "://", neither of the two has a separator at which
the code cuts, and what follows begins with one (`BeforeIs`). User information ends with
its "@", which no label has, so a match after it takes whole labels as well.
The invariant of the fetches, `NetInv`, is then what was true of a
fetch when it was granted.

### Assumptions and limits

`PipelineAssumption` (types of the parameters, and that the
envelope is not one of the host's own policies), `HostAssumption` (types of the
parameters, payloads closed under unwrapping), `SessionAssumption` (no run is
`NoRun`), `FsAssumption` (types of the parameters; finitely many operations and
files at the start, and an inode for each; links are in directories and at no directory),
`NetworkAssumption` (no word is a separator; the parts of a request are made of the pieces
the syntax of URLs allows there, user information ends with "@", a port begins with ":", what
follows it with "/", "?", "#" or "://"; a domain has a label), and
`CallsAssumption` (types of the parameters; the classes are numbers; exposed names are
names; what a failed write leaves is not all of its text). All are evaluated by TLC in the runs that extend the modules.

Model-checked only: liveness (`CallsAnswered`, `CallsReturn`, `RunsEnd`,
`OperationsEnd`, `FetchesEnd`), which is beyond TLAPS here, and with it the liveness
of `Authorizer`; and `ResultsPassOn`, which is about what the conversions of `MontyValues` do
to a value of any depth: they recurse over the value, and an induction over data
is beyond these provers.

## Not modelled

Left out of the modelled parts: replacing the whole pipeline through
`kernel_mut`; the names and limits a `MontyTool` is set up with; the fields of
audit events that no decision depends on; `TempWorkspace`, a directory that is
removed with its value.

Not planned: tracing and span formatting, the demo, the Monty interpreter, and
output classification across sessions, which the repository declares unenforced.
