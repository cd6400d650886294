# lesser-body in TLA+

A model of what `lesser-body` keeps and decides, and of the races, retries and failures
that can make it go wrong. The modules are translated from the Go source under `src/`;
paths below are relative to `src/internal/` unless they start with `docs/`.

- [The system](#the-system)
- [Modules](#modules)
- [State and actions against the code](#state-and-actions-against-the-code)
- [What the runs check](#what-the-runs-check)
- [What is proved](#what-is-proved)
- [Where the text and the code disagree](#where-the-text-and-the-code-disagree)
- [Seen while modelling](#seen-while-modelling)
- [What is not modelled](#what-is-not-modelled)
- [Plan](#plan)

## The system

Two Lambdas share one code base. `cmd/lesser-body` serves *Ka*, the MCP surface of
one actor (`/mcp/{actor}`). `cmd/lesser-body-instance` serves the instance plane:
*Ptah*, where an account holder creates, binds and edits agents, and *Ba*, which
hands out install packs. Both talk to *Lesser* (the social server: actors, posts,
drafts, bindings) and to the *Host* (identity, genesis, payments, mail).

What Body itself keeps is small:

| Part | State it keeps | Operations that change it | Used by |
|---|---|---|---|
| agent content, `agentcontent` | per account and agent an `agent_soul` row with create-only history rows, and an `agent_instructions` row | `Upsert`, `Publish`, `Archive`, `SeedPublished`, `SeedDraft`, `SeedInstructions` | the Ptah content tools, genesis, recovery, Ba, the download route |
| agent registry, `agentregistry` | per account and agent one row: local id, source, Host projection | `UpsertFinalized`, `UpsertRecovered` | genesis, `agent_bind_soul`, `agent_list`, recovery, Ba |
| download grants, `downloadgrant` | per grant one row: token hash, binding, expiry, status | `Issue`, `Consume` | Ba issues, the download route consumes |
| grant limiter, `baserver` | per process and account the times of recent mints | `Allow` | Ba |
| memory, `memory` | append-only events with an expiry | `Append` | the Ka memory tools |
| process caches, `auth`, `trustconfig`, `mcpapp` | secrets, trust configuration, issuer | first use | every request |
| MCP sessions | in the runtime library | initialize, recovery | Ka, instance plane |

Everything else is a conversation with Lesser or the Host: several requests to services
that change on their own, and a decision made from answers of different times.

How the parts interact:

- **Ka requests** (`mcpapp/app.go`) pass authentication, actor binding, runtime profile,
  scopes and session recovery, in that order, and then the tool. A paid request has the
  Host consume a grant on the way.
- **Ka tools** (`mcpserver/`): mail, SMS and voice ask Lesser whose soul the caller acts
  for, read the soul's registration and contactability, decide by the bound operation
  policy and make one call to the Host. Notifications, direct messages, follows,
  profiles, articles, media and promos are one or two requests to Lesser with a
  computation between them.
- **Genesis** (`ptahserver/genesis.go`): seven tools drive a Host lane; the last one
  finalizes at the Host and then writes the registry row, the soul and the
  instructions. Four steps in three stores, no transaction around them.
- **Self recovery** (`mcpserver/soul_recovery_tools.go:64`): the same writes in the other
  order, the registry row last and conditional on what was read first.
- **Binding** (`ptahserver/ptahserver.go:1531`): resolve the actor from the registry row,
  repair the row from the Host when it names none, then ask Lesser to bind.
- **Install** (`baserver/baserver.go:315`, `instanceapp/installer_grants.go`): Ba consumes a
  payment at the Host, reads the soul and the instructions, asks the limiter and mints a
  grant for the digest of what it read. Later, and in another Lambda invocation, the
  download route consumes the grant and renders the pack from the content as it is then.

What is hard here: no call holds a lock. Every store operation is a read, a decision and
a conditional write, in a loop of at most three attempts; reads are eventually
consistent unless they ask otherwise; any request can fail or lose its answer; a Lambda
can die between any two of them; callers retry; and what was read from Lesser or the Host
can change before it is acted on. What must hold:

| Part | Correct when |
|---|---|
| souls | history is write-once and agrees with the current row; every stored row can be read; an acknowledged write is on record exactly once; no state blocks every later write; a seed never overwrites an owner |
| soul documents | what was accepted reads back in every state it is stamped with, to the last field |
| instructions | one version never names two texts; retries write a text once; a seed only creates; an archived version stays archived |
| registry and list | only an operator changes the actor a row names; an answered actor stays true; what stays is listed once |
| grants | one use; only with token, binding and in time; refusals are true and spend nothing |
| install | no grant without its payment, one grant per payment; a refused plan mints nothing; only what an owner published ships |
| genesis | what is affirmed was shown; what is seeded was affirmed; success means complete; advice can be followed |
| requests | nothing runs twice, unpaid, after a refusal or outside its profile; a guest's writes carry its name and need its share |
| mail, SMS, voice | every act is allowed by a policy of its time, in the name of a confirmed soul, once per key |
| soul reads | the souls that were meant, as published; private conversations only of the caller's |
| notifications | no match becomes unreachable, paging ends, drones see no communication |
| direct messages and profile | what is said of a request is so; writes reach what was named and nothing else |
| articles, media, promos | lists sent are acceptable, advice is true, what goes out was read by everyone asked |
| process | one issuer per process, no kept failure in a serving Ka, every request returns; memory answers stand; the limiter's cap and reset are exact |

## Modules

| Module | Models | Form |
|---|---|---|
| `SoulLifecycle` | the promise of the soul store: a current row and a set of recorded events, each operation one atomic step | abstract |
| `AgentSoulStore` | the soul half of `agentcontent/store.go`: each call as its DynamoDB requests | implements `SoulLifecycle` |
| `SoulDocument` | the `agent_soul` document: decoding, rules, stamp, encoding and reading back | pure rules over one row |
| `AgentInstructionsStore` | the instructions half of the store, with the Ptah archive handler's check | detailed |
| `DownloadGrant` | `downloadgrant/store.go`: `Issue`, `Consume` and the classification of a failed consume | detailed, and the abstraction `InstallPlan` is checked against |
| `InstallPlan` | Ba's plan and the download route over grants, souls, instructions and payments | composes `DownloadGrant` and `SoulLifecycle`, implements the former |
| `AgentRegistry` | the registry row under finalization, binding and recovery | detailed |
| `AgentDirectory` | `agent_list`: pages over registry rows and live agents | extends `AgentRegistry` |
| `GenesisLane` | the Host's lane as Body accepts it and the guidance derived from it | operators |
| `HostedGenesis` | the seven genesis tools, finalization, self recovery and the owner's edits | composes the lane with the three stores, each write atomic |
| `ActorRequest` | the gates of the actor route, x402 invocation grants, sessions and their recovery | detailed |
| `BoundOperationPolicy` | the decision whether a caller may perform an operation as a bound agent | operators |
| `AgentComm` | mail, SMS, voice and identity tools | extends the policy |
| `SoulRead` | `soul_read` and `identity_lookup` request by request | detailed |
| `NotificationFeed` | the notification tools and a client that pages through them | detailed |
| `SocialInbox` | direct messages, message requests, follows and profile updates | detailed |
| `EditorialDraft` | an article draft, its images, uploads and reviews | detailed |
| `PromoPackage` | a promo package and the release Lesser runs for it | extends `EditorialDraft` |
| `BodyProcess` | the caches of one Lambda process, cold start and issuer discovery | detailed, with fairness |
| `MemoryTimeline` | `memory_append` and `memory_query` on DynamoDB | detailed |
| `GrantMintLimiter` | `installPackGrantMintLimiter` | detailed |
| `MC*` | instances for TLC: values, symmetry, and which parts are explored together | |
| `*Proofs` | theorems about the module they are named for | |

## State and actions against the code

Every module's head says what it abstracts. `PROJECT.json` maps each definition to the
lines it is translated from; what Lesser, the Host or DynamoDB do is marked external and
read off from how the code uses them.

**AgentSoulStore.** A *call* is one invocation of a store method; its `pc` names the
request it sends next. `load` is `loadRecord` (`store.go:803`), `write` the transaction of
the current row and its history row, `seedLoad`, `create`, `readCreated` and `readSeed` the
requests of `SeedPublished` and `SeedDraft`, `readBack` the read that produces the answer of
a transition. `attempt` and `seedAttempt` are the two nested loop counters. `values` keeps
every value the row has had, so that an eventually consistent read (`StaleReads`) can return
any of them. `Interrupt` ends a call between any two requests: a cancelled context, a
failed request or a dead Lambda. A document is its authoring content; the JSON copy inside
the row carries its own agent, version and state (`stampSoulDocument`) so that
`RowsReadable` can say that `toRecord` accepts it. Rows written before soul documents
existed are in `Init` with versions from `LegacyVersions`.

**SoulLifecycle.** The same operations as atomic steps over the current row and the set of
events. `AgentSoulStore` instantiates it with `current` defined from its row, and
`ImplementsLifecycle` is `Lifecycle!Spec`.

**SoulDocument.** What `AgentSoulStore` takes for granted of a document. An argument is a
record of the facts its rules look at, each field a value away from what an owner, a
finalization or a recovery sends; `Decodes`, the rules and the stamp are the parser, the
validator and `stampSoulDocument`, and `weight` stands for the bytes besides the stamp.

**AgentInstructionsStore.** Upsert, seed and archive, with `check` for the separate read
of the archive tool. Archiving keeps the version number, so a version does not identify a
row here as it does for souls; the properties say what it still identifies. `LoseAnswer`
applies a write and fails the call.

**DownloadGrant.** `Grants` are grants that may be issued. A redeemer presents an id, a
token and a binding; the token is named by the grant it was drawn for, so a wrong token is
any other grant's. `sentAt` is the `now` taken before the update is sent. After a failed
update the row is read again, possibly stale, to say why.

**InstallPlan.** `at` is a plan's next step in `BuildInstallPlan`; `read` what it has read so
far; `render` and `pack` follow a redeemer after the consume. Owners write, publish and
archive between any two steps. The soul is `SoulLifecycle` and not the detailed store, which
`ImplementsLifecycle` justifies. A payment is one grant the Host has sold; its consumption may be
applied with the answer lost.

**AgentRegistry and AgentDirectory.** `read`, `create`, `reread` and `update` are the
requests of a call. The three tools differ in what they accept at `read` and in the source
they write. A local id is an actor and a spelling: `actorendpoint.Validate` ignores ASCII
case, the conditional update does not. `Correct` is the operator the divergence answers
send for. The directory adds `live`, Lesser's list of agents; `replica`, the row as the
registry's eventually consistent list has it; and `walk`, one caller going from page to
page. `walk.steady` are the entries that stayed what they are during the walk.

**GenesisLane and HostedGenesis.** `session` is the Host's newest lane. A projection is
what `sanitizeGenesisConversation` keeps of it, and `Guidance` what
`genesisNextToolGuidance` derives from the projection; a torn read serves the review of one
revision with the candidate of another. Each owner holds a lane id, the advice of its last
answer and the texts it was shown. Finalization and recovery are calls of several steps;
the other tools are one request and one answer. Whether the Host accepts a request
(`HostGrants`) is external.

**ActorRequest.** `call[c].at` is the gate a request is at, in the order in which
`app.go` composes them; each gate asks its own service, so `bound` and `shares` can change
between two gates of one request. A request carries a credential (token, instance key or
x402 grant), a route and up to two items; `runs` counts the tool runs of each item.
`keys` are the requests the Host has consumed each grant for, and `posts` what Lesser
recorded, with the guest it attributes it to.

**BoundOperationPolicy, AgentComm.** A registration is what its many spellings come down
to: the Host's policy, rules, classes of callers and entitlements. A call goes through
the binding as Body looks it up, Lesser's confirmation, registration, contactability and
decision, and the act at the Host.
`world` is the history of what the services would answer; a call remembers the moment it
began at, so that the properties can ask whether a policy *of the call's time*
allowed what it did. `outbox` is what the Host has sent, `flags` the mailbox.

**SoulRead.** `sources` is a history of the same kind. An enquiry resolves who is meant,
reads identity, registration and the parts with endpoints of their own, falls back to the
registration where the code does, and cuts its answer to the stream's size.

**NotificationFeed.** Rows are named by their arrival, which is also the order of their
ids. A page is a window of Lesser's list, the filters and a cursor `{after, offset}`; under an actor
filter a window is read again for every page of it. A client's round is a read without a
cursor and the pages that follow; `torn` says that between two pages of one window a match
before the next page's place was dismissed that was shown already or came too late to be due.

**SocialInbox.** A conversation request has a state and a place in a folder that lags.
`pending_check` is the moment between the lookup of an account and the read of the folder,
`resolved` the one between the account search and the follow. A profile update sends the
fields it was given.

**EditorialDraft, PromoPackage.** Attach, detach and reorder read the list of images,
compute a new one and replace it; `call` holds the list between the two requests. Reads
try the owner's lane and then the reviewer's. Lesser's messages are the sets of phrases
that the classifiers look for, so that the order of a classifier's cases matters. A
release reserves, posts and stamps, and can stop after each.

**BodyProcess, MemoryTimeline, GrantMintLimiter.** A cell is a `sync.Once` with its kept
value or error and the request running inside it; `prober` holds the lock of the issuer
cache. In memory, a ULID is a number whose quotient by `PerTime` is its timestamp,
`lagging` is the table as an eventually consistent read has it, and a query is a caller's
walk. The limiter's `accepted` remembers every mint since the process started, `resetAt`
is the time in the last refusal's header; one step is one call under the mutex.

## What the runs check

`D` is the number of distinct states.

| Run | Question | Instance | D |
|---|---|---|---|
| `soul_store` | Does racing, stale and interrupted use keep every store property, is every step one of `SoulLifecycle`, and does every accepted document read back? | 3 calls, 2 documents, stale reads, 2 attempts, a legacy version 3; documents around a size limit | 0.65 M |
| `instructions_store` | Versions, retries, seeds and archives of instructions | 4 calls, 2 texts, stale reads, 2 attempts | 78 k |
| `download_grant` | Is a grant used once, by its holder, in time, and are refusals true? | 2 grants, 2 redeemers, 2 bindings, stale reads, 3 instants | 339 k |
| `install_plan` | Payments, minting and shipping while owners write | 2 plans, 2 redeemers, 1 payment, soul versions up to 3 | 518 k |
| `registry` | Who may rename the actor, and what does a walk through `agent_list` miss? | 2 calls, 2 actors, 2 spellings, 1 correction, 1 neighbour, 1 live change, pages of one | 4.2 M |
| `genesis` | Can owners affirm what they have not seen, and what is left when a finalization dies or a recovery and an edit run beside it? | 2 owners, 2 lanes, 2 revisions, 1 fault, 1 edit | 1.1 M |
| `actor_request` | What runs, for whom, how often and against which payment? | 2 requests at a time, 3 in all, 12 kinds of request, 2 grants, 1 move, 1 fault | 0.93 M |
| `comm` | Is every act allowed by a policy of its time, from a true sender and sent once? Do soul reads hold? | 2 calls, 17 kinds of call, 2 souls, 4 registrations, 1 move, 1 fault; 9 enquiries, 2 edits, 1 loss | 2.8 M |
| `notifications` | Which matches can a paging and polling client miss? | 3 rows at first and one that arrives, of 3 kinds, 5 questions, pages of 1 and 2, windows of 3 | 2.1 M |
| `social` | Are answers about requests true, and do writes reach what was named? | 2 callers, 2 peers with one user name, 3 selectors, one an actor URL, 2 accounts, 1 moving handle | 1.4 M |
| `editorial` | Are lists acceptable and advice true, and was what went out read? | author, guest, 2 reviewers, 2 images, 4 outcomes of an upload, 2 compositions, 2 calls at a time; drafts and uploads rest once there is a package | 0.82 M |
| `runtime` | Do caches, memory and limiter keep their word, and does every request return? | 3 requests, 2 issuers, 1 restart; 2 appends, 3 ids; 2 accounts, cap 2, window 2 | 0.58 M |

Several properties are conjunctions: `StoreIntact`, `AnswersAreTrue`, `VersionsHold`,
`WritesKeepTexts`, `GrantUseIsSound`, `PaymentBuysOneGrant`, `ShipsPublishedOnce`,
`ContentIsBacked`, `PaymentsBuyRuns`, `RunsMatchAnswers`, `ActsAsAllowed`,
`SendersAreTrue`, `SoulReadsHold`, `ConversationAnswersHold`, `WritesAreTheCallers`,
`AdviceIsTrue`, `CachesHold` and `TimelineHolds` gather statements on one subject that have
names of their own in the module, which a counterexample is looked up by. Most of
them have more than one mutant, each breaking another part.

**Parts explored apart.** Three instances hold parts that share no variable: the store and
the document (`ContentSpec`), the communication tools and the soul reads (`AgentSpec`), and
the process, the memory and the limiter (`RuntimeSpec`). There a part moves only while the
others are at rest. No part reads another's variable, so every behaviour of each part is
among those explored and nothing is lost but the product.

**Bounds.** Records are keyed by account and agent and no operation touches two of them, so
one row is enough. Two calls show every race of two requests; where a third is affordable it
lets one of them lose twice, which `RetryLimit = 2` turns into a conflict answer. Two
documents, texts, souls, accounts tell "mine" from "another's". A legacy version of 3
lies above the first versions a new row would take, so a collision would show. One payment
for two plans makes them compete. `MaxTime` is `TTL` or one second more, so the expiry second, the one
before and the one after all occur. The limiter's clock runs two windows, so that a window
passes completely and another one fills. Document weights lie at the limit, below it by what a
stamp can grow, and far from it. Windows of three rows for pages of one and two show a page that ends
in the middle of a window, and four rows a second window. `MaxListed = 1` for two peers
makes the folder longer than what is read of it. Two genesis lanes show a replaced one; two
revisions an outdated review. One move between two reads gives every torn combination of two
services; one fault is put at every request in turn. `StreamBytes`, `SummaryBytes` and the answer sizes fall on both sides
of each cut. The bounds on arrivals, moves, faults, edits, lanes, restarts and rotations
are guards of the environment's steps only, and every one is named with its constant.

**Deadlock** checking is off everywhere: a finite number of calls ends, and the clock, the
owners and the environment stop at their bounds.

**Fairness** is assumed in `BodyProcess` only: `WF_vars(Serve(r))` for every request, which
says that a request that can go on is given the processor again. Nothing is assumed of
callers, recycling, the issuer or failures. `RequestsReturn` then says that a `sync.Once` or the
probe lock never leaves a request waiting. The store calls, by contrast, end by their
loop bounds, which the attempt counters' types show.

**Mutants.** Each property is paired in `PROJECT.json` with small changes of a
definition that break it: a condition dropped, a check after the write, a key made
anew, a list counted instead of searched.

**Types.** Most modules state a `TypeOK`; the soul store's is checked by its run; its and
genesis' are proved by themselves, the others' are part of the inductive invariants below.

## What is proved

Every safety invariant and every action property that a run checks is also a theorem. The
proofs hold for every number of calls, plans, redeemers, walks and rounds, every set of
documents, texts, souls, accounts, images, reviewers and messages, any `RetryLimit >= 1`, any
`TTL >= 1`, page size, window, cap and expiry, with and without stale reads. They assume only
the constants' own assumptions, each of which the runs evaluate:

- bounds are naturals; the retry limit, expiry, cap, window and page sizes positive; legacy
  versions positive; what means "nothing" is not a row, document, event, issuer or local id;
- the agent has an account, requests are sent in finitely many slots, and batches have two
  items at most (the model's own bound: `call[c].runs` counts two); the principal is a reviewer;
- `DirectoryAssumption`: finitely many agents, each with a place of its own in Lesser's list;
- `DocumentAssumption`: weights and the size limit are naturals and the lightest document fits
  with its stamp, as the code's 64 KiB do;
- `ReadAssumption` and `FirstWorldsAreWorlds`: histories begin with, and move to, answers of
  the services' shape;
- `SelectorsResolve`: Lesser resolves a selector to one account, which need not have that name;
- `LimitsAreBounded`, `WindowHoldsAPage`, `FeedHasRoom`: pages are within the tool's limit,
  and a window holds the page asked for;
- `MemoryAssumption`: event ids are finitely many naturals, page limits positive.

| Module | Theorems | Argument |
|---|---|---|
| `AgentSoulStoreProofs` | `StoreTypes`, `StoredRowsReadable`, `VersionsNameRows`, `NoDeadEnd`, `StoreIsIntact` | `StoreInv`: the row in the table has the highest version of all values ever stored, and what a call holds in `seen` is one of those values. A condition on the version is then a condition on the row |
| | `StoreImplementsLifecycle`, `LifecycleSafe`, `HistoryIsWriteOnce`, `SnapshotsAsAuthored` | a transaction that commits is the abstract step. `LifecycleInv`: no event is ahead of the row in version and state rank, so the next event's key is free; published events carry the text of the draft before them |
| | `AnswersHold`, `SeedsWriteDeclarations` | a call that committed finds what it asked for in the history (`AskedInv`, `CreatedInv`) and writes one version at most (`AuthoredInv`); a seed holds only its declaration (`SeedInv`) |
| | `DocumentsReadBack` | an accepted row decodes to its document, and a stamp changes only the fields it is about and the weight they take |
| `AgentInstructionsStoreProofs` | `VersionsNameContent`, `UpsertsAppliedOnce`, `VersionsAlwaysHold`, `WritesFollow`, `SeedsCreate`, `ArchivedStays`, `TextsAreKept` | `InstructionsInv`: as above, but two values with one version may differ in state and author, never in text; a call whose write committed has returned |
| `DownloadGrantProofs` | `GrantsUsedOnce`, `ConsumersEntitled`, `ReplaysTrue`, `RefusalsSpendNothing`, `GrantUseSound`, `SpentByItsHolder` | `GrantInv`: a row is absent, as issued, or as issued and consumed, and the last goes with exactly one user; stale reads return only these |
| | `ListsSentAreFree` | `ListInv`: a list under way comes from one without collisions, by one association at a free position, one less, or a permutation that takes positions anew |
| | `AdviceIsAlwaysTrue` | the answer is given with what is so at that moment. Of a missing object the advice also depends on whether the PUT completed. `UploadAdvice` and `MessagesHaveClasses` compute the first row of a table that a message hits; `PackageInv` says what there is to tell |
| | `PostedWasInspected` | `PackageInv`: who approves has read the hash the package has; from reservation to release nothing of it can change; a post is made once, with that hash |
| `AgentRegistryProofs` | `OperatorsRename`, `AnsweredActorsHold`, `DivergencesWriteNothing` | `RegistryInv`: a call holds an expectation only if that local id and the Host's name the same actor or one names none (`ExpectedAgrees`). The update is conditional on the expectation, hence keeps the actor |
| | `DirectoryKeepsRegistry`, `WalksListOnce` | the directory's steps are the registry's or leave it alone; of the agents that stay what they are, a walk has shown exactly those its cursor has passed (`ShownUpToCursor`) |
| `InstallPlanProofs` | `PaymentsBuyOneGrant`, `PublishedShipsOnce`, `GrantsAreUsedAsOffered` | `PlanInv`: what a plan has read, issued and paid at each step of its way, and what a redeemer's grant row was when it was spent. The refinement maps every step to one of `DownloadGrant` or to a stutter |
| `AgentCommProofs` | `CallsActAsAllowed`, `SendersAreAlwaysTrue`, `KeysDeliverOnce` | `CommInv`: what a call has read at each stage was so at a moment since it began, and what it may do follows from what it has read. Histories only grow, so this stays true while the world moves |
| | `SoulReadsAlwaysHold` | the same of an enquiry's stages, with publications counted upwards |
| `ActorRequestProofs` | `PaymentsBuyRunsAlways`, `RunsMatchAnswersAlways`, `GuestsPostByShareAlways` | `RequestInv`: what each gate leaves behind for the next (`RunsHold`, `SoulHolds`, `ShareHolds`, `PaidHolds`), and the books: runs done plus calls still owed one are at most the requests the Host consumed the grant for |
| | `EveryMatchIsShown`, `DronesAreShownNone`, `PagesAlwaysAdvance` | `FeedInv`: unless the round is torn, what is due has been shown: between rounds all of it; within one what is older than its time, what earlier windows held, and of the present window the newest matches that the offset counts |
| | `SocialAnswersHold`, `DecisionsStand`, `WritesReachTheNamed` | `SocialInv`: what a request holds between two reads names the account it has resolved, and a selector alone before that; the answer to a conversation or decision is about the state it was read from |
| `HostedGenesisProofs` | `GenesisTypes`, `GenesisContentIsBacked`, `AffirmedIsShown`, `FinalizedIsComplete`, `AdvisedIsGranted` | a lane that can be finalized can only be published, so the declaration affirmed reaches the soul unchanged; each stage of a finalization or recovery has written what comes before it, and nobody takes that away (`FinalizeInv`, `ContentInv`, `ShownInv`) |
| | `CachesKeepTheirWord` | whoever probes holds the lock and found no issuer cached (`IssuerShared`); an actor server serves only with a trust configuration it has read (`TrustKept`) |
| | `TimelineKeepsItsWord` | what a lagging read still has of a missing event has expired (`LagInv`); a walk has shown every event that stays and that its cursor has passed, and none before it (`WalkInv`) |
| | `AccountsAreMetered` | `LimiterInv`: the hits kept are an end of all that were let through, in the order of time, and at least the cap's number of them at a refusal |

Few of these properties are inductive as they stand. `VersionNamesRow` says nothing of the
rows that calls still hold; `AnsweredActorHolds` needs `ExpectedAgrees`; a policy allowed an
act "at some time during the call" only because each earlier stage has left behind what it
read; a redeemer renders what `ShipsPublishedOnce` demands only because the binding of its grant was
read from published content when it was minted; runs stay below payments only because
each admitted paid call counts as owed one; a read package says nothing of a post until the
approvals that reserved it are tied to what their givers read. `NoDeadEnd` is not inductive in the store at all. It is
carried over: the store implements the lifecycle, the lifecycle never records ahead, so no
key is taken that the store is about to create.

Where a proof needs the least of a set of numbers, a loop's value or an induction on a
bound (`EventEnds`, `LeastOf`, `KeptIsTheEnd`, `Upwards`), it takes a minimal element by the
well-foundedness of strict inclusion on finite sets; no module uses a RECURSIVE operator.

Only model-checked, because the prover does not reach it: `RequestsReturn`, which is liveness
under fairness. Also only model-checked is that each model can reach its interesting states,
which the mutants and the coverage of every action show. The proofs of modules explored
together (`ContentSpec`, `AgentSpec`, `RuntimeSpec`) are of each module's own specification.
`PromotionSpec` takes fewer steps than the `EditorialSpec` that is proved about: its drafts and
uploads rest once there is a package, which reads nothing of theirs that can still change.

## Where the text and the code disagree

- `docs/mcp.md:983` says that the returned `soul_seed.lifecycle_state` is `published`. The
  seed reads its answer back in a second request (`agentcontent/store.go:793`) and returns
  what is there by then, which an owner may have revised.
- `docs/mcp.md:983` also describes the seed of the instructions, which returns an existing
  record whatever its state, also an archived one (`agentcontent/store.go:631`).
- `docs/mcp.md:321` says that a same-token replay returns 410. The reason of a failed
  consume is taken from a second read (`downloadgrant/store.go:282`) that may be stale or
  find the expiry first.
- `docs/mcp.md:1415` says that the digest binds the rendered content. The download renders
  the content as it is at download time (`instanceapp/installer_grants.go:234`) and does not
  compare it with the digest the grant is bound to.
- `docs/mcp.md:1410` says that archived content is never rendered. `BuildPackInput` looks
  at the soul's state and not at the instructions' (`baserver/baserver.go:821`).
- `docs/mcp.md:1411-1413` requires a validated actor for every endpoint rendered; the
  download renders it without asking Lesser again (`instanceapp/installer_grants.go:240`).
- `docs/mcp.md:1494` places the rate cap before the content reads; `baserver/baserver.go:405`
  applies it after `BuildPackInput`.
- `docs/mcp.md:1314`: `already_archived` is read before the archive and apart from it
  (`ptahserver/ptahserver.go:1448`), so it can be false for a record that was archived.
- `docs/mcp.md:1017`: a published lane whose finalization died is told `agent_get`
  (`ptahserver/genesis.go:1088`), although the agent is in no registry yet; the advice does
  not lead back to the finalization whose replay would write the missing rows.
- `docs/mcp.md:743`: `media_ids` must name exactly the images currently bound. They are
  compared with a read (`mcpserver/media_tools.go:577`) that the replacing write does not
  refer to, so images bound or unbound in between are undone.
- `docs/mcp.md:1990-1995`: under an actor filter a cursor counts matches of the window it
  came from (`mcpserver/social_tools.go:1527`), so that the dismissal of a match before its
  place, between two pages of that window, makes it skip one.
- `docs/mcp.md:2045` lets a counterpart be an actor URL, and `docs/mcp.md:1664` reports a
  pending request of the counterpart. `pendingMessageRequestForCounterpart`
  (`mcpserver/social_tools.go:1103`) compares id, user name and acct only: the pending
  request of a peer called by its URL is answered with "not found". `MissMeansNoRequest`
  therefore speaks of the names Body knows, and the run has a URL among its selectors.
- `docs/mcp.md:2158-2160` falls back to the registration when a part's own endpoint is
  unavailable; the code (`mcpserver/soul_read_tools.go:970-1050`) also does so when the endpoint
  answers an empty list, and calls the source `ok`.
- `docs/security.md:213-216` speaks of one public managed e-mail projection;
  `publicManagedEmailPayload` (`mcpserver/identity_tools.go:291`) has no caller.
- The comment at `mcpserver/outbound_comm_tools.go:238-240` says that the guest who acted
  is named on outbound messages; `email_reply` (`mcpserver/email_tools.go:157`) sends no `actedBy`.
- The comment at `mcpserver/social_tools.go:254` says that the public timelines stay closed
  to guests; `requireOwnerScopedOAuthBearer` (`mcpserver/share_scope.go:123`) no longer
  refuses them.

## Seen while modelling

What the code does and a reader of it may not expect. No text of the repository says
otherwise, unless noted.

*Content.* A draft at the size limit can be accepted and then never be published or
archived: the stamp grows by up to four bytes and the digits of the version
(`agentcontent/soul_document.go:405`). It is refused, never written unreadable. A row from
before soul documents with an empty body is refused by its own reader. The UTF-8
checks cannot fail for a document that came from JSON.

*Registry.* Recovery sets `source=host_recovery`, after which `agent_bind_soul` refuses
the row (`agentregistry/store.go:387`, `ptahserver/ptahserver.go:1558`). A row whose live
agent appears or goes changes its key in `agent_list` and is skipped or shown twice; of
two rows with one live actor the second is never listed. `ListedOnce` speaks of the rest.

*Install.* The payment is consumed before registry, content, actor and limiter are asked
(`docs/mcp.md:1398-1400` admits it), so a refusal costs the caller its payment.

*Genesis.* A replay of a finalization over a soul that its owner has rewritten is refused
for ever, and the instructions are then never seeded (`ptahserver/genesis.go:546`).

*Requests.* An x402 grant bound to a request has one idempotency key, so that a
`MaxUsage` above one cannot be used. Grants sold for tools that need an OAuth principal
are spent and then refused (`docs/mcp.md:148-150` admits it). An x402 `memory_append`
writes to a partition of the request's hash.

*Mail, SMS, voice.* A policy may be put together from a registration and a
contactability record that never stood side by side; `ActsAsAllowed` asks that each was
there during the call. A failed read of contactability leaves the registration alone to
decide. Denials in the bound policy do not override other entries that allow.
`identity_verify` drops the result of its second authorization; `email_get` does not look
at the channel. An OAuth client's class `instance_key` is not honored.

*Soul reads.* Private conversations are those of the soul Lesser has bound to the token;
for a guest the soul shown is not confirmed and may be another.

*Notifications.* Requests for several types drop the cursor (documented); `nextSince` can
then skip a row that arrives between the reads of two types.

*Social.* A request is found under a bare user name also when a remote account was
meant. A request beyond the 80 that are read, or one that moves between lookup and folder,
gives `not_found`. `post_create` sends no idempotency key. The timeline's `since` is sent
as `max_id`.

*Articles, media, promos.* An article verdict names no hash, a promo verdict does; publish
names no revision; `article_update` edits a published article without a review. A result
that is too large hides a mutation that was applied. A finalized upload whose answer is
lost is later answered with "mint a fresh grant". Lesser calls an upload beyond its size cap
missing; a refused finalize therefore advises by whether the PUT completed
(`mcpserver/media_tools.go:1016`). `media_state` knows only the grant and advises another PUT
(`mcpserver/media_tools.go:803`), which cannot help: the next finalize leads out. Attaching an inline image anew without a
position moves it behind its own slot.

*Process.* The first error of a secret is kept for the life of the process. The instance
server reads the trust configuration in a request, and its kept error sticks; the actor server reads it at cold
start and panics. The instance server probes the issuer at cold start, the actor server
does not.

*Memory.* An append under the id of an expired event that is still in the table is
answered with the expired event. An expiry at epoch 0 never expires (`omitempty`). The
in-memory store ignores cursors and iterates its map unlocked (`memory/memory_store.go:94`).

## What is not modelled

`PROJECT.json` lists every part with its status. Left out for good: cryptography
(signatures, hashes, constant-time comparison), HTTP routing, CORS and discovery documents
without state, prompts, resources and schemas, Markdown rendering and templates, skill reads, the clients' encoding,
deployment, scripts and evidence. Also the tools that forward one request and keep nothing:
timelines, followers, `post_create`, `post_boost`, `post_favorite`, conversation and post reads,
`article_get`, `article_list`, `article_update`, draft lists, the review queue,
`media_read` and the withdrawal of assets, and `agent_get` with the plumbing of the
content handlers. Inside the modelled parts:

- Of content rows, timestamps are left out: `updated_at` is taken before the retry loop
  (`agentcontent/store.go:334`) and may go backwards; nothing depends on its order.
- Four of a document's five sections share one rule and are one field.
- Of a registry row only the local id and the source are kept; versions and classification
  are overwritten unconditionally. `agent_bind_soul`'s call to Lesser changes no state of Body.
- Cursors of the earlier, registry-only list are left out.
- The Host's evidence, declarations and projections are named by the revision they belong to.
- Tools stand in classes: read or write scope, open to a drone or not, run by Lesser, Body
  or the Host.
- A clear-all of notifications leaves a memory event that nothing reads; it is left out,
  as are the cursor rows that only tests use.
- The memory's text filter and tags are left out; `memory_query` walks all it finds.
- The AWS client's own retries: a lost answer is a failed call.
- A condition on an empty local id is taken to hold of a row stored with an empty one.
- The limiter's time is read before its lock; one request at a time makes this one step.
- Environment values that bypass a cache.

Assumed of the services, as the code uses them: Lesser lists newest first, pages by the
last id and gives a cursor only when more remain; ids and times grow together. Lesser refuses
a list in which two images share a position. It reports an upload beyond the size cap as a
missing object of a grant that stays `MINTED`; who finalizes knows whether the PUT completed. The Host sends one message per agent and key,
answers `begin` for a pending registration again, and decides by itself whether a failed
lane can be refreshed. A DynamoDB page that is full has a cursor.

## Plan

Left, in this order:

1. Proofs: the types of the modules whose `TypeOK` only a run has checked; that a step of
   `RuntimeSpec`, `ContentSpec` and `AgentSpec` is one of its parts' and a stutter of the others.
2. A refinement of `HostedGenesis`' atomic content writes by the detailed stores.
3. `article_update` and the draft lists beside reviews; timelines with their cursors.
4. `agent_bind_soul` with Lesser's binding, to compose `AgentRegistry` with `AgentComm`.
