# A verification of the TypeDB client for Node.js

TLA+ models of the parts of this client that run concurrently or in stages:
queues, batches, transactions, sessions, the failover of the cluster client, the
calls on remote concepts and the iteration of answers.
TLC checks them on small instances; TLAPS proves the core for all values of the
constants.  Paths below are relative to the root of the repository.

The program is single-threaded JavaScript.  What interleaves are the pieces of
code between two `await`s, timer callbacks, stream events and RPC callbacks; a
step of a model is one such piece, and it models the whole of it.

## Inventory

| Component | State | Operations | What is hard | What makes it correct |
|---|---|---|---|---|
| `common/util/BlockingQueue.ts` | promises, resolvers | `add`, `take` | two arrays shifted separately | the k-th take gets the k-th element |
| `stream/RequestTransmitter.ts`, `BatchDispatcher` | buffer, `_isRunning`, a timer | `dispatch`, `dispatchNow`, timer, `close` | timer against close, a self-renewing timer | nothing lost or reordered; one timer, exactly while needed |
| `stream/RequestTransmitter.ts`, `RequestTransmitter` | the set of dispatchers | `dispatcher`, `close` | ends streams behind their transactions | no stream is left un-ended |
| `stream/ResponseCollector.ts` | queues by request id | `queue`, `get`, `put`, `take`, `close` | close against waiting takes and late responses | one closing element per queue, last, with the cause |
| `stream/ResponsePartIterator.ts` | its queue | `next` | the portion handshake | parts in order, one request for more per portion |
| `stream/BidirectionalStream.ts`, `connection/TypeDBTransactionImpl.ts` | `_isOpen`, the above | `rpcExecute`, `rpcStream`, `commit`, `close`, stream events | everything closes everything, several times | every call ends, and says why |
| `connection/TypeDBClientImpl.ts`, `TypeDBSessionImpl.ts` | the session table, `_isOpen`, the pulse timer, the transactions | `session`, `transaction`, `close`, `pulse` | closes while something is being opened; late pulse answers | a close reaches what is open; pulses stop |
| `connection/cluster/FailsafeTask.ts`, `ClusterDatabase.ts`, `ClusterDatabaseManager.ts` | the cache of replica lists, loop counters | `runPrimaryReplica`, `runAnyReplica`, `failsafeTask` | nested retries, a shared cache read after an await | bounded attempts at the right replica |
| `connection/cluster/ClusterSession.ts`, `ClusterClient.ts`, users | the inner session, clients by address | `transaction`, failover | concurrent failovers replace one inner session | the caller gets a transaction of a live session |
| `common/rpc`, `common/errors` | none | stubs, request builder, errors | raw errors that are not recognised as retriable | the error class decides the retry; a request carries what its method was given |
| `common/util/Stream.ts` | none | `collect`, `forEach`, `first`, `some`, `every`, `filter`, `map`, `flatMap` | lazy: every iteration draws on the one queue of the call | no answer lost or given twice; an iteration ends |
| `concept`, `logic/RuleImpl.ts` | the label or iid a remote concept keeps | about a hundred methods, casts, conversion | labels that change under calls under way, choice of the request by overload | a call reaches what its caller means; its answer is of the class it declares |
| `query`, `logic`, `concept/answer` | none | queries, conversion of answers | nested conversions, some of which throw | an answer is the server's |
| `api` | none | interfaces | | |

Interactions: a client owns the stub, one transmitter and the sessions; a session
owns its transactions; a transaction owns a stream with one dispatcher and two
collectors (single responses, response parts); each collector holds blocking
queues, each of which the caller or an iterator holds as well.  The managers of
`query`, `concept` and `logic` only call `rpcExecute` and `rpcStream`.  In the
cluster, a `ClusterClient` holds one core client per server, and a failsafe task
chooses the server.

The behaviours that are hard to test, each at its line and with the properties
aimed at it, are the `hazards` of PROJECT.json.

## Modules

| Module | Models | Checked by |
|---|---|---|
| `FifoQueue` | the abstract queue: contents and the takes that wait | refined by `BlockingQueue` |
| `BlockingQueue` | `BlockingQueue.ts` | `MCBlockingQueue`, `BlockingQueueProofs` |
| `BatchDispatcher` | class `BatchDispatcher` | `MCBatchDispatcher`, `BatchDispatcherProofs` |
| `ResponseCollector` | `ResponseCollector.ts`, as operators over two variables | `TransactionStream` |
| `TransactionCalls` | abstract: what a user may rely on in a call | refined by `TransactionStream` |
| `TransactionStream` | transaction, stream, iterator; composes two `ResponseCollector`s and a `BatchDispatcher` | `MCTransactionStream` with two configurations, `TransactionStreamProofs` |
| `SessionLifecycle` | client, sessions, pulses, and transactions as far as opening and closing goes | `MCSessionLifecycle`, `SessionLifecycleProofs` |
| `FailsafeTask` | the two loops, the search for the primary, the cache, the operations that run in them and the errors they tell apart | `MCFailsafeTask`, `FailsafeTaskProofs` |
| `ClusterSession` | `ClusterSession.ts`: what an attempt of `FailsafeTask` does to the inner session the calls share | `MCClusterSession` with two configurations, `ClusterSessionProofs` |
| `ConceptRequests` | the part of `RequestBuilder.ts` for queries, concepts and rules, as data | `ConceptCalls`, `Answers` |
| `ConceptClasses` | the classes of `src/concept` as data: methods, overloads, conversions, casts | `ConceptCalls`, `Answers` |
| `ConceptCalls` | calls of remote concepts and of their managers under way in one transaction | `MCConceptCalls` with two configurations, `ConceptCallsProofs` |
| `Answers` | the answers of a query and the iterations of its Stream | `MCAnswers` with two configurations, `AnswersProofs` |

### State and actions against the code

`BlockingQueue`: a promise is the number of its creation, `promises` and
`resolvers` are the two arrays, `outcome` what each promise is resolved to.
`handed` and `added` are histories.

`BatchDispatcher`: `buffered`, `isRunning` and the number of pending timeouts are
the class's state; `ended`, `written` and `dropped` describe the gRPC stream as the
code uses it: what is written after `end()` never leaves.  `SendNow`,
`SendScheduledBatch`, `Dispatch`, `DispatchNow`, `TimerFires` and `Close` are the
methods and the timer callback.  The lengths of the two windows (1 ms, 3 ms) are left
out: timers fire at any time.

`ResponseCollector`: `collectors` are the keys registered, `queues` the contents of
each queue, which the caller keeps when the key is gone.  The queue of promises
is replaced by the queue `BlockingQueue` is proved to implement.

`TransactionStream`: `phase` says where each call is: `waiting` in `take()`,
`settling` between the response of a commit and its `finally` block, `ready` when a
Stream waits for its user.  `Execute`, `OpenStream`, `Pull`, `UserClose` are calls of
the user, `ResumeSingle`, `ResumeStream`, `CommitCloses` continuations after an
await, `DataEvent`, `ErrorEvent`, `WriteErrorEvent`, `DoneEvent`, `TimerFires`
callbacks.  The server and the connection are external.

`SessionLifecycle`: `stage` and `txStage` say how far `session()` and `transaction()` have
come; each await ends a step.  The synchronous part of `close()` of a session runs up
to the `sessionClose` RPC, whose outcome changes nothing in the client; `close()` of the
client starts it for every session in the table without waiting.  `pulseTimer` and
`pulsing` count timers and RPCs in flight.  On the channel that `close()` of the client has shut a stub method
throws at once: `CallTransaction` and `SessionFails` are rejections, but in `pulse()` nobody catches it, so
`PulseTimerFires` ends there, with `_isOpen` as it was and no callback to come (`thrown`).  An RPC that was in
flight still ends, and its answer may set the timer.

`FailsafeTask`: `pc` is the await a task is at.  `run()` is abstract in the source and ends
in an answer or in an error of an RPC; `ErrorMessage` and `Rejection` say what the loops see
of it.  `Operations` lists the methods that are tasks, `ModeOf` the loop each runs in.
The replicas that `runAnyReplica()` goes through are the preferred one and then `Others`, the places
in the list that `filter` leaves; `todo` is what is left of these, taken in their order (`First`).  A fetch stores its
list in the shared cache and continues later, so that another task may store another
list in between.  The loop counters are incremented before the await they follow in
the code; nobody else sees them.

`ClusterSession` instantiates `FailsafeTask` and builds its actions from those of that module, so that
it takes the steps of the tasks by construction; what it adds is what an attempt does.  `stage` is the
await within an attempt: `closing` the old inner session, `connecting` to a new one,
`connected` before it is installed, `opening` the transaction; `refused` is SESSION_CLOSED.
`sessions` are the inner sessions ever opened, with what ended them: the code only keeps
`_isOpen`.  `Run` and `Rerun` happen in the step of the task that reaches the attempt.  The
failed pulses and closes of an inner session are those of `SessionLifecycle`.

`ConceptRequests` gives each builder its message and the fields its arguments go to.
`ConceptClasses` gives each class its superclass, its own methods and those it overrides only
to declare a narrower class; `Methods` puts them together along the superclasses, which is how
`super` resolves them.  A method is a builder, its overloads, `execute` or `stream`, the
conversion of the answer and the class declared.  The local and the remote class of one name
are one: a flag tells them apart.

`ConceptCalls` makes a call when `Call` sends its request and ends it when `Resume` converts the
answer; `isDeleted()` of a role has a second request in between (`ResumeHalfway`).  `calls` keeps
the order in which `BidirectionalStream` sends.  The server is external: it resolves what a
request names, serves the requests in order, renames, deletes, answers with whatever of the
right sort it has, or refuses, which closes the transaction (`Refuse`).  `meant` and `renamers`
are histories: what a handle was obtained for and who has renamed it.  `Cast` is a program that
goes on with what a cast gives it.

`Answers` keeps one queue of parts.  `Start` begins an operation on the Stream, `Take` is the end of
a `take()`, `NextAnswer` hands one answer through mapper and filter to the operation, `NextPart` goes
back for the next part.  `forEach` runs as `collect` does.  The handshake of portions, which `TransactionStream` models, is left
out: a part is whatever the server sends at once.

## Runs, bounds and what they show

| Run | Instance | Why it is enough |
|---|---|---|
| `blocking_queue` | 2 elements, a few adds and takes | surplus of either kind of call and the change between them occur |
| `batch_dispatcher` | up to 4 requests | batches of several requests, mixed with immediate ones, timers before and after the end |
| `transaction_calls` | a batched query, a commit, a stream call of one part | the three kinds of call, all causes of closing and their order; the calls are independent but for the shared stream |
| `transaction_stream` | three parts, portions of two, one commit | a full portion, a request for more, a partial portion, and every await of the code |
| `session` | two sessions, two transactions on one, one on the other | sessions known and unknown to the table, transactions known and unknown to their session, at the same time |
| `failsafe` | `create()` and the deletion of one database, two members, two lists, one retry, three errors | one task overwrites the other's list, one turns from the one loop to the other; each counter reaches its limit |
| `cluster_failover` | a primary and an any-replica call, two servers, lists with and without a primary | reruns of both calls overlap in every order with each other, a close and failed pulses |
| `cluster_any_servers` | one any-replica call | one call is enough to give up on two servers |
| `concept_calls` | eight types, four things, two rules; two handles, two calls at once, two renames by the one and one by the other | every method of every class is called, a role whose relation type is renamed, two handles of one type, a name that another type takes over between two renames by one handle, a label that is given to another rule or type after a deletion: with a third rename only does a call of `setLabel()` hit another type |
| `answers` | two iterations; up to three answers, of each kind, some that cannot be converted | iterations at once and one after the other, each stopping before, at and after the end of a part |
| `attribute_subtypes` | the schema above, one call at a time | the root attribute type has a subtype |
| `explainables` | one iteration | one answer has explainables of the three kinds |

`MaxRetries` and `MaxSeeks` stand for the two constants of value 10: the loops treat all
iterations but the first and the last alike.  `MaxAdds`, `MaxTakes`, `MaxRequests`,
`MaxParts` bound the number of calls and of parts; `Reiterate` is bounded to once per Stream.

What is learnt besides that the properties hold:

* A promise of a queue is never lost or given twice; the arrays are never both
  non-empty (`NoSpare`).
* Batched requests survive a close of the transaction only as a write after the end
  of the stream, which raises an error; no caller is stranded by that
  (`NobodyStranded`), except one that iterates a finished Stream again.
* A caller is told the first cause of the close (`FirstCauseReported`).
* `EveryCallSettles` needs `EmitsDone`: if the gRPC stream ends normally and does not emit
  `done` (`stream/BidirectionalStream.ts:107`), whoever waits goes on waiting.
* A session that is being opened while its client closes stays open for good, unless its
  user closes it (`OnlyLateSessionsSurvive`).  Its first pulse is made on the closed channel and throws
  out of the timer, which by default ends the process; no other session is met by this,
  although the answer of a late pulse may set any timer again (`OnlyLateSessionsThrow`).
  Afterwards all is quiet (`SilentOnceClientClosed`).
* A transaction that is being opened while its session closes stays open, and only the
  client's transmitter still ends its stream (`OnlyLateTransactionsSurvive`, `NoStreamLeft`).
* A session found dead by its pulse stays in the table of the client (`TableAgrees`).
* A failsafe task can run without a replica, in its first attempt and only when another
  task overwrote the cache (`NullOnlyAfterOverwrite`); a list with two preferred
  replicas leaves one of them untried, which `AnyTriesEveryReplica` excludes.
* A task goes on after an unreachable server, and after one that is not the primary, and
  after nothing else (`FailsOver`); deleting a database gives up at the first error, because
  `databaseDelete()` rejects with the raw one.
* Calls that fail over at the same time push each other's inner session aside: it stays
  open, pulsing, and nobody holds it (`LeakOnlyByOverlap` says that this takes two).  A
  session its user has closed is open again when a call that was under way fails over
  (`ReopenedOnlyByPending`).  A call that meets the session closed, by another failover or
  after a failed pulse, is rejected and does not fail over (`RefusedOnlyWhenReplaced`).
* `cluster_any_servers` ends in a counterexample: `run()` of a transaction ignores the
  replica it is given (`connection/cluster/ClusterSession.ts:122`), so that a call with
  `readAnyReplica` on a session at another server never tries the preferred replica, which
  the comment at `connection/cluster/FailsafeTask.ts:84` promises to try first.
* A concept follows the renames made through itself, whatever the order of calls, answers and
  refusals (`LabelFollowsOwnRenames`), and nobody else's.  With a label that others have
  changed, a call is refused, which closes the transaction, or reaches another type that has
  taken the name; `ReachesWhatItMeant` says that nothing else can go astray.  The same happens to
  a program that does not wait for its own `setLabel()` before the next: the second one names the
  old label, renames whatever type has taken it by then, and the concept takes the new name
  of that other type (`LostTrack`).
* `isDeleted()` of a role is wrongly true when its own `setLabel()` is under way, since the label
  is read again after the first await (`concept/type/RoleTypeImpl.ts:116`); that of a thing type
  is true when the type exists (`DeletedAsAnswered` states both).  A concept that has been deleted
  and whose label another type or rule has got since is taken for that other one (`Supplanted`).
* Answers are of the class their method declares, but for three methods that
  `AnswersAreDeclared` names: `getSubtypes()` of attribute types, `getInstances()` of the root
  attribute type cast to a value type, and `getSupertype()` of a root, which rejects with a
  TypeError.
* `attribute_subtypes` ends in a counterexample: `getSubtypes()` of an attribute type asks for the
  supertypes (`concept/type/AttributeTypeImpl.ts:226`), where the behaviour tests expect the
  subtypes.
* Iterations of one Stream share its parts, and one that stops early takes the rest of its part
  with it (`LostOnlyBehindAStop` says that nothing else is lost).  A Stream that was iterated to
  its end keeps the next iteration waiting for ever (`EveryIterationEnds` names the case).
* `explainables` ends in a counterexample: explainable attributes are put among the relations
  (`concept/answer/ConceptMapImpl.ts:71`), so that none is ever found as an attribute.
  `AnswersAreTheServers` says what holds of the rest of an answer, and leaves these out.

Deadlock is not checked where a run stops for good reasons: all calls are made and
have settled, or the bound is reached.

### Fairness

Timers fire, callbacks and continuations that are due run: the event loop guarantees
it.  An RPC is answered or fails (its own deadline, or the keep-alive of the channel);
in `TransactionStream` the server goes on with what it has received while the
connection is up.  In `Answers` the server sends its answers and the end, or the transaction
closes.  Fairness is weak everywhere and per actor.  Nothing obliges a user
to call or to close, a connection to break or a server to end.

## Proofs

`BlockingQueueProofs`: `IInv` says that the unresolved promises, the promises not taken
and those handed out are consecutive numbers ending at the last promise created, that
outcomes are the elements in order, and that one array is always empty.  None of it can be
dropped: the numbering tells which element a promise gets, the empty array is what makes
the next `add` or `take` create exactly one promise.  `Invariance` is `Spec => []IInv`,
`TakesInOrder` follows, and `Refinement` maps every `Add` and `Take` to the step of
`FifoQueue`.  Assumptions: `PendingIsNoElement`, `BoundsAreNat`.

`BatchDispatcherProofs`: `IInv` joins the types, `Conservation` (written, dropped and
buffered requests are the submitted ones, in order; nothing is dropped before the end),
`OneTimer` (the flag says whether a timer is pending, and there is at most one) and
`NothingStranded` (a full buffer has a timer).  Two theorems restate what users rely on.

`TransactionStreamProofs`: `TypeCorrect` is type correctness of a transaction, put together
from the types of the dispatcher and of the two collectors.  `CloseInv` joins the types with
what holds of closing.  None of its parts is inductive alone: that a `close()` reaches every
call that waits (`NobodyStranded`) needs `Registered`, that a call that is under way is in a
collector while the stream is open; that a queue is closed once (`ClosedOnce`) needs the
collectors to be empty afterwards; that a call which takes the closing element waits no longer
needs that nothing follows it; and `FirstCauseReported` reads the cause off the queue.  The
steps fall into four kinds, each with a lemma: those that leave queues and collectors alone
(`QuietStep`), those that only an open stream takes (`OpenStep`), closes (`CloseStep`) and the
continuations that take an element (`TakeStep`).  Three theorems follow from `CloseInv`.
Assumptions: `PortionIsPositive`, `CallsAreDistinct`.

The second half of the module is about what an answer means.  `ReplyInv` adds to `CloseInv`
the invariant of the dispatcher, whose proofs are used through an INSTANCE; `Requested`, that the server
knows of a call only from its one request, which is written once the call is made; `Replied`, that
every reply on its way, in a queue or taken was given to the call it is for; and `InTurn`.  `CommitIsLast`
follows because what is written is the beginning of what was submitted, and the commit goes out after
all that was buffered.  `NoUncaught` needs that a reply is meant for a call in the right collector.
`TransactionKeepsItsPromise` is the refinement: each step of the transaction is one of `TransactionCalls`
or leaves what the user sees alone.

Two more invariants rest on `ReplyInv`.  `PartsFlow` follows the parts of a stream call
backwards from its user: what has been delivered, then the queue of the call, then the
responses on their way are, with other responses between them, the numbers from 1 to what the server
has sent, the end of the stream counting as the number after its last part (`Holds`).  So a step
that moves, takes or appends a response keeps the order, and a close cuts off the
part that is on its way.  `PartsInOrder` is what this says of the delivered parts.  `OneToken` says that for each
pause of the server there is at most one thing that stands for it: the end of the portion in the inbox, then
in the queue, then the request for more in the buffer, then the same request written; without it
`MoreOnlyWhenPaused` is not inductive, because the next request for more comes out of the queue.

`SessionLifecycleProofs`: `SessionInv` joins the six properties with what they need: nobody knows
of a session before its `sessionOpen` RPC returns (`UnopenedIsUntouched`), only what was returned is in the
table or closed (`KnownOnceReturned`), and what may still be opened when the client closes is
known to be late (`LateOnesAreKnown`).  That a pulse throws for a late session only needs that none
has thrown before the client closed (`ThrowsOnlyOnceClosed`).  No assumption on the constants is needed.

`FailsafeTaskProofs`: `FailsafeInv` says of each task where it may be (`InItsLoop`), that the retries
count its failed attempts (`Counted`), that it went on after each of them for a reason (`WentOn`), when the
cache is what it fetched (`Addressed`), and which replicas it has tried or still has (`Walked`).
The five properties need different parts of it, and all need `InItsLoop`.  `StepsAreOwn` says that a step
changes its own task, the cache and `overwritten` only; so only `Addressed` has to be proved of the other
tasks.  That a latest primary exists, in a list of any length, is `PrimaryIsLatest`, by
well-founded induction over a set of numbers.  Assumption: `FailsafeAssumption`.

`ClusterSessionProofs`: the steps of the calls are built from those of `FailsafeTask`, so that `CallsInheritFailsafe`
has all of `FailsafeInv` for the calls of a cluster session.  `ClusterInv` says who owns an inner session: only the
first was not opened by a rerun, and what a rerun has connected nobody else has taken (`Owned`); a call
that renews the session has nothing open besides its own, unless another rerun overlaps
(`Alone`), which is what `LeakOnlyByOverlap` needs; what was refused was closed before
(`Rejected`); and after `close()` the session stays closed until a call that was under way reruns
(`Reopening`).  The steps are sorted by what they do to the sessions, each kind with its lemmas.  Assumptions: those of
`FailsafeTask`, and `ClusterAssumption`: SESSION_CLOSED, which is an error of this client and of no RPC, is
among the errors, and `None` is no task.

`AnswersProofs`: `AnswerInv` follows the answers of a query from the server into the iterations.  What was
sent is in the queue or has been taken by one iteration, and what is in the queue comes after
all that was taken (`Shared`, with `InOrder` for the queue itself); an iteration has given, in order, what the filter
keeps of the parts it has taken, and what is left of its part comes after that (`Gives`).  That two iterations
which run at once never take the same part needs `WaitsOnce`: an iteration waits once, and only while it
takes.  `AnswersAreLostOnlyBehindAStop` follows, for any answers, iterations and operations.
`AnswersAreGivenAsSent` goes through the conversions instead (`ConversionIsTheServers`, by the kind of answer): one
that does not throw has every concept, number, rule and variable mapping of the answer, and of the explainables
the ownerships and those relations whose variable no explainable attribute has (`SameExplainables`).  It
says nothing about where explainable attributes are found: they are misplaced, as the run `explainables` shows.  Assumptions: `ResultsAreAnswers`, what
the protocol says of answers (a list for each method, scopes for types of roles only, no value for what is
not a number), and `NullIsNoError`.

`ConceptCallsProofs`: what a handle knows of the type or rule it stands for (`Knows`) compares three names:
how a request through the handle would name it now, how the server names it, and how the requests that wait
name it.  The first two agree, or there is exactly one answered `setLabel()` whose end will make them agree;
and every `setLabel()` that waits uses the handle's name, or the next one to be served names something
else, so that serving it makes the handle lose track.  The second half is what the bounded model had
hidden: a `setLabel()` sent before an earlier one is resumed carries the old label.  `Knows` is inductive
only because the server answers in the order of the requests (`AreCalls`) and concepts keep their
class (`ConceptsOK`).  `LabelsFollow` is what it says of a handle without a `setLabel()` under way.

`ReachesAsMeant` and `DeletedIsAsAnswered` need two more invariants.  `ServerInv` is about the server: names stay
unique in their scope, and a role exists only while its relation type does; so a name that agrees with the
server's finds what bears it (`FormFound`).  `RequestInv` is about what was sent.  `AllExact`: the
class of a concept is of the kind of what its handle stands for, a role type staying a role type through every
cast.  `OnTime`: before a call that was made without a `setLabel()` of its handles under way there is none in the
list, which together with the order of the answers makes `Knows` say that the names agree when
the call is served (`FirstKnows`).  `WellAsked`: a waiting call that was made so names its caller and its arguments as their
handles do now.  That it does when it is sent (`SentAsked`) goes through every method, overload and
builder at once: `InPlace` says of the tables that a parameter that takes a concept has a field of its own
in whichever request is chosen, `OfItsKind` that a method asks about what its class is a class of.
`WellAnswered` is about `isDeleted()` between its answer and its end, and after the first half of that of a
role, which must have found a relation type of the name asked for.

Assumptions: `SchemaAssumption`, what a schema is (types of roles have a scope, a relation type, and the
others none; names are unique; null and handles are no labels); `MethodAssumption`,
`ParameterAssumption` and `KindAssumption`, facts about the tables of `ConceptClasses` and `ConceptRequests` that TLC
evaluates, because they are joined with `@@` and inherited by recursion; and `NullIsNoError`.

Model-checked only: liveness (under fairness, out of reach of the prover), and `AnswersAreDeclared` of
`ConceptCalls`: the players of a relation are converted by a fold over a list of any length, which takes
an induction over data; the rest of it compares, method by method, what the server sends with what the
conversion expects.  The
inductive invariants are only proved; TLC has agreed with `ServerInv` and `RequestInv` on the instance of
`concept_calls`, where `DeletedAsAnswered` fails without `Supplanted`: with a second rule that takes the
label of a deleted one.

## Not modelled

Transport security and credentials, the requests of databases, users, servers and sessions field
by field (`common/rpc/RequestBuilder.ts`), interfaces, formatting and logging.  Attribute values,
regular expressions and query options are opaque.  The loops of the cluster client that take the
first server that answers (`open()`, `all()`) and `schema()`, which asks the first there is, are left out.
The checks against a server that breaks the protocol are left out as well: an unknown kind of message
(`stream/BidirectionalStream.ts:96`), a part of an unknown kind
(`stream/ResponsePartIterator.ts:56`) and an id of a session given twice (`connection/TypeDBClientImpl.ts:71`).
The gRPC library and the server are external: modelled only as the code in the repository uses
them.

## Plan

1. Proofs: `AnswersAreDeclared` of `ConceptCalls` but for the players of a relation.
2. The managers of the cluster over a server with state: what a repeated `create()` finds that
   was carried out though its answer was lost, and the loops over the servers.
