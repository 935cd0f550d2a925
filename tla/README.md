# TorneoMundial: specification and verification

TorneoMundial runs World-Cup-style tournaments: clients register teams, fill the
groups of a tournament, record scores, and a background process creates the
group stage and then the knockout rounds. This directory holds TLA+ models of
that program, TLC configurations that check them on small instances, and TLAPS
proofs of the results that matter for every instance.

## 1. Inventory

The system is `tournament_services` (a Crow HTTP server with several threads),
`tournament_consumer` (two listener threads), a PostgreSQL database reached
through a pool of connections in every process, and an ActiveMQ broker with two
queues. Nothing the models say of the server depends on whether its threads are
in one process or in several, except the buffer of `TeamRepository::Create`,
which is one per thread.

    client --PATCH score / POST match--> MatchController -> MatchDelegate --+
    client --group requests-----------> GroupController -> GroupDelegate --+--> groups, matches (PostgreSQL)
                 |                              |                           |
                 | match.score-recorded         | tournament.team-add       |
                 v                              v                           |
            ScoreUpdateListener          GroupAddTeamListener               |
                 +--------> consumer MatchDelegate <------------------------+
                                   |
                             WorldCupStrategy (pure)

    client --teams, tournaments--> TeamController, TournamentController --> teams, tournaments
                                   (groups and matches refer to tournaments)

| component | state it keeps | operations | hard behaviour | what makes it correct |
|---|---|---|---|---|
| `WorldCupStrategy` | none | group fixtures, standings, knockout proposals | ties, few groups, draws, order of groups | the ranking is a strict weak order; the proposals form one bracket |
| match routes (`MatchController`, `MatchDelegate`) | the `matches` table | PATCH a score, POST a match | the event is sent after the commit, NON_PERSISTENT, errors swallowed | a played round is followed by the next |
| group routes (`GroupController`, `GroupDelegate`) | the `groups` table | create, add a team, add a batch, rename, delete | every check is on data read earlier; partial failure; event after commit | no team twice, capacity, no team lost, a complete draw gets fixtures |
| consumer (`MatchDelegate`, two listeners) | none of its own | on a team-add event create the group stage; on a score event create knockout matches | two threads and the API interleave; auto-acknowledge; multi-statement insertions without a transaction | the matches table is a cup, however events are lost or late |
| repositories and schema | groups, matches | one transaction per call | an UPDATE of no row; unique index; no ORDER BY | the keys are unique |
| `PostgresConnectionProvider` | queue of connections, waiters | `Connection()`, the deleter | waiting, lost wake-ups, connections lost or shared | conservation, mutual exclusion, no sleeper next to a free connection |
| `QueueMessageListener` | `running`, session, consumer | `Start`, `Stop`, receive loop | an exception ends the loop of one thread; nobody restarts it while the other lives; `getText()` may throw outside the handler | sessions close before the connection; a process that is up serves both queues |
| `ConnectionManager`, `QueueMessageProducer` | broker connection | initialize, shutdown, CreateSession, SendMessage | partial initialisation, the end of the process on every path | a session is only made on a started connection |
| team routes (`TeamController`, `TeamDelegate`, `TeamRepository`) | `teams`, a thread-local id buffer | POST, GET | check-then-insert; an answer read from a buffer after the call; a commit in doubt | the answer is true of the table |
| tournament routes (`TournamentController`, `TournamentDelegate`, `TournamentRepository`) | `tournaments`, and the rows that refer to them | POST, PATCH, DELETE, GET | look-up and write in two transactions; foreign keys, cascade | each call takes effect at one moment, at most once; no orphans |
| match documents (`Match`, its JSON) | the `document` column | score, correct, list | a correction over an older score; optional fields; integers wider than `int` | a document tells one story; listing and standings agree |
| configuration, dependency injection | none | start-up | a connection that cannot be made | |

The hazards are listed one by one, with the line where each bites, in
`PROJECT.json`.

## 2. Modules

| module | models | variables |
|---|---|---|
| `WorldCupStrategy` | `WorldCupStrategy.hpp`: fixtures, standings, proposals, as operators | |
| `TournamentStore` | `groups`, `matches`, the two queues, and the repositories' statements | `groups heap matches teamEvents scoreEvents` |
| `Faults` | what the environment does to match processing, counted and bounded | `faults` |
| `MatchService` | PATCH score, POST match | `publishing` |
| `GroupService` | the five group requests, one step per repository call | `req` |
| `MatchConsumer` | both listeners and the consumer's `MatchDelegate` | `teamListener scoreListener` |
| `KnockoutCup` | abstract: what a tournament promises | `matches` |
| `MatchProgression` | `MatchService` + `MatchConsumer`: from full groups to the final | |
| `GroupSystem` | `GroupService` alone, with concurrent workers | |
| `TournamentSystem` | all of it | |
| `MatchDocument` | the match document, and what scoring makes of it, as operators | |
| `GroupTable` | documents and standings while matches are scored and corrected | `documents` |
| `Directory` | abstract: what a table of uniquely named rows promises its clients | `rows call` |
| `Registry` | the team and tournament routes, and the rows that refer to a tournament | `teams tournaments groups matches req idBuffer` |
| `ConsumerProcess` | the consumer from its container to its destructors | `main connection loop running session consumer inHand queue` |
| `ConnectionLease` | abstract: what a connection pool promises | `lease` |
| `ConnectionPool` | `PostgresConnectionProvider` | `pool held pc` |
| `StrategyProofs` | lemmas about the operators of `WorldCupStrategy` and the store | |
| `MatchProgressionProofs`, `GroupTableProofs`, `GroupSystemProofs`, `TournamentSystemProofs`, `RegistryProofs`, `ConsumerProcessProofs`, `ConnectionPoolProofs` | theorems and proofs | |
| `MC*` | instances for TLC | |

How state and steps correspond to the code:

- A team is one natural number, its id. `NameOf` is its name, a number as well,
  for the last criterion of `Table::better` compares names: those the client
  sent with the group, which need not be unique in it. A team that is sent under
  two names is not modelled. Where several teams tie, `Leader` is any of them
  (the sort may leave them in either order; the model picks one once and for all).
  A group is the sequence of its teams. A match row is its key
  `(round, home, visitor)`, which the unique index of `db_script.sql` makes
  unique, and its result. The modelled consequence of the index is that an
  INSERT of a stored key fails.
- `WithTeam` is what `jsonb_insert(document, '{teams,-1}', ...)` does: the new
  team goes *before* the last one. This decides who is listed first, and so who
  plays at home.
- `heap` is the order in which `select * from GROUPS where tournament_id = $1`
  returns rows. It has no ORDER BY, and PostgreSQL puts an updated row anywhere;
  `RowsMove` says whether a run lets it.
- Each repository call of a request or handler is one step, because each runs
  in its own transaction. Reads that cannot become stale (the format, the teams
  table) are merged with the next step. `UpdateScore` is one step although it
  reads and writes: it rewrites the document, whose teams never change, and
  every other field comes from the request.
- The first reads of `ProcessTeamAddition` feed log lines only and are left
  out (that they may throw is `TeamListenerError`).
- `receive()` uses AUTO_ACKNOWLEDGE: the message is gone when the handler
  starts. `ConsumerCrash` and the two error actions lose it.
- `CreateIfNotExists` names columns (`round_key`, ...) the schema does not have,
  so it always throws; the code falls back to `Create`, and a duplicate key is
  swallowed per match. `InsertKnockoutMatch` models the pair.
- A draw gives nobody a point (`Table::addMatch` has an empty branch), and
  `winnerOf` reports no winner for it, although `UpdateScore` stores one.
- `CrashReadingWinners` is the undefined behaviour of reading `r16Winners[0..7]`
  when there are fewer: the process dies, or the garbage matches nothing
  (`CreatePlayoffMatches` goes on without quarter-finals).
- In `ConnectionPool` everything done under the mutex is one step, `wait` is
  two, and `notify_one` comes after the unlock, as in the deleter.

- A match document is a function on the fields that have a value, so the
  conversions (`to_doc_string`, `from_json`) really lose what they leave out.
  `AsInt` is `get<int>()`: it keeps the low bits. `MatchService` uses the same
  operators and keeps of a document only what the strategy reads.
- In `Registry` a statement commits only if the schema allows it (`Allowed`:
  unique indexes, foreign keys, "not found" for an UPDATE or DELETE of no row).
  A failing call did nothing or broke after the commit (`RepositoryError`).
  A 409 comes from the check of the controller, a lost race is a 500.
  `form` says what is wrong with a request that is only found out after its
  first repository call: a malformed id (400) or one of another JSON type (500)
  in `SaveTeam`, which reads the list of teams first; a format that
  `from_json` does not take (500); a body `MatchDelegate::Create` refuses (422);
  an id that is no UUID, at which the look-up throws (`RejectId`). `Create` of a
  match answers a look-up that throws with 404 (`Fail`).
- `idBuffer` is the `thread_local` string that `TeamRepository::Create` returns
  a view of; the controller copies it in a later step (`AnswerSaveTeam`).
- In `ConsumerProcess` a message is an event, a text that is none, or no text;
  what an event makes the process write is `MatchConsumer`, and the handler
  catches what that throws. Two things it does not catch: `getText()` throwing
  (`FailToRead`: the message is lost, the loop ends), and the undefined behaviour
  with fewer than eight groups, which kills the process
  (`CrashReadingWinners`). A listener is
  destroyed in its destructor's `Stop`, and the connection after both, since
  each listener owns a share of it.

Operators whose comment begins with "Mutation:" are wrong variants of the
operator after them. No specification uses them; they show that the properties
notice such a bug.

## 3. Runs

Every run finishes within three minutes on two workers. Constants of every run are in its `.cfg`.

| run | question | instance | result |
|---|---|---|---|
| `MCBracket` | is the matches table a cup up to the final (`RefinesCup`), do the recorded winners go on, does each decided round get its successor? | 8 groups of 3, group stage played with three kinds of tie, home wins; one fault, fair | holds |
| `MCGroupStage` | do full groups get their group stage and the played group stage its round of 16; what does a crash or an error leave behind? | 2 groups of 3, two results per match, one fault, fair | holds; after a fault the stored group stage is a prefix, and the knockout waits for that prefix only |
| `MCGroupsSerial` | are the group rules kept by requests one at a time? | 2 groups of 2, 3 registered teams and an unknown one, all operations, requests that die, rows that move | holds |
| `MCGroupsRace` | how wrong can concurrent requests get? | 2 workers, one group of 2, adding, creating and removing | overshoot at most workers - 1; announced teams are stored |
| `MCSystem` | does whoever completes the draw trigger the group stage? | 2 groups of 3, two teams missing, 2 workers, a match made by hand, fair | holds |
| `MCGroupTable` | do documents, listing and standings agree and stay sound after every order of scores and corrections? | 2 groups of 3 and a match between them; 6 score payloads, 3 of them out of range or wider than an `int` of 64 values; two teams share a name | holds |
| `MCRegistry` | do the routes keep what a directory promises (`Directory`), are the answers true, are there orphans? | 2 workers, 2 names, 2 ids, 4 requests of every form, one failing call | holds |
| `MCConsumerProcess` | does the process end and start in order, when do messages wait forever? | 2 listeners, 2 messages of three kinds, 3 faults, fair | holds: they wait behind a dead thread of a live process, or for a process that has ended for good |
| `MCConnectionPool` | lost connections, lost wake-ups, starvation, the lease | 4 threads, 2 connections (the deployed size), deadlock checked | holds |

Runs that show a disagreement between the code and what its comments, tests or
messages say (each is a finding in `PROJECT.json`):

| run | what TLC finds |
|---|---|
| `MCDrawnTie` | a drawn knockout match has a `winnerTeamId`, but the bracket stops |
| `MCPremature` | a score recorded while fixtures are inserted opens the round of 16 too early |
| `MCFewGroups` | fewer than 8 groups: the quarter-finals read winners that do not exist |

More properties fail when a restriction of a passing run is lifted:

| lift | in | fails |
|---|---|---|
| `Corrections = TRUE`, `Starts <- MCPlayedStarts` | `MCGroupStage` | `OneMatchPerRound`: a corrected group result adds a round-of-16 match for a team that has one |
| `Worker = {w1, w2}` | `MCGroupsSerial` | `CapacityRespected`, `OneGroupPerTeam`: two requests take the last place, or add the same team |
| a payload `<<1, 1>>` | `MCGroupsSerial` | `OneGroupPerTeam`: the batch is never compared with itself |
| `Ops = {"create"}` with a full second group as payload, or `{"batch"}` | `MCSystem` | `CompleteDrawGetsFixtures`: nothing is announced |
| `RowsMove = TRUE`, four groups, one rename between two score events | `TournamentSystem` | `OneMatchPerRound`: `select_groups_by_tournament` has no ORDER BY, so the second event pairs other teams, although `WorldCupStrategy.hpp:218` calls the order deterministic |
| `Worker = {w1, w2}`, `Ops = {"add", "rename"}` | `MCGroupsSerial` | `TeamsStay`: the rename writes back the team list it read and drops a team added in between |
| the condition that the client sent no id | `AnswerNamesTeam` | the answer names the client's id, which is no row (`TeamController.cpp:84`) |
| POST of a match among the operations | `AbsentMeansNotFound` | `has_value()` is true of a null pointer, so a match of an absent tournament gets as far as the foreign key and is answered 500 (`MatchDelegate.cpp:137`) |
| `SendMayFail = TRUE` | `MCSystem` | `CompleteDrawGetsFixtures`: the last team is stored, its announcement fails, and the retry is answered 409 |
| nothing; `<<65, 0>>` in an `int` of 64 values | `MCGroupTable` | a score out of range is stored as `<<1, 0>>`: `DocumentsCoherent` says that what is stored is legal, not that it is what was sent |

The other restrictions are lifted by a run of their own: `EagerScoring = FALSE`
(no score while fixtures are being inserted) by `MCPremature`, no draws among
`Scores` by `MCDrawnTie`. `MCBracket` keeps `EagerScoring` TRUE because its group
stage is stored from the start.

**Bounds.** `MaxFaults` (database errors, crashes, refused messages, broker restarts),
`MaxScoreEvents` and `MaxTeamEvents` (queued messages), `PatchWorkers` (PATCH
requests between commit and publish), `MaxRequests` (requests of `Registry`),
`MaxMessages` (messages sent to the consumer), `IntSize` (the values of an
`int`; 64 is more than the 11 legal scores and leaves both signs), the sets `Scores`, `Payloads`, `Worker`.
Groups of three are the smallest the strategy accepts; two groups are the
smallest draw it pairs; eight groups are needed once, for the bracket, whose
group stage is therefore given. Two workers are enough for every
check-then-act race here, as each involves one stale read and one write; the
proved bound covers any number. In `MCRegistry` four requests let two racing
ones meet a row made before and be asked again after; workers, ids and names
are symmetric, as no definition tells one from another. In `MCConsumerProcess`
three faults can end one loop, spoil a restart and kill the process. Four threads on two connections allow two
waiters and two returns at the same time, which a lost wake-up needs.

**Deadlock** is not checked where a tournament ends (or no request can be
accepted within the bounds, or a consumer waits for messages); it is checked
for the connection pool and the group table.

**Fairness.** A consumer thread loops over `receive()` for the life of the
process, so a busy thread keeps stepping (`ConsumerFairness`, weak fairness
with the enabling condition written as a state predicate). A PATCH that
committed goes on to publish (`MatchServiceFairness`), and an accepted group
request is served to its end (`GroupServiceFairness`). Nothing makes a client
send a request. In `ConsumerProcess` `main()` and the threads run on (a loop that waits for a
message that is there gets it) as long as the process does. A process that
ended may be started again (`Restart`, an operator), but nothing in the
repository does so, and it is not fair; faults and messages are owed nothing.
In the pool a running thread runs on, and a spurious wake-up is never owed. The code acknowledges a message before it
processes it and never retries, so after a fault nothing follows by itself. The
liveness properties therefore say what one message on its way achieves once the
faults are over (`FaultsOver`), whatever state the earlier ones left, and they
assume a consumer that is there: `ConsumerCrash` includes that somebody has
started it again. For the
group stage this needs that no fixture was stored, since a second attempt stops
at the first duplicate (`GroupStageInOrder`, `InsertGroupMatch`).

**Abstract specifications.** `KnockoutCup` has no queues, threads or snapshots:
a fixture enters a round only if both teams have earned it at that moment and
neither is in the round. `MatchProgression` refines it through the matches table
alone; that is where the snapshots matter, for a proposal is computed from
groups and matches read earlier and inserted one by one later. `ConnectionPool`
refines `ConnectionLease` with `lease <- held`. `Registry` refines `Directory`
twice, for the teams and for the tournaments: a directory carries out a call
and answers it in one step, so the refinement says that every call of the
routes, which check in one transaction and write in another, takes effect at
one moment, at most once, and that its answer was true at some moment of the
call; a 500 alone leaves open whether it did. A team is answered, for the
directory, by its INSERT, with the id in the buffer of its thread.

## 4. Proofs

Checked by TLAPS for all values of the constants that satisfy the named
assumptions of the modules: the types and ranges of the constants
(`TeamAssumption`, `FormatAssumption`, `FaultsAssumption`, `TieAssumption`,
`MatchServiceAssumption`, `GroupServiceAssumption`, `GroupSystemAssumption`,
`GroupTableAssumption`, `MatchProgressionAssumption`,
`TournamentSystemAssumption`, `RegistryAssumption`,
`ConsumerProcessAssumption`, `PoolAssumption`), and what a start is
(`StartsAssumption` of `MatchProgression` and of `TournamentSystem`: two tables
and two queues with entries of their types). TLC evaluates them in every run.
Where a theorem needs more, its hypothesis is a named definition in its ASSUME,
given below. Each one holds of a run that checks the property, with one
exception: `TeamsStay` is checked by `MCGroupsSerial`, which renames, and so it
is `TeamsStayWhenSerial`, not `TeamsStayStored`, that covers that run. Section 3 says
what fails when some of them are lifted (a second worker, a list with a team
twice, renames, corrections, scores during the insertion).

`StrategyProofs` proves what the pure operators do, for any number of groups
and teams and any results. The folds (`FlattenSeq`, the sums of a table) are
recursive functions on data; instead of the library's induction theorems, which
take an operator as a parameter, two lemmas on sets of numbers are used
(`LeastElement`, `InductiveSet`). On them rest:

- `FlattenElements`, `RegularPhaseType`: which matches a group stage has.
- `SumExists`, `SumUnique`, `GoalsForIsSum`: a row of the table is a sum over
  the played matches of its team.
- `BetterIsAsymmetric`, `BetterIsTransitive`, `NeitherIsBetter`, `LeaderIsBest`,
  `TopTwoOfGroup`: the comparator is a strict weak order on the rows, rows it
  leaves tied have teams of one name, and the two first of a table are different
  teams of the group such that nobody is better than the first, nor any of the
  others than the second.
- `R16OneMatchEach`, `BracketOneMatchEach`, `ProposalsOneMatchEach`: what is
  proposed for a round has each team once, by rounds from the round of 16 on.
- `ProposalsStay`: what was proposed from a table is still proposed from it
  after more matches of the bracket were added or scored, if results are final.

`MatchProgressionProofs`:

- `TypeCorrect`: `TypeInv` adds what a listener holds in each phase (fixtures
  of the draw, knockout keys, a draw it read that is the draw).
- `InsertedInOrder` (no group match made by hand; a start has the first part of
  the fixtures): `OrderInv` says that the stored ones are the first `n` of the list, and
  that a listener that is inserting either meets a duplicate next, and stops, or
  goes on where the stored part ends.
- `KnockoutWaits` (`OrderlyCup`: no matches made by hand, starts without
  knockout and in order, no score while fixtures are being inserted):
  `PlayInv` says that fixtures are inserted before the first score or
  not at all, so that the check of the score listener, which counts what is
  stored, cannot be overtaken by an insertion.
- `WinnersAdvance` (no corrections, no knockout match made by hand or at the
  start): `RecordedInv` extends the property to the matches that are listed and
  not inserted yet; a recorded winner stays one.
- `SingleElimination` (`FinalResults`: `OrderlyCup` and no corrections; groups
  without a common team): `BracketInv` says that every stored or
  listed knockout match is one the strategy would propose *now*. A snapshot
  older than the last score does no harm, by `ProposalsStay`.
- `CupRefined` (the same, from a start with the whole group stage): a score
  is a play of the cup, the insertion of a knockout match a promotion, every
  other step a stutter. `KnockoutCup` has its own copy of the
  strategy's operators; they are shown equal one by one.

`GroupTableProofs`, with the invariant `DocumentsInv` (every document is one of
a match that was never scored, or what `ToDocument` makes of a legal score):

- `DocumentsTellOneStory`, `RowsHaveAnOrder`: for any groups, any names, any
  numbers sent and any integer width. The round trip through the document loses only
  what was missing (`DocumentRoundTrip`).
- `TablesShowTheListing` (`GroupStageOnly`: the matches between groups are
  group matches, no team is in two groups).
- `BooksAlwaysBalance` (and no team twice in its group): double counting. Each
  match of a group is summed once by its home team and once by its visitor.
- `TheBestLead` (`FairDraw`: also the strategy accepts the groups, and
  no match made by hand is within a group): a team that beat every other has
  three points from each match, and any other team has lost one.

`GroupSystemProofs`:

- `TypeCorrect`: `TypeOK` is not inductive alone; `TypeInv` adds what each phase
  of a request knows (a request in its check or write phase has a group and a
  current team, ...).
- `OvershootIsBounded`, for operations among add, create and remove: the
  invariant `RoomInv` says that a group's length plus the number of writes still
  claimed on it stays within the capacity plus the workers other than the
  claimants: a write uses up the claim of its worker, and a claim is only made
  by a worker that saw room.
- `AnnouncementsAreTrue`, for operations without rename (the one request that
  writes back a list it read before), with the invariant `StoredInv`: the team
  is in before its event can be sent, and the id of a group that is still to be
  inserted occurs in no event and in no other request, so a removed group never
  comes back under an announced id.
- `TeamsStayStored`: the action property, from the same invariant; the lemma
  `WithTeamElements` says that `jsonb_insert` loses no team.
- `NobodyIsInTwice`, `NoGroupOverfull`, `TeamsStayWhenSerial` (`Serially`: one
  worker, no list of teams with a team twice), for all operations and requests
  that die anywhere: `SerialInv` adds to the two properties what a request knows
  in each phase (`Knows`: the list it read is the stored one, the teams it has
  checked are free and different, there is room for those it still has to add).

`TournamentSystemProofs`. A step of the system is a step of `GroupSystem`, of
the match routes or of the consumer, so the proofs about the parts are used as
they are (`G == INSTANCE GroupSystemProofs`, `GroupStepIs`):

- `TypeCorrect`: now the groups change under the listeners. `RowsInv` (the row
  order lists exactly the stored groups, and the id of a group to be inserted is
  known to nobody else) is what makes a SELECT return a draw.
- `FixturesStayWithinGroups` (`DrawOnlyGrows`: no rename and no remove, no group
  match made by hand): `WithinInv` includes the fixtures that are
  listed and not inserted; groups only grow after they were read.

`RegistryProofs`, with the invariant `Safe`:

- `TypeCorrect`, `OrphansNever`: a row is only inserted or kept while its
  tournament is there, which the foreign keys in `Allowed` give at the moment of
  the statement; what the request looked up before plays no part.
- `SavedOrTakenAlways`, `AnswersNameTeams`: `Founded` says what the answer of a
  request for a team rests on in each phase (the buffer names the row from the
  INSERT to the answer, and unless a call failed, a refusal rests on a row that is there or on the id
  of the request). It is preserved by
  the other workers because no route changes or removes a team and because a
  buffer belongs to one thread.
- `AbsentIsNotFound` (with `AllStayAbsent`): a lookup that would miss keeps
  missing until it is made, since no INSERT draws an id that a request under way
  asks about; so the request never gets past its lookup.
- `TournamentsImplementDirectory`, `TeamsImplementDirectory`: `Staged` (a
  request has a code exactly when it is answered) makes a call pending until
  the step that answers it. A 409 or 404 is the directory's refusal at the read
  that saw the row or missed it; the statement that writes is the success, its
  unique index giving what the earlier read could not promise; a failed call is
  the error, with or without the change. `AnswerSaveTeam` is a stutter.

`ConsumerProcessProofs`, with the invariant `LifeCycle`:

- `TypeCorrect`, `SessionsNested`: the phase of `main()` bounds those of the
  threads (none runs before the connection is started, all have ended when the
  destructors run), and the phase of a thread says what it has open.

`ConnectionPoolProofs`:

- `TypeCorrect`.
- `ConnectionsConserved`: the invariant states that a thread holds a
  connection exactly while it is using it, and that queue and hands partition
  the connections; each of its parts needs the others when a connection moves.
- `WakeupsKept`: a waiter implies as many active threads (about to take or to
  notify) as queued connections. Only counting makes it inductive: a taker and
  a notifier each leave the active set with one connection, or one waiter,
  accounted for.
- `PoolImplementsLease`: every step is a step of the lease or a stutter, using
  conservation to show that the connection taken from the queue is free.

Only model-checked: liveness, which TLAPS does not treat (`NextRoundFollows`,
`GroupStageFollows`, `RoundOf16Follows`, `CompleteDrawGetsFixtures`,
`ServedUnlessDead`, `WaitersGetConnections`), and the three runs that
show a disagreement. Every safety property of the other runs is proved.
Restrictions of the proofs that are not known to be needed:
`CupRefined` starts from a stored group stage (as `MCBracket` does), and
`KnockoutWaits` from no knockout matches and without matches made by hand.

## 5. Not modelled

`QueueMessageConsumer` and `MatchCreationListener` are started by no program.
The GET routes change nothing; of them only the listing of matches is modelled,
for its filter. `TeamController::UpdateTeam` and `DeleteTeam` are registered
under no route. What a route refuses before its first repository call changes
nothing and is left out; of the routes of teams and tournaments, what is refused
later is in `Registry`. The format of a
tournament is a constant: PATCH may change it (and resets it when the body has
none, `Utilities.hpp:107`) while its groups are being filled, which would need
the whole system with a variable format. The API builds its objects,
the broker connection included, inside the first request that needs them; what
the dependency-injection library keeps when that fails is not in the
repository. A repository method is modelled when a modelled route or the
consumer calls it. Connections that died are not told apart from good ones in
the pool: the code never checks them either. The pool is modelled on its own
and not composed with the rest: a repository call takes one connection and
returns it before the next call, so it adds delay and no other behaviour. Build
files, tests and the load test are no part of the running system.

Four hazards have no property: a group match made by hand before the draw is
complete makes the insertion of the same fixture fail (`GroupStageFollows`
assumes that there is none), more than eight groups, for which
`CreatePlayoffMatches` is modelled and no instance is small enough, the
format that PATCH resets, and a group that is deleted between the check and the
UPDATE of an added team, after which an event announces a team of a group that is
gone (the step is in `MCGroupsRace`, but nothing promises anything of it).

## 6. How it was built, and what would come next

In this order: `WorldCupStrategy`, `TournamentStore`, `MatchService`,
`MatchConsumer`, `KnockoutCup`, `MatchProgression` (the progression is what the
program is for); `GroupService`, `GroupSystem`, `TournamentSystem` (races on the
groups and their effect on the draw); `GroupTable` and `MatchDocument`;
`ConnectionLease`, `ConnectionPool`; `Directory`, `Registry`;
`ConsumerProcess`; the proofs of the pool, of the group routes, of the registry
and of the consumer process; then `StrategyProofs`, and on it the proofs of the
group table, of the match progression with the refinement of the cup, and of
the whole system.

What would add most now: a variable format in `GroupSystem`, a liveness run
with hand-made matches, and the theorems of the progression under weaker
hypotheses (`SingleElimination` and `CupRefined` with matches made by hand,
`CupRefined` while the group stage is still being inserted).
