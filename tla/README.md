# AHDNative: models and proofs

AHDNative is a political simulation packaged as a Tauri application: a Rust
shell, a React page, a web worker that holds the game, and a deterministic
TypeScript engine. This directory specifies the parts of it in which order,
failure and interleaving decide whether the program is right, model-checks them
with TLC and proves the central ones with TLAPS. Every definition is translated
from the source; `PROJECT.json` gives, for each, the file and the lines.

## 1. Inventory of the system

| Component | State it keeps | Operations | What is hard about it | What makes it correct |
|---|---|---|---|---|
| Native save store (`src-tauri/src/save_store.rs`) | the `saves` directory, a process-local mutex and temp counter | save, load, delete, list | several copies of the app share the directory; crash or power loss between any two file operations; every file operation may fail | a slot shows one complete save; an acknowledged save survives; writes never touch each other's temps |
| Ask stream pump (`src-tauri/src/ask.rs`) | table of live requests, one thread per question | ask_send, ask_stop, account queries | five exits of the pump race with Stop | one terminal event per question and nothing after it; no entry leaks |
| Ask panel (`src/ask/AskPanel.tsx`) | thread on screen, composer lock, account | send, listen, stop, threads, change of account | state read before an await and used after it, events that overtake replies | an answer lands in its own placeholder; the lock ends |
| App shell and client (`src/App.tsx`, `src/game/client.ts`) | run lock, open client, slot, view | new game, load, move, save, exit, delete, sign-in bounce | each operation is several awaits, any of which fails or times out | a slot holds its own game; "saved" is true; no worker is left behind; the lock is released |
| Worker and session (`src/game/worker.ts`, `session.ts`) | the world, the inbox | about eighty commands, serialize, recordSave | a command that throws half-way | a command works on a clone and commits or leaves the world alone |
| Browser save store (`src/game/storage.ts`, `savePayload.ts`) | IndexedDB or the native store | save, load, list, remove | transactions that abort | a failed write is never reported as a success |
| Legislation (`packages/engine/src/legislation`, `npp/nppBillSponsorship.ts`, `phases/billLifecyclePhase.ts`) | bills, policy ledger, enacted laws | sponsor, repeal, filibuster, vote, sign, expire | many bills on one law in flight; two stores retired by two loops; deadlines over turns and chambers | the last bill signed rules; the stores agree; charges come back once; every bill ends |
| Sign-in watch (`src-tauri/src/lib.rs`, `ask.rs`) | claim flags, one webview, the cookie jar | leave for the provider's page, poll, come home, give up | two watches navigate the same window while the player walks away or comes back; the page script that asked is gone | nobody is stranded on a remote page; a claim always comes back |
| Multiplayer session (`mp_session.rs`, `mp_view.rs`, `src/mp`) | a scripted hidden window | fetch, mutate, sign in and out | a timed-out mutation may have been applied by a service outside the repository | an outcome belongs to the call it answers |
| Turn pipeline (`engine.ts`, `phases/registry.ts`, `rng.ts`) | world, random state | advanceTurn | order of about eighty phases | deterministic given the state |
| Save format (`save.ts`, `saveCompatibility.ts`) | none | validate, migrate | size | round trip of every world |
| Player actions (`actions/execute.ts`) | action points, cooldowns, funds | one entry for about sixty actions | refunds on refusal | charges and refunds balance |
| Unions and bargaining (`unions/`, `corporation/corporationLabour.ts`) | campaigns, agreements, ballots, strikes, the strike fund | call, counter, accept, withdraw, escalate, ballot; deadline, lapse, expiry, ban upkeep, NPP answers | a long protocol between player, members, NPPs and turn phases, over locals and employers that are sold, merged and dissolved | one deal per employer; members are never overruled; strikes and campaigns end |
| Referendums and secession (`referendum/`) | records, their consent bills, who owns a region | request, campaign, poll, consent, actuation | the bills travel through the bill phase while the record ages in its own | a region leaves once, after every house consented; no stage hangs |
| Impeachment (`impeachment/`) | cases | two votes by turn | nothing files a case yet | – |
| Elections and government | races, offices | filing, primaries, resolution | many phases | offices and seats agree |
| Finance, banking, bonds, forex, corporations, trade, markets, extraction | balances | turn phases | floating-point arithmetic | conservation up to rounding |
| Campaigns, parties, NPPs, events, wars | scores, rosters | turn phases | seeded heuristics | bounded effects |
| Content packs, shared rules, UI, scripts, smoke tests | tables and screens | – | – | – |

How they interact. A click in `GameScreen` calls a handler of `App.tsx`, which
takes the run lock and posts a request through `GameClient` to the worker; the
worker calls `GameSession`, which runs the engine on a clone of the world and
commits it. `App.tsx` then serialises the world and hands it to
`saveRepository`, which in the native build invokes the Tauri commands
`save_game`, `load_game`, `delete_save` on a blocking pool, where
`SaveStore` does the file work. The Ask panel calls `ask_send` and listens to
`ask-stream` events broadcast by pump threads; before it leaves for the sign-in
page it asks the shell to save. The multiplayer screen reaches the web game
through a scripted second window. On a phone both sign-ins take the app's one
webview away to the provider, and a native thread brings it back. Legislation runs inside the engine: the player
files through `executeAction`, NPPs file in their turn phase, and one phase per
turn moves every bill, those among them by which a parliament consents to a
region's leaving. Bargaining runs in `corporationTurn` (strikes) and `unionsTurn`
(campaigns, ballots, bans, NPP answers), between the player's commands.

## 2. Modules

| Module | Models | State ↔ code |
|---|---|---|
| `SlotRegister` | what the save store promises, without files | `value` is what a load sees, `stable` what a power loss leaves, `reply` what a caller was told, or the operation, slot and payload of the call it waits in and whether that took effect |
| `SaveStore` | `save_store.rs`, step by step | `dir`, `disk` are the slot names as processes see them and as the disk has them; `temp` the temp files; `lock` and `seq` the mutex and `TMP_SEQ` of each process; `call` where each thread is |
| `SaveStore_proofs` | theorems about `SaveStore` | – |
| `SaveStore_refinement` | the proof that `SaveStore` implements `SlotRegister` | – |
| `AskStream` | `ask_send`, `ask_stop` and the pump | `tracked` is `AskStreamState`; `stop` the flags; `events` the broadcast queue |
| `AskPanel` | `AskPanel.tsx` over `AskStream` | `activeReq` the state, `activeReqRef` the ref a render copies it to, `msg` the placeholders |
| `AskPanel_proofs` | theorems about `AskPanel` and the pumps below it | – |
| `AppShell` | `App.tsx` with client, worker and store | `op` is the operation holding the run lock and the await it is at; `workers` every worker started; `disk` the store |
| `AppShell_proofs` | theorems about `AppShell` | – |
| `StatuteBook` | what legislation promises a country, without chambers, ballots or influence | `measures` is what each bill is to those who live under it, `inForce` what they are shown |
| `BillLifecycle` | a country's legislation | `bills`, `policyLedger`, `enactedLaws` are the world's fields of those names |
| `BillLifecycle_proofs` | theorems about `BillLifecycle`, among them that it implements `StatuteBook` | – |
| `Dealings` | what bargaining promises a union and its employers, without offers, ballots or strikes | `book` is each campaign's matter: with whom, talks or pact or rest, and until when |
| `Bargaining` | a union's bargaining with the employers of its industry | `camps` and `agreements` are the world's rows; `strike`, `cooldown`, `gap` the fields of a local; `fund`, `leader`, `lastCall` those of the union; `phase` and `todo` where a turn is |
| `Bargaining_proofs` | theorems about `Bargaining`, among them that it implements `Dealings` | – |
| `Secession` | what a union promises its regions, without campaigns, bills or houses | `standing` is how each region stands: in, asking, agreed or out |
| `Referendum` | referendums on leaving the United Kingdom | `refs` is `world.referendums`; `bills` the consent bills of each record; `owner` and `country` the countries of region and player |
| `Referendum_proofs` | theorems about `Referendum`, among them that it implements `Secession` | – |
| `SignInWatch` | both sign-ins on a phone | `claim` the two flags, `thread` the commands and the watches they become, `page` what the one webview shows |
| `SignInWatch_proofs` | theorems about `SignInWatch` | – |
| `MC…` | constants of the TLC instances | – |

One action stands for one uninterrupted stretch of code: a file operation under
the mutex, the code between two awaits of the page, one handler call of the
engine. What follows an action unconditionally in the code is part of it (the
rename's directory entry and the change number, the worker disposal when
`replaceWorld` fails, the signing that a decree triggers inside the same
command, the expectations that a settlement restores). A turn of bargaining is
several actions, one per campaign visited, because what one campaign takes from
the fund decides what is left to the next. Failures are disjuncts of the action that may fail.

`AskPanel` EXTENDS `AskStream`: panel and pumps share the event queue and the
table of requests, and the composed next-state relation interleaves them.
`AppShell` sees the native store through what `SlotRegister` promises: an
acknowledged write is on disk, a failed one may be.

Four components have an abstract specification, checked as a property of their
run and proved (section 6); the refinement mapping stands at the end of the
detailed module.

* `SaveStore` refines `SlotRegister` (`RegisterKept`): a slot's value is what its
  name shows (or "torn" when the bytes under the name are not those of a whole
  save), its stable value what the disk shows, and a caller's reply is the result
  of its last call. A call under way shows what was asked for, and it has taken
  effect once its rename or its `remove_file` is behind it. The register changes
  a slot only by a call for that slot, at most once, to the payload of that call
  (or to nothing, for a delete); says "saved" or "deleted" only of a call that
  took effect; answers a load with the value of the slot asked for; and fails
  either without effect or with a complete save that is not known to be durable.
* `BillLifecycle` refines `StatuteBook` (`StatutesKept`): a bill is a measure that
  is filed, law or dead; a law has ended when its ledger row was retired; what is
  shown as in force are the enacted laws that are not retired.
* `Bargaining` refines `Dealings` (`DealingsKept`): a campaign is a matter with one
  employer that is in talks, has become a pact until its agreement ends, or has
  failed and rests until its cooling-off is over. Offers, ballots, strikes, the
  fund and the locals are hidden.
* `Referendum` refines `Secession` (`UnionKept`): the last record of a region says
  how the region stands; the consent bills are hidden.

Comments and tests a property quotes are named, with their lines, in the comment
above it.

## 3. Runs

| Run | Question | Instance and bounds |
|---|---|---|
| `save_store_safety` | Do slots stay whole, acknowledgements durable, temps private, and is the register refined? | 2 instances, 3 threads (two in one process), 2 slots, 2 payloads, 2 pids, 2 attempts, 2 calls, 2 crashes |
| `save_store_liveness` | Does every call return? | 1 instance, 2 threads, 3 calls, 1 crash |
| `ask_streams` | Do answers, terminal events, entries and the lock behave? | 2 questions, 2 request ids, 1 progress line, 1 thread opened |
| `ask_old_account` | Does nothing of the old account stay? (violated) | 2 accounts, 2 conversations, 2 changes |
| `bill_lifecycle` | Are laws carried, on time, charges returned once, and do ledger and laws tell the same story? Do they keep a statute book? | 2 chambers, 2 bills over 2 catalogue laws and the tariff, 1 region, 7 turns (the longest life of a bill), ballots below, short of and beyond cloture |
| `bill_repeal` | Does a granted repeal remove the law? (violated) | 2 bills, 5 turns |
| `app_shell` | Are slots, claims, workers, deletions and the lock right? | 2 games, 1 change per world, 4 workers, reloads |
| `app_bounce` | Does the sign-in page open only when nothing is under way? (violated) | 2 games, 3 workers |
| `bargaining` | Is there one dealing at a time with each employer, voted on where it must be, and does everything end? | 2 employers with a local each, 2 campaigns, 5 turns, 1 sale, merger or dissolution; symmetry of the two employers |
| `bargaining_rows` | Does every campaign's employer exist? (violated) | same |
| `referendum` | Does a region leave only by consent and in time, and is a question put only in its turn? | 2 regions, one of which needs two parliaments, 4 referendums, 12 turns |
| `sign_in` | Is nobody stranded, and does Sign in always work again? | 2 sign-ins, 3 threads, watches that poll 2 and 3 times |

Why the bounds are enough. The store's hazards are between two calls (two
writers, or a writer and a reader or deleter, in one process or in two) and
between a call and what a crash left behind under a pid that is then reused: two
calls, two pids and two crashes have every such pair; a second slot shows that a
call answers for its own. Two attempts show both the
retry and the exhaustion of names. Two questions are what the composer's lock is
about. Seven turns let a bill go through both chambers and the executive's whole window
with a second one filed beside or behind it, and two bills on one law, in one
place or in two, contain enact–replace, enact–repeal and repeal–enact in either
order of signing; the theorems of section 6 lift the number of bills. In the
shell, a world needs one change to be newer than its save, and four workers are
the first one, an open game, a replacement and one more after a reload.

`bargaining` scales the source's clocks down (deadline 1 and
lapse 3 turns for 8 and 16, a ballot of 2 for 3, strikes of 2 with a cooldown of
3 for 4 and 12, an expectation that wears off in three turns and so, as in the
source, is not yet met when a strike has run its time), so that five turns contain a campaign that runs to its lapse,
one that settles and one that opens after its cooling-off; a fund of two strike
calls runs dry. `referendum` scales its windows down in the same way (2, 2, 1
and 2): twelve turns contain two referendums of one region in sequence beside one
of the other. `sign_in` has a thread for each watch and one for a late tap.

Every bound is a named constant and appears in the guard it limits: `MaxCalls`,
`MaxCrashes`, `MaxSeq` (assumed and proved large enough never to bind), `MaxQuestions`,
`MaxLines`, `MaxOpens`, `MaxTurn`, `MaxBills`, `MaxMoves`, `MaxWorkers`,
`MaxCampaigns`, `MaxUpheavals`, `MaxFund`, `MaxReferendums`, `Threads`. Because
they stop a behaviour, the runs do not check for deadlock; `SignInWatch` stops
where the webview is closed for good and its watches have ended.
`save_store_safety` uses symmetry over slots, payloads, pids and the two threads
of one instance, which no constant distinguishes; no liveness is checked there.

## 4. Fairness

* `SaveStore`: weak fairness of each thread's `Work`. A blocking-pool thread
  runs until it returns and each file operation ends or fails. The mutex of the
  standard library is not fair, so `CallsReturn` rests on the finite number of
  calls, as its comment says. Nobody has to call, crash or write back.
* `AskPanel`: weak fairness of each pump (its HTTP request has a time-out of
  600 s), of the command, of the panel's renders and of its listener. The player
  need not do anything.
* `AppShell`: weak fairness of the client's timer, of the rejection it causes
  and of the store. A worker need not answer: this is what the timer is for.
* `SignInWatch`: weak fairness of each thread. The operating system runs it, a
  sleep ends and a call into the webview returns; the player need not sign in,
  come back or tap again.
* `BillLifecycle`, `Bargaining`, `Referendum`: no fairness. That a bill, a
  campaign or a referendum ends is stated with turns (`NoBillHangs`,
  `NoCampaignHangs`, `StrikesEnd`, `NoReferendumHangs`), because ending a turn is
  the player's choice.

## 5. What the runs show

The passing runs show that on these instances

* every interleaving of saves, loads and deletes of two processes, with i/o
  errors, crashes and power losses, is one a set of atomic registers could have
  shown, each call acting on its own slot, in one step and with its own payload,
  and each answer telling what was done (`RegisterKept`); slots are never torn, acknowledged saves are durable,
  temps are not shared and not removed by others;
* an answer reaches its own question, a stream says nothing after its terminal
  event, its entry goes away, and an unstopped question is answered;
* a game is saved to its own slot only, what the shell calls saved is what it
  shows, a deleted save is not recreated, an open game is given up only for one
  that exists, and the run lock is always released;
* laws were carried by each chamber they had to pass, a filibuster demands its
  three fifths, no bill outlives its stages, the last bill signed decides what
  is in force, and both stores and the player's influence agree with it; a
  measure becomes law in one step with the end of what it replaces, and is law
  or dead for good (`StatutesKept`);
* an employer has one deal at a time, a failed one gives it a rest, and nothing
  cuts pact or rest short (`DealingsKept`); members vote on the standing offer only and
  are not overruled, no local is left with an expectation that a called strike
  forced up, and campaigns, ballots and strikes end in time, also where the
  parties refuse to move or the local has changed hands;
* a region leaves the country by one carried referendum that every house consented
  to, no referendum runs beside or too soon after another (`UnionKept`), and none
  hangs;
* when the player walks away in the middle of a sign-in, a watch of that sign-in is
  still there to bring the app home, and the claim is free again afterwards.

The violated runs are disagreements between the code and what it says of itself
(see `findings` in `PROJECT.json` for the quotations):

* `AskPanel.tsx:177` "nothing from the old account may stay visible": a
  conversation requested before the change of account arrives after it.
* `App.tsx:338` "the bounce cannot open mid-write": a save asked for while the
  run lock is taken returns at once.
* `legislation.sim.test.ts:459` "repeal … when enacted removes effect": a repeal
  that names no region is granted on a region's law and leaves it in force.
* `unions/campaigns.ts:170` "union/employer pointers must resolve": an employer
  that is nationalized, or dissolved over a defaulted bond, leaves its rows
  behind, and every later access to any row throws.

Behaviours the models contain that a reader of the code should know:

* The composer's lock of the Ask panel is read from a ref that is set after an
  await and a render, so a second question slips in. A stopped stream that ends
  without another line emits no terminal event, and a terminal event that
  overtakes the reply of `ask_send` is dropped: the composer then stays locked.
  (The comment at `AskPanel.tsx:351` promises more; the properties here say what
  does hold: answers still reach their own questions, and a question that is
  listened to from its first event on unlocks the panel.)
* One service's watch sees only whether the webview is on the app's own origin,
  so a session that lands while the other service's page is shown takes the view
  away from that page; and a watch that finds a session takes the view home even
  when the player is there already, whatever the comment at `ask.rs:444`
  says of it. Neither strands anybody.
* No code sets a union's `suspended` flag, so the branches on it are dead.
  `runNppBargainingAutoplay` returns at once unless some union is led by an NPP:
  otherwise no employer ever answers a union's offer.
* A strike called on a local that was sold while an agreement protected it ends
  on the next turn, and what it cost is gone.
* The content packs list the Lords first among the UK's chambers and call the
  legislature not bicameral, so `getChambersForBill` routes bills to the Lords;
  consent bills are created active in the Commons and have that one vote.

## 6. Proofs

`SaveStore_proofs` proves, for every number of instances, threads, slots,
payloads, pids, attempts, calls and crashes, that `Spec` implies `[]TypeOK`,
`[]SlotsWhole`, `[]AckedDurable` and `[]TempsOwned`. The assumptions are those
of `SaveStore` (`CallerAssumption`, `BoundAssumption`).

None of the last three is inductive. A rename makes a slot name show whatever is
under the writer's temp name, so `SlotsWhole` needs to know that a write at its
rename has a synced temp (`TempsReady`), which another write could only spoil by
sharing the temp, so it needs `TempsOwned`. That holds because `create_new`
refuses a name under which a file exists, and the file of a write in flight does
exist (`TempsReady` again): neither a reused pid nor a restarted counter can hand
the name out twice. `CallsArmed` says what each step of a call may rely on: a live
process, a slot, a payload, a temp name. `AckedDurable` needs `DiskTrails`: the
change the disk shows is never beyond the directory's, nor is the change a write
between rename and directory sync is about to acknowledge. The conjunction

    IInv == TypeOK ∧ CallsArmed ∧ TempsReady ∧ TempsOwned ∧ SlotsWhole
            ∧ DiskTrails ∧ AckedDurable

is inductive. The proof has one lemma per conjunct and, within it, one step per
action that can disturb it; TLC checked the named parts first.
`ForeignTempsStay` needs no invariant: a step touches only the temp of its own
call, and a sweep only names of its own pid.

That calls return (`CallsReturn`) is liveness, but what it rests on is safety and is
proved. `MutexIsHeld`: the mutex is held exactly by the thread inside.
`CallsNearReturn`: a rank falls with each step of a call and nobody else's step
raises it. `CallsCanGoOn`: whenever a call is under way, some thread of its process
can take its next step. Its only hard part is `MaxSeq`, a bound of the model: an
instance has drawn no more temp names than its calls account for, where a waiting
call still has all its attempts to come and the one at its claim what is left of
them (`DrawsBound`, by the cardinality of the waiting set), so that
`MaxSeq >= MaxCalls * ATTEMPTS` keeps the bound out of every behaviour. What stays
with TLC is the step from these to `~>` under weak fairness.

`SaveStore_refinement` proves `Spec => RegisterKept`: under the refinement mapping
every step of the store is a step of the register or a stutter. A load answers
what its slot holds because `SlotsWhole` makes the bytes under a name a whole
save, so that "torn" is never seen. A rename is the register's change to the
call's own payload because the temp of a write at its rename holds that payload
(`TempsOwned`), and the directory sync is its acknowledgement. To these the proof
adds `StepsFit`: a call is at a step of the operation it was asked for, so only a
save is told "saved", and one that fails at its temp or its rename has not
changed its slot. One lemma per action says which of the register's actions it is.

`AskPanel_proofs` proves `[]TypeOK`, `[]NothingAfterTerminal` and
`[]AnswersMatchQuestions` for every number of questions, requests, conversations,
accounts and lines. A terminal event is the last one because a request that had
one has a pump that can only forget or be over (`EndedPumps`). An answer reaches
its own placeholder because a placeholder carries its question's own key until the
question's request is known and that request's id from then on
(`OwnPlaceholders`), and no two questions ever share a request id. The assumptions
say that `None` is no id, key or answer, and that every conversation has an owner.

`AppShell_proofs` proves every safety property of the shell for every number of
slots, changes and workers. The properties rest on what the operation that holds
the run lock may rely on at each of its awaits (`OpReady`): the worker it waits for
is the client's, or, while a world is built, a new one that nobody else uses; what
is being written is the world on screen, going to its own slot; what has been
written is that world with its notice. `GameShown` ties screen, slot and worker
together and `DiskSane` says that a notice on disk is not ahead of its world, which
a load would otherwise bring on screen. The assumptions are that no slot is
`NoSlot` and that a missing and a deleted save are different from each other and
from every world.

`BillLifecycle_proofs` proves every property of the passing run, for every number
of laws, regions, bills and turns and any ballots. The bills are good one by one
(`GoodBill`): what is signed was carried where it had to be (`Voted`), what is
under way is within its windows (`InTime`), what was charged is the player's
(`Charged`). The laws are a second, independent invariant (`LawInv`): a row or a
law names a signed bill with its own key, and `LastSignedRules` and `StoresAgree`
hold, neither of which is inductive without the other's retiring loop being known
to hit exactly the rows of the key. Signing is by position within a turn, so the
bill signed next must come after those already signed in it (`InOrder`); without
it "the last signed" would not be the one whose row is written last. The charges
are a cardinality, counted over the bills that are charged and unsigned.

`LegislationKeepsBook` proves `Spec => StatutesKept`. One lemma (`EntersBook`) is
about signing, which a decree, a vote and the executive's window share: the row
written and the rows of the key retired, in either store, are what `StatuteBook`
calls entering. What is retired are exactly the laws on the same matter that had
not ended, because `LawInv` ties every row and every enacted law to its bill. A
turn needs `NoBillHangs`, as the book does not let time pass over a measure that
has had its turns. That nothing is unwritten (`HistoryStays`) is a theorem of its
own.

`Bargaining_proofs` proves the type invariant, `OneDealPerPair`,
`BallotOnStandingOffer`, `SettledAsAgreed` and `NoCampaignHangs` for any
employers, locals, terms and clocks. Each row is good with its agreement
(`GoodRow`): its ballot, its clock, its settlement. One lemma per move says that
it makes a good row of a good one, so that the proof of a step only has to say
which row moved. `OneDealPerPair` is about all rows and joins the invariant
because a settlement must not find another agreement. The
answers of a turn are due of campaigns that still run (`TodoLive`), which is what
lets an NPP settle without looking at the status again.

`NobodyLeftForced` and `StrikesComeToAnEnd` are about locals, whose expectations
and strikes outlive campaigns, sales and mergers. A campaign that calls a strike
records the expectation it found, to put it back at the end. The invariant says
that no record is above the real wage (`RecordsLow`), that a local merged away
neither strikes nor expects (`GoneIsQuiet`), and that what a strike forced up has
worn off by the turn the local may strike again (`WearsOff`). Without the last, a
second campaign could record a forced expectation and put it back.

`BargainingDeals` proves `Spec => DealingsKept`. Every step is of one of a few
kinds: it leaves all rows what they are to `Dealings`, it takes one up, it
concludes one, or it moves the clocks. The offers on the table are good
(`OfferGood`), so a pact lasts one of the durations that can be agreed on; and a
new campaign meets nothing open with its employer because `Blocked` looks at
every row of the pair, including agreements that run and those that cool off.

`Referendum_proofs` proves every property of its run. Records are good one
by one with their bills (`Good`): which bills exist and stand where at which
status, and how old each may be. `referendumRequestEligibility` looks at the last
referendum that ended only; `OneReferendumPerRegion` says that every earlier one
has ended before, so the last record of a region is enough (`LastStands`).
`ReferendumsKeepUnion` proves `Spec => UnionKept`: for the same reason the last
record speaks for its region (`LastSpeaks`), and every edge of a record is one the
region may take (`RecordOnwards`), in time because the record's bills are.

`SignInWatch_proofs` proves that nobody is stranded, for any number of services,
threads and polls. It needs `SingleFlight`: a claim is held exactly by the one
watch that is alive, so a page is only ever borrowed with a watch of its own.

## 7. Only model-checked, and not modelled

Only model-checked: every liveness property (liveness under fairness is outside
the proof system's reach: `CallsReturn`, `StreamsForgotten`, `UnstoppedAnswered`,
`ListenedQuestionEnds`, `NeverBusyForGood`, `SignInComesHome`). Every other
property of a passing run is a theorem. Six theorems state properties that no
run checks by themselves: `OneDeal` and `OneAtATime`, which the refinements of
those runs contain, `HistoryIsKept`, and the three about the returning of calls.

Not modelled, in the modelled components:

* save store: `list` (it reads), the details of symlink refusal, the durability
  of a delete (the code does not promise it and the specification lets a deleted
  slot come back), platforms without directory sync;
* Ask: the panel's sign-in phases, quota, feedback, `convId`;
* sign-in: desktop builds, which open a window of their own; a page asked for is
  taken to be shown before the watch's first poll, and navigation to fail only
  when the view is gone; a player who, after a watch has ended, uses the view's
  history to go from the launcher back to a provider's page, where no watch
  waits for him;
* shell: queries, the `loadFixture` test hook, the choices of the creation
  screen, IndexedDB transactions;
* legislation: subsidy bills, state bills, individual votes, action
  points and cooldowns, the effects of a law; statuses no code writes
  (`vetoed`, `veto_override`, `active_both`); consent bills are in `Referendum`;
* bargaining: wages, support, density and margins, which only refuse a move or
  choose between moves that are left open; dues, services, pensions and
  contributions, which are an open income; several unions;
* referendums: shares of the vote and campaigning, which decide an outcome left
  open; what a secession does to budgets and sectors; an actuation that does not
  find the region with its country, or the country it goes to
  (`actuation.ts:121-161`), after which `lifecycle.ts:214-216` leaves the record
  actuating: with the shipped packs it finds them, so the model takes it to
  succeed; a campaign without a closing turn (`lifecycle.ts:181-186`), since
  `request.ts` always writes one; the turn on which an older save's referendum was
  carried, which is taken to be the turn of the load, when the bills it lacks are
  due.

Not modelled at all: the components listed `not_modelled` in `PROJECT.json`, with
the reason. The greater part of the repository's lines is tables (country
boards, catalogues, policy seeds), validators of their shape, and numeric turn
phases on floating-point balances, for which a small integer instance would say
nothing about the code; projections and screens have no behaviour of their own.
The multiplayer bridge has behaviour, but what makes it right or wrong, whether a
call that timed out was applied and whether its repetition is refused, is decided
by a service that is not in the repository. Impeachment cases are filed by no
command. The lines mapped are therefore few beside the whole, and most of those
of the modelled files' state machines.

## 8. State of the plan

Done: `SaveStore` with `SlotRegister`, `AskStream` and `AskPanel`, `AppShell`,
`BillLifecycle` with `StatuteBook`, `Bargaining` with `Dealings`, `Referendum` with
`Secession`, `SignInWatch`, and proofs about each.

What would be worth adding next:

1. Organizing drives and raids (`organizingActions.ts`) and the split of a union's
   treasury between dues, services and contributions, once their amounts are
   integers in the model's sense.
2. `BillLifecycle` and `Referendum` over one list of bills, should consent bills
   come to be filed, repealed or filibustered like any other; today no action of
   the one reaches the bills of the other.
