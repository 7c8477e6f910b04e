# Verification of Joshu: the owner's requests and what reaches the owner

Joshu is a personal assistant that runs on a box of its own: an Express server
(`src/src`), a voice service (`src/packages/voice-realtime`) that holds the
phone calls, and the Hermes agent that does the work. The hard part of it, and
the part modelled here, is the loop between the owner and the work: a request
comes in as a text or a turn of a call, becomes a goal with a card on a board,
changes or is cancelled while workers run, may stop to ask for an approval, and
its result, question or answer has to reach one person over phone calls, SMS,
chat surfaces and the desktop, while calls overlap, carriers answer late or
never, leases run out and the box restarts. Beside it stand the boxes' *teams*,
whose members read and write one room over HTTP, and the *reminders* the owner
asks for, which Hermes runs on a schedule of its own.

## 1. Inventory

| component | state | operations | hard behaviour | what makes it correct |
|---|---|---|---|---|
| **Owner outbox** `realtimeGoals/outbox.ts` | items (`ready`, `offered`, `heard`, `superseded`, `cancelled`), leases, attempts, the owner's presence, the live call, the call in flight; in `state.json`, one transaction at a time | upsert, addAnswer, cancel, mark offered / heard / acked, claim, record, start and finish a callback, active call | transactions of five callers interleave; leases run out under a delivery | an item closes once, is in one hand at a time, is neither lost nor stuck |
| **Delivery policy** `outboxPolicy.ts` | none | route, SMS verdict, plan | missed, rejected, pending; several SMS parts | one way per pass; nothing while an SMS is pending; no SMS after a rejection |
| **Dispatcher** `outboxDispatcher.ts` | one pass in memory | settle SMS, plan, send, place the callback | an await between each read and the write it justifies; a crash at any await | never two callbacks; releases only its own lease |
| **Senders, voice routes** `ownerOutboxSenders.ts`, `voiceCallback.ts` | signed tokens; none else | opener, pending, batch, ack, heard, status webhook, callback | reports late, twice, in either order, after the call | the end of a call frees its items and no others |
| **Voice service** `twilioRealtimeSession.ts`, `nativeToolRunner.ts` | one session per call | opener, polls, batch, reports; turns asked, followed, claimed, detached | requests fail; the owner hangs up at any time | what it says is what it reports |
| **Inline jobs** `inlineJobs.ts` | jobs in memory and in `inline-jobs.json`, waiters, timers | start, wait, claim, detach, finish, recover | claim against timer against hang-up; restart | spoken or texted, not both, not neither |
| **Goal broker** `broker.ts`, `store.ts` | goals with their status, updates not yet on the card, recoveries, delivery; the inbox of texts; the tick's listing, in memory | route a message, queue, clarify, update, answer, reopen, cancel; tick: flush, release, show, recover, ask, finish, publish, tombstones, lost texts | the tick acts on a listing it read before awaits on Kanban, while handlers write the same goals; restart between two steps | an update reaches the card or stays; a cancelled goal has no worker and stays silent; what ends is published; restarts of a worker are bounded |
| **Goal router and threads** `router.ts`, `sessionThread.ts`, … | pointers per session | classify, bind a reply to a goal | a reply bound to a stale goal | an answer reaches the goal that asked |
| **Kanban bridge** `hermesKanbanBridge.ts`, `scripts/hermes-kanban-bridge.py` | the board | create, show, find, reopen, unblock, append_body, cancel | a call fails before or after its effect | creation is idempotent |
| **Action guard** `actionGuard/` | a file for each pending request, its waiters in memory | ask, answer, expire, sweep, clean up | an answer before anybody waits, at the deadline, after a restart; "Y" means the newest | the owner is told what the action got; who asks gets an answer |
| **SMS gateway** `twilioSmsGateway.ts`, `twilioSmsOwnerMutex.ts` | the durable inbox, the mutex's chain in memory | reserve, acknowledge, approve, route, turn, say, complete, recover | acknowledged before it is handled; texts posted again; an approval that waits behind the turn that asks for it | answered, or asked for again, once; one turn at a time |
| **Team rooms** `teams/roomStore.ts`, `membership.ts`, `service.ts`, `routes.ts` | on the boss: members, invites, numbers in `room.json`, entries in `log.jsonl`; on each box: membership, token, cursor | invite, join, write, read, remove, leave | log and `room.json` are two files; reads take no lock and move two positions; entries grow old; replies are lost; a removal races a write | an entry that is not too old is read by every member and skipped by none; a code lets one box in; who is gone writes no more |
| **Team texts, early stand-ups** `teams/service.ts`, `wake.ts` | counts of the day, waiting texts, `wakeSeq`; in the membership | `team_tell_owner`, wake check | a count read before awaits and written after them; texts queued while others are sent | one text once; a limit a day; what waits goes out |
| **Browser handoff** `browserHandoff/` | handoff records | mint, open, finish, expire | expiry races completion | one holder of the browser |
| **Owner reminders** `ownerReminders/service.ts` | records; scripts; cron jobs of Hermes | create, fire, stop, DONE, retire | three stores that no transaction joins; calls to Hermes between their writes; runs and stops cross | an active reminder has its job and a retired one has not; an ended one is silent |
| **Proactive turns** `proactive/` | schedules, budgets | due, send, snooze | budget across restarts | at most the budget |
| **EA mail, coordination** `ea/`, `coordination/` | files | poll, dedupe | restart between read and mark | each mail once |
| whiteboard state, instance agent | operations, releases | reduce, change release | base versions; a failing step | later sittings |
| connectors, Slack OAuth, onboarding, chat surfaces, desktop, box backup, SDKs, scripts | | | HTTP, user interface, I/O | not modelled |

How they interact: broker and inline jobs *publish* into the outbox
(`upsertForGoal`, `addAnswer`, `cancelForGoal`); the broker's tick runs the
*dispatcher*; the dispatcher calls Twilio through the *senders*; Twilio and the
*voice service* call back through the *voice routes*, which write to the outbox;
the owner's messages come in through every channel as `noteOwnerActivity` and
`requestCall`. The *SMS gateway* gives a text first to the *action guard*, then
to the *broker*, and else to a turn of Hermes; the broker's tick reads the
gateway's inbox for lost texts and publishes its notices into the outbox. The
box's store serializes transactions and nothing else. The boxes of a *team* call
the boss's box over HTTPS with a member token; their stand-ups are cron jobs of
Hermes, which the *wake check* may start early. A *reminder*'s job calls back to
the box, and the SMS gateway hands an owner's "DONE" to the reminders first.

## 2. Modules

| module | models |
|---|---|
| `OutboxPolicy` | `outboxPolicy.ts` as operators: `ResolveRoute`, `SmsDeliveryVerdict`, what a text route may be |
| `OwnerOutbox` | the outbox with its dispatcher, routes, voice calls, Twilio and the owner |
| `OwnerPromise` | what the outbox promises, without channels: the abstract specification `OwnerOutbox` implements |
| `MCOwnerOutbox` | small instances for TLC |
| `OwnerOutboxProofs` | theorems about `OwnerOutbox`: the callbacks, the pass, closed items |
| `OwnerPromiseProofs` | more theorems about it: the refinement of `OwnerPromise`, leases, receipts, what calls were given |
| `InlineJobs` | a call's turns, from the request to speech or the outbox |
| `InlineJobsProofs` | theorems about `InlineJobs` |
| `GoalBroker` | the broker with its handlers, its tick, the Kanban board and the workers |
| `MCGoalBroker` | its symmetry and its view for TLC |
| `GoalBrokerProofs` | theorems about `GoalBroker` |
| `ActionGuard` | the life of an approval request; used by `SmsGateway` |
| `SmsGateway` | the owner's texts, from Twilio to the answer, with the requests they may answer |
| `SmsGatewayProofs` | theorems about `SmsGateway` and `ActionGuard` |
| `TeamRoom` | the room on the boss's box, the memberships on all boxes, the reads of their stand-ups |
| `MCTeamRoom` | its view for TLC |
| `TeamRoomProofs` | theorems about `TeamRoom` |
| `TeamTexts` | what one box tells its owner about a team, and the wake check |
| `MCTeamTexts` | its view for TLC |
| `TeamTextsProofs` | theorems about `TeamTexts` |
| `OwnerReminders` | records, scripts and jobs of the reminders, with Hermes's schedule |
| `OwnerRemindersProofs` | theorems about `OwnerReminders` |

### OwnerOutbox and the code

Each `store.transaction` of `outbox.ts` is one action of the same name
(`UpsertForGoal`, `ClaimSend`, `StartCallBatch`, `FinishCall`, `MarkOffered`, …).
An await between transactions is explicit:

- `pc` is where the dispatcher's pass is: `idle`, `settle`/`settling` (reading
  SMS statuses), `run`, `send`/`sent` (a text under way, its result known and
  not recorded), `dial`/`dialed` (a callback likewise). `plan` holds what
  `planOwnerDeliveries` decided; it is *not* looked at again, as in the code.
  `PlanPass` reads the items in one step: the code plans from a snapshot it
  read before `now`, and every use of the plan re-checks the item in a transaction
  (`Deliverable`), so the difference is not visible.
- `offer[c]` is what a poll or a batch fetch read for call `c` before
  `markOffered`; `stopping` a cancellation between its two transactions;
  `redirect` an answering-machine verdict being acted on.
- `Crash` loses `pc`, `plan`, `offer`, `stopping`, `redirect` and keeps
  `state.json`, the phone calls and the carriers' messages.

Time is not a number: a lease, a backoff, a retry or a receipt timeout is a
Boolean that is running and may run out (`SendLeaseLapses`, `CallLeaseLapses`,
`ItemTimerLapses`, `PresenceLapses`, `ActiveCallLapses`). Lapsing while
the delivery is still under way is bounded (`MaxLapses`); otherwise it is free.

What is abstracted: texts, titles and ids of providers; the attempts of an item
(kept: `missed`, `rejected`, `sms`); Slack and Telegram are the one channel
"chat"; a goal's status is only whether it is cancelled (`gone`, `stopping`);
all items share one call window, `hours`; the miss counter stops at `MaxMisses`,
where the policy stops telling values apart; a Twilio call id is one of
`Batches` or `Inbound` (`ForgetCall` makes it free again). Left out:
`ensureMigrated`, `prune`, `recordCallOutcome`, the reply route.

### InlineJobs and the code

`job` is the map in memory, `disk` the file `persist()` writes as a whole,
`turns` the Hermes turns under way, and a set of jobs stands for each await:
`waiting` (POST within the budget), `ending` (`recordBoxTurn`), `speaking` (the
links of a claimed answer being texted), `handing` and `saving` (`addAnswer` and
the `persist` after it), `recovering` (the loop of `recover()`), `timer`.
`client[j]` is the voice service: `asked`, `following`, `claiming`, `detaching`,
and at the end `spoke`, `gone` (left to the box) or `direct` (the POST failed and
it asked Hermes itself). A rejected `addAnswer` outside `recover()` is not
caught anywhere and ends the process, so it is `Crash`. Texts of an answer
and the six hours of retention are left out; a job's id is used once.

### GoalBroker and the code

`goal[g]` is the record of `state.json`, field by field (`GoalRecord` names the
code's field after each of its own), `card[g]` the card of the board, `item[g]`
the outbox items of the goal by content. A process is a handler of an owner's
message or the tick; `proc[p].at` is the await it is suspended in, `snap` and
`reply` what it read before that await and uses after it, `seen` the goals as
the tick listed them. Every `store.update` is one action on the record as it is
*now*, with the values the code takes from the old one:

| code | actions |
|---|---|
| `route` and its branches | `Hear` (a handled source id gets its receipt), then the router's choice: `Pass`, `Queue`, `Status`, `Clarified`, `ReadAnswer`, `Append`, `Reopen`, `CancelItems` |
| `appendOwnerUpdate`, `answerBlockedGoal` | `ReadAnswer`, `Append`, `HeardQuestion`, then the flush |
| `flushOwnerUpdates` | `ReadUpdates`, `WriteUpdates`, `Unblock`, `Settle`; run by handlers and by the tick |
| `reopenContinuableGoal` | `Reopen`, `ReopenCard`, then the flush |
| `cancel`, `retryCancellation` | `CancelItems`, `MarkCancelled`, `CancelCard`, `EndCancel`; the last two by the tick too |
| `tick` | `TickStart`, `TickTake` (the flush first, then by the listing), `TickEnd`; `Throw` ends a walk |
| `release` | `Claim`, `Create`, `Unmade` or `Made` |
| `reconcileTask`, `deliverBlockedPrompt`, `autoRecover`, `publishOwnerItem` | `Show`, then `Nudge`, `Nudged` / `Ask`, `Publish` / `Finish`, `Publish` / `Mirror` |
| `reconcileCancelledTombstone` | `Find` |
| the bridge | `Create`, `UnblockCard`, `ReopenCard`, `CancelCard`, `WriteUpdates`: each may fail without effect or after it |

The world is `Work` (a worker starts, returns, asks, or is parked by Hermes),
`ArchiveCard`, `WindowPasses`, `OwnerHears`. The router's classification is a
free choice among what its inputs allow. Left out: pointers to the active goal
of a session, titles and replies, deferral, delivery commands (they take the
path of an update), answers to a callback. `woke` is a history variable.

What waits for the card (`Waiting`) is more than `pendingOwnerUpdates`: before a goal has
a card, it is all the owner has said, and while the card is being created, what `release`
took along. What is said in between is in no list of the code at all, so `UpdatesArrive`
cannot hold of it (`MergedIntoTheGoal` in section 3). `EndsArePublished` asks for the item of
the end itself, done or failed, not for a delivery that some earlier question finished;
`QuestionsAreAsked` for an item of what the goal is blocked for *now*, which upsertForGoal
may find heard from an earlier time (`ToldAgain`).

### ActionGuard, SmsGateway and the code

`request[r]` joins the file of a pending request, its expiry and where
`awaitOwnerApproval` is. `Ask` is `createPending`; `Notified` is what
`waitForPendingDecision` does when the request's own text has gone out: it
returns what was decided meanwhile, or waits; `Swept` is the marking of expired
requests that listing them does; `Resolve` is `resolvePending`.

`text[m]` is a text at Twilio (`wire`: a webhook still to be posted) and in the
inbox (`open`, `processed`, `marked`), with what became of it (`settled`,
`notices`). `hand[h]` is a run of the webhook and its handler: `reserve` is
before the acknowledgement, everything else after it. A failed reservation gets
a 503 and the text is posted again, as is one whose acknowledgement is lost. `chain` is
the promise chain of the mutex. `tick` is `recoverStaleInbound`. What a
keyword, a reminder, the broker or a turn answers is one text (`Say`); a turn that
the deadline stops ends with a text too. `saw` is a history field.

### TeamRoom and the code

`member`, `seq` and `seen` are `room.json`, `log` is `log.jsonl`; `writing` is the
write that has appended its entry and not yet replaced `room.json`, and with it the
room's lock (`AppendEntry`, then `SaveRoom`). A member is named by the invite code
that made it. A write's token is checked before the lock (`Admit`) and its member
looked up again in it. `mine`, `cursor` and `rejected` are the membership on each
box (`memberId`, `lastReadId`, `rejectedAt`). A read of a stand-up goes through
`AskRead` (check, then `readLog` after the cursor), `NoteSeen` (the boss's `seenSeq`), `Receive` (the
box's cursor, and `track`) and `Hand` (the answer to the stand-up), or `ReadLost`.
`given` and `missed` are history variables: the entries a box was given, and those it asked
for when they were too old. The age of an entry is `today`, `before`, `old` (past
`READ_DEFAULT_DAYS`, seven days) or `gone` (past `RETENTION_DAYS`, ninety): `Ages` moves one
on together with those before it. `Fresh` is the filter of `read`: without a cursor, as
after a join or in a team one comes back to, the last seven days, and with one whatever is
not gone. `CardUnknown` is a card change that gets 404 for its
card and not for its token.

Abstracted: a message and a card change are entries alike; an entry that is gone stays in
the log of the model, where nothing looks at it, until the code's next append; a box has one
membership of the team at a time and one read of its stand-up at a time; reads that
move no cursor (the wake check's, the app's) change nothing but what `track` notes;
the charter, projects, the rules of cards, `unreachableSince` are left out.

### TeamTexts and the code

`told`, `pending` and `woke` are the fields of the membership of those names
(`tellOwnerDay` and `-Count`, `pendingTexts`, `wakeDay`, `wakeCount`, `wakeSeq`). A
call of `team_tell_owner` is `Tell` (the membership is read, the count taken),
then `Queue`, or `SendText` and `CountText`. The wake check is `wake`: for each
waiting text `Pick`, `Show`, `WakeSends`, `Remove`, and then `DecideToWake`,
`RunStandup`, `CountWake`, with the calls that fail, before or after their effect: a
`cron run` whose reply is empty or bad throws although Hermes took it (`RunFails`).
`server.ts` lets one run at a time. `team` is what decides whether the wake check follows the
team at all: not without a `cronJobId`, when Hermes did not create the stand-up, and not with
a `rejectedAt`, which any call answered with 404 sets and any that succeeds clears (`Track`). A date is `today` or `before`, so days are not bounded; midnight falls
outside the wake window (08:00 to 19:00). Which entries of the room need this box is
the environment's choice (`NewsArrives`), and so are the fifteen minutes between
stand-ups (`WakeRests`). Commitments, drafts, blockers, and what the Multiplayer
app writes are left out. `Others` is the code's filter of `pendingTexts`, its k-th element
described instead of computed, since the prover knows nothing of a fold over a sequence.

### OwnerReminders and the code

`status`, `jobId` and `lastRun` are the record, `script` the files, `job` what
Hermes has. `create` is a step per write and per call of Hermes (`Admit`,
`WriteScript`, `MakeJob` or `MakeFails`, `SaveJob`; `UndoRecord`, `UndoScript`), as
is `retire` (`Retire` in the action that ends the reminder, then `RemoveJob`, with
the record as it was then), and a run (`Fire`, `FireOver`, `FireRetired`, then `Text`
or `TextFails`, `Record`). Hermes runs a job one run at a time, a one-time job once;
it runs on for the whole of its life, so `KnownJobsGo` may rely on the next run.
"failed" is a record that was retired as `one_time_failed`, whose job is kept. A closed
linked task and a past end time are one flag. `texted`, `known` and `late` are
history variables. The syntax of schedules, DONE's window and its comparison with
the last nudge, and the email channel are left out.

### Mutants

An operator after a comment "Mutant:" is never part of a specification. It is
the next operator as a plausible bug would have it, and stands for it in a check
that the named property notices.

## 3. Runs

| run | instance | shows |
|---|---|---|
| `callbacks` | 1 result, 2 callbacks, 1 fault, hours that close | two callbacks about one result: placed, failed, reply lost, answered by a machine, missed, followed by a text; types, one callback at a time, one way per pass, and `OwnerPromise` |
| `restarts` | 1 result, a restart, a lapsing lease, fair | the same across a restart: an item held for a callback has that callback in flight, and what is published is settled |
| `inbound` | 1 result, 1 callback and 1 inbound call, no SMS, 2 polls | a call of the owner crosses a callback: an acknowledgement closes what was said, an unlock is no miss |
| `texts` | 1 phone answer, SMS of two parts, 2 faults, a restart, a lapse | SMS only: no text after a rejection, nothing else while one is pending, heard only once the carrier has taken every part |
| `results` | 2 results of one goal, 1 callback, every override | superseding and cancelling what is being sent, rung about or read out: one open item, and closed ones stay closed |
| `inline` | 2 turns, 1 fault, 1 restart, fair | spoken or texted, never both; every answer arrives, and what a restart interrupts is reported |
| `goals` | 1 goal, 3 messages or the same again, 1 handler beside the tick, 1 Kanban fault or restart | the restarts of a stopped worker are bounded although the count is written from a stale listing; what waits for the card waits no more only when the card has it |
| `goals_live` | 1 goal, 1 question its worker may ask and ask again, 2 messages, 1 recovery, 1 Kanban fault or restart, fair | what waits for the card gets there, the end of a goal is published (across the fault or restart: if the owner has heard nothing else of it), what a goal is blocked for is asked, and a cancelled goal leaves no live card, wherever the fault or the restart comes |
| `sms` | 1 text posted once or again, 2 handlers, 1 request, 2 faults, 1 restart, fair | the owner is told what the action gets; one turn at a time; an acknowledged text is answered or its loss told, once; every request ends |
| `team` | the boss and 1 box, 1 code, 2 entries of every age, 1 write a day, endless days, 1 lost reply or restart, fair | a cursor passes only what its stand-up was given or was too old when it asked; who is gone is silent; every entry that is asked for in time reaches every member |
| `texting` | 2 calls, 2 texts, 1 task, limits of 1, 2 faults or restarts, endless days, a team that is followed, rejected or without a stand-up, fair | one text once; no waiting text waits for ever while the wake check follows the team |
| `reminders` | 1 recurring and 1 one-time reminder, 1 fault or restart, fair | an ended reminder texts at most once more; a retired one whose record had its job's id loses the job |

**Known divergences no run checks.** The modules also state these, each under
"What the repository says ... and the code does not keep". They are false of the
model, and of the code by the behaviour described: TLC shows it with the `cfg` of
the run named, the definition in place of its properties, and without the `VIEW` where the
definition looks at what that hides.

| definition | what happens | instance |
|---|---|---|
| `OwnerOutbox!NoDialOnLiveCall` | a callback planned before the owner called in is dialled during the call (`outbox.ts:648`; `outboxPolicy.ts:7` says it is not) | `inbound` |
| `OwnerOutbox!NeverCutOff` | the owner passes the gate between the verdict check and the redirect (`voiceCallback.ts:362` says never) | `callbacks` |
| `OwnerOutbox!NotOfferedWhileSmsPending` | a call offers a result whose SMS waits for its receipt (`outbox.ts:604`; `outboxPolicy.ts:17`) | `inbound` with `SmsOn` |
| `OwnerOutbox!AnswersAreNeverDropped` | a phone answer whose SMS is rejected is never delivered (`inlineJobs.ts:387`) | `texts` |
| `OwnerOutbox!UnlockedIsNoMiss`, across a restart | an unlocked callback counts as a miss when the restart came between Twilio's reply and `callPlaced` (`outbox.ts:579`) | `restarts` |
| `OwnerOutbox!UnlockedIsNoMiss`, in a long call | the callback's lease runs out during the call, another callback starts while an item is still leased to the first, and the end of the first counts as a miss (`outbox.ts:754`) | `inbound` with 2 items of 2 goals, 2 callbacks, no call of the owner and no poll, `Overrides = {"sms"}`, `MaxLapses = 1` |
| `InlineJobs!NeverDropped` | an answer that was finished, and not yet spoken or handed over, is forgotten in a restart (`inlineJobs.ts:165`; `inlineJobs.ts:8`) | `inline` |
| `GoalBroker!DoneIsSent` | an update to a goal the tick still has as blocked, whose card is finished by now: the bridge refuses to unblock it, the flush returns false and the tick never looks at the card, so the result is never sent (`broker.ts:1306`). Also: a question or a stall has set the delivery to `outbox`; a restart between the update that finishes the goal and the publication then leaves a goal `listOutstanding` takes for delivered (`broker.ts:1532`, `store.ts:235`; `docs/kanban/realtime-goals-board.md:24`) | `goals_live` |
| `GoalBroker!MergedIntoTheGoal` | what the owner adds between the claim of a release and the record of its card is in neither the card's description nor `pendingOwnerUpdates`, and never reaches the worker (`broker.ts:1221`, `1439`, `1454`; `docs/realtime-goals.md:86`) | `goals_live` |
| `GoalBroker!ToldAgain` | a worker that stalls again after the owner said "try again", or repeats a question that was answered: the item of the first time is found heard and the owner is not told (`outbox.ts:244`; `docs/kanban/realtime-goals-board.md:23`) | `goals_live` |
| `GoalBroker!SuppressedStaysSilent` | a tick that listed the goal before the owner cancelled it sets it to done and publishes its result (`broker.ts:1532`; `docs/realtime-goals.md:410` and the reply at `broker.ts:454` say it is suppressed) | `goals_live` |
| `SmsGateway!NoticedOnlyIfDropped` | a turn takes more than two minutes: the owner is told the box restarted and asked for the text again while the turn runs (`broker.ts:1396`; the comment at 1398 says the process died) | `sms` |
| `TeamRoom!SeqIsTheLast` | a restart between log and `room.json`: the number is given again, and a stand-up whose cursor is at the first entry never reads the second (`roomStore.ts:349`; `types.ts:67`) | `team` |
| `TeamRoom!CursorWasRead` | a restart of the box between the move of the cursor and the answer: entries no stand-up gets (`service.ts:456`; `membership.ts:30`) | `team` |
| `TeamRoom!SeenWasRead` | a lost reply: "Seen by" names a member whose stand-up read nothing (`roomStore.ts:519`; `types.ts:26`) | `team` |
| `TeamRoom!RejectedIsGone` | an unknown card counts as a rejected token, and the wake check skips the team until a call succeeds (`service.ts:424`; `membership.ts:35`) | `team` |
| `TeamTexts!AtMostTheLimit` | two calls that read the same count, or a call beside the wake check: more texts than the limit (`service.ts:575`; `service.ts:47`) | `texting` |
| `TeamTexts!WaitingTextsGoOut` | one Kanban call that fails counts as a task that no longer waits, and the text is dropped (`service.ts:956`); a newer text of a task is removed with the older one, which was being sent (`service.ts:978`; `docs/teams.md:66` says it goes out) | `texting`; the second with 4 texts and no faults |
| `TeamTexts!WaitingTextsLeave` | the wake check passes over a team that rejected the box, or whose stand-up was never created, and with it the texts that wait (`service.ts:906`; `docs/teams.md:66`) | `texting` |
| `OwnerReminders!RetiredJobsGo` | a stop during creation: the record has no job id yet, the script goes, and the job stays (`ownerReminders/service.ts:319`; the comment at 291) | `reminders` |
| `OwnerReminders!ActiveHasItsJob` | a restart during creation: active, counted against the twenty, without a job (`ownerReminders/service.ts:166`; `docs/executive-assistant.md:126`) | `reminders` |
| `OwnerReminders!DoneIsForTheNewest` | DONE before the run it answers is recorded stops another reminder (`ownerReminders/service.ts:265`; the comment at 100) | `reminders` with `OneTime = {}`, `MaxTime = 3` |

**Bounds.** Two callbacks are enough for a stale one to meet its successor, and
for both misses that stop the calls (`MaxMisses = 2`). One item suffices where
items do not interact; they interact by superseding and in the pass's plan,
which `results` covers. Two parts of an SMS tell "each" from "some". One fault,
restart or lapse is put at every possible point, and the interesting races need
one. Two polls let a poll be late and another follow. In `inline` two jobs make
recovery a loop with a state in between. One goal is enough for the broker: goals
share the tick and nothing else, and each race is between the tick, a handler and
the world about one record. A handler beside the tick flushes, cancels and reopens
against it; two messages make an update arrive while another is applied, the
third, or a redelivery, makes a second recovery. A Kanban call that fails and a
restart are bounded together (`MaxTroubles`), as they are in `TeamRoom`, `TeamTexts` and
`OwnerReminders`: each comes at every point, and no property excuses one by the other.
Two handlers make a queue of the mutex and a text that is handled twice; two faults
make a send fail whose apology fails too; the theorems hold with any number of texts,
requests, faults and restarts. In `team` one box beside the boss is enough, since readers
share nothing but the log, and two entries put one behind and one ahead of a read; with
one write a day a day's limit is met and passed. In `texting` limits of one are reached
at once, and two news are a second reason to wake on the same day. In `reminders` the
recurring and the one-time reminder share Hermes and nothing else. Messages and handlers are
interchangeable in `goals`, which checks safety only (`Symmetry`). `goals_live`, `team` and `texting` have a
`VIEW`: states that differ only in what no later step and no property of the run looks at
count as one. For `goals_live` that is `woke`, the listing once nothing of it is left to walk, and what the tick
read of a goal outside a flush or a create; for `team`, who is rejected, the read positions
the boss shows, and the two history variables once a box has restarted, when the properties
that read them ask for nothing; for `texting`, the texts and stand-ups of the day (`today`), which only
`AtMostTheLimit` and the theorem `EarlyAreFew` look at. Types are checked only on the states kept; the theorems have them all. `MaxContacts` bounds what the owner
does: cancel, ask for a call, write, call in. `CHECK_DEADLOCK FALSE` stands where
the system may be done: everything delivered and nothing left to happen.

**Fairness.** `OwnerOutbox!Fairness`: the broker's tick starts passes for ever
(a `setInterval`), each await of the pass returns, timers run out, calls
end and their end is reported, a carrier moves a message on. Strong fairness for
two: `FullPass`, a pass that looks at every pending SMS, since passes
interleave with items that come and go, and `CarrierStep`, since a message may be
sent anew. Nothing is asked of the owner: no call has to be answered. What makes
`OpenIsSettled` hold without the owner is the text after two misses; it holds
with SMS on, and its exception is a rejected SMS, which waits for a call.
`InlineJobs!FairSpec`: handlers and timers go on, a turn ends (it is aborted
after ten minutes), requests arrive or fail, the box is started again.
`GoalBroker!FairSpec`: the tick is a `setInterval` and its calls have timeouts, a
handler's calls return, the commit window passes; nothing is asked of the workers,
the router or the owner. `SmsGateway!FairSpec`: handlers go on, a turn ends at its
deadline, Twilio posts what it holds, time passes, a request's timer fires.
`TeamRoom!FairSpec` (nothing makes an entry age): the room's lock is released, stand-ups are scheduled and read,
replies arrive or time out after 15 seconds; nobody has to write, leave or be
removed. `TeamTexts!FairSpec`: calls return, the wake check is a `setInterval`, days
go by: strongly fair, since midnight is not in the middle of a wake check, but wake
checks end. `OwnerReminders!FairSpec`: requests go on and Hermes keeps running the
jobs it has.

## 4. Proofs

`OwnerOutboxProofs`, for every set of items, goals, jobs, calls and parts, and
every value of the bounds, from `OutboxAssumption` and the policy's assumption
on its constants:

| theorem | statement |
|---|---|
| `TypeCorrect` | `Spec => []TypeOK` |
| `HeldItems` | a live callback lease belongs to the call in flight |
| `OneRings` | a ringing callback is the one in flight (or its create reply was lost), and the dispatcher dials only the one in flight |
| `Final` | `ClosedIsFinal`: nothing reopens a closed item |
| `OneWay` | `OneWayPerPass` |
| `NoTextAfterRejection` | no SMS is accepted for an item after a rejection |

The argument. `TypeOK` is inductive by itself; it is proved per part of the
state, with *writer* lemmas (`BoxWriters`, `DispatcherWriters`, …) that name the
actions which change each part, so that all other actions leave the part alone.
`HeldItemsHaveTheirCall` is inductive given types: a lease on a batch is taken
only in `StartCallBatch`, which puts that batch in flight, and whatever ends or
forgets the flight (`FinishCall`, `CallPlacementFailed`, `CallLeaseLapses`)
releases the batch's leases. `OneCallbackRings` is not: a call starts ringing in
`PlaceCallback`, long after `StartCallBatch`, so it needs
`PlacesTheCallInFlight` for the dispatcher's `dial` state, and the lost replies
in `lost` for the callbacks the box believes were never placed; the two are
inductive together. `OneWayPerPass` is inductive with types, from a lemma that
what `PlanPass` computes sends each item one way; a pending SMS cannot appear on
an item of the plan because only the pass itself sends. `NoTextAfterRejection`
follows from it, since `OneWayPerPass` covers `cur`.

`SmsGatewayProofs`, for every set of texts, handlers and requests and every value
of the bounds, from `SmsAssumption` and `RequestAssumption` (requests are numbered
as they are created, so that some have a newest):

| theorem | statement |
|---|---|
| `TypeCorrect` | `Spec => []TypeOK`, with `ActionGuard`'s part |
| `OneTurn` | `OneTurnAtATime` |
| `OneNotice` | `NoticedOnce` |
| `AckHolds` | `AckIsTheDecision` |
| `AnswersPass` | `AnswersPassTheTurn` |

`TypeOK` is not inductive here: a handler writes to the text it holds, so `Typed`
adds that a handler at work holds a text that was sent, that a request is resolved
with a decision only, and that what Twilio has to post was sent. `OneTurn` needs
that a turn runs with the mutex (`TurnsHold`), since starting needs the head of
the chain and others only append to it or leave when they are the head.
`AckHolds` is about a request between the moment the answer is written and the
moment the action gets it, which may be in either order with the text of the request and
its deadline. Everything a step can do to one request is listed once
(`RequestStep`, `RequestSteps`), so that `OneRequest`, a lemma about single
records, carries the invariant: `Decides(q, d)` says that `d` is what came of a
request or is on file for whoever will ask, and stays so. `AnswersPass` uses the same
lemma for `Closed`: once the handler of an answer is past its decision, each
request the answer could have meant is closed, and a closed request is never
open again.

`InlineJobsProofs`, for every set of jobs and every value of the bounds, from
`InlineAssumption`:

| theorem | statement |
|---|---|
| `TypeCorrect` | `Spec => [](TypeOK /\ Inv)` |
| `ToldOnce` | `SpokenIsNotTexted` and `OneTextPerJob` |

Neither property is inductive: who may speak or send depends on where the request,
the claim and the turn of the job are. `Inv` says so job by job (`Good`): a job that
the call still waits for, follows or claims has been given to nobody or is marked as
delivered, which a claim refuses; one whose answer is being made speakable is claimed,
and only an owner who has left (`detaching`, `gone`) can have it handed over.
`OneTextPerJob` needs that a restart cannot change what would be said: `Says` is the
same of the record in memory and of the one on disk, whichever of the two a restart
leaves, since the end of a turn is saved in the step that changes it. `Kept` carries
the invariant over for the jobs a step does not touch.

`OwnerPromiseProofs`, from the same assumptions:

| theorem | statement |
|---|---|
| `Implements` | `KeepsPromise`: the outbox implements `OwnerPromise` |
| `OneOpen` | `OneOpenItemPerGoal` |
| `OwnLease` | `SendReleasesItsOwnLease` (no run) |
| `NothingElse` | `NothingElseWhileSmsPending` |
| `HeardLeft` | `HeardSmsLeftTwilio` |
| `AckedSaid` | `AckedWasSaid` |
| `NoMiss` | `UndisturbedIsNoMiss` (no run): `UnlockedIsNoMiss` as long as no restart and no lapse came |
| `UnlockedNoMiss` | `UnlockedIsNoMiss` where `MaxCrashes = 0` and `MaxLapses = 0`, as in `inbound` |

The refinement maps an item to its `Fate`, to the lease that still runs (`Hand`), and the
callback whose lease runs to `Flying`. The steps that open or close an item or
change its hand are listed once (`Loud`), each with a lemma on its effect
(`UpsertEffect`, `ClaimEffect`, `BatchEffect`, `LandEffect`, ...); every other step is
`Quiet` for every item, which `QuietStep` says and all theorems of the module use. A
loud step is an abstract step or changes nothing of the image: a lease that ran out
already let go, and the end of a callback lands it only if it was still in flight.
That needs `HeldItemsHaveTheirCall`, so that landing one callback frees all it carries, and
`LeaseInv`, that the item of a send under way is leased to that send or closed, which is
also `OwnLease`. `NothingElse` rests on what the pass planned: a lease begins only for an
entry of the plan, and the pass plans nothing for an item whose SMS is pending.
`HeardLeft` needs `LeftTwilio`: the verdict `settling` acts on was read before its await, and no
part goes back to Twilio while the same pass is in it. `AckedSaid` needs `GivenInv`: as long as
a callback holds an open item, it was given it, once its batch was read. `NoMiss` needs `CallInv`,
which ties the phone, the callback in flight and what is known of its CallSid. The condition
cannot go: a callback whose CallSid was lost in a restart, or whose thirty-minute lease ran out
during the call so that another one started while an item was still leased to the first, ends
as a miss though its owner was on the line; TLC shows both (section 3).

`GoalBrokerProofs`, for every set of goals, messages and handlers and every bound, from
`BrokerAssumption`:

| theorem | statement |
|---|---|
| `TypeCorrect` | `Spec => [](TypeOK /\ Held)` |
| `UpdatesKept` | `UpdatesAreKept` |
| `RestartsBounded` | `RestartsAreBounded` |

`TypeOK` needs `Held`: who works on a goal has one. One process moves in a step
(`MoveForms`), and one goal is written (`GoalWriters` lists the ways). `UpdatesKept` needs
`KeptInv`: a process past the write has what it read from the goal's record on the card,
and no card loses anything, so what `Settle` removes is there, however many flushes
run beside each other. What is said to a goal without a card waits too: a card is made only by
the tick's `Create`, from what `Claim` took along (`CardsAreMade`, `CreatesWhatWasSaid`), and what
was said stays in the goal's record (`UpdateGrows`, `BodyStep`). `RestartsBounded` is about two counts that drift apart: `autoRecover`
writes the count it listed, plus one, over whatever an answer of the owner has made of
it since. `BoundInv` says what keeps them together: while a tick may still wake a goal
(`Listed`), the restarts since the owner spoke are at most the count it listed, plus the
troubles; between the restart and its count (`Nudging`) one more; and a tick takes each goal once.

`TeamRoomProofs`, for every set of boxes and codes and every bound, from `TeamAssumption`:

| theorem | statement |
|---|---|
| `TypeCorrect` | `Spec => [](TypeOK /\ RoomInv)` |
| `Nothing` | `NothingSkipped` |
| `Gone` | `GoneIsSilent` |
| `OneBox` | `OneBoxPerCode` (no run) |
| `Daily` | `DailyWrites` (no run) |

`RoomInv` keeps the log level with what `room.json` counts, or one ahead. `NothingSkipped` needs
that the log is gapless (`Gapless`) and, for each box, that what a read has got, together
with what was given before or was too old when it was asked for (`Had`), is every entry up to
its last (`BoxReads`); that entries age (`Aging`) changes neither, since `Fresh` and `TooOld` share
out what comes after the cursor at the moment of the read. Both fail after a restart, and so does the property (`SeqIsTheLast`, `CursorWasRead` in section 3).
`OneBox` needs `TokensInv`: a member id on its way to a box is of a code that was used.

`TeamTextsProofs`, for every set of calls, texts and tasks and every bound, from
`TextsAssumption`:

| theorem | statement |
|---|---|
| `TypeCorrect` | `Spec => [](TypeOK /\ LimitsInv)` |
| `Once` | `TextedOnce` |
| `EarlyAreFew` | `EarlyStandupsAreFew` (no run) |

`LimitsInv` says what a call or the wake check may still write of the counts it read.
`Once` needs `PlacesInv`: a text is in one place, not written yet, in one call, or among the
waiting texts for one task, and what waits was heard no more often than there were troubles (`Spent`).
The delicate step is `Remove`: the text that was just sent is gone from what waits, because
all that waits of its task goes and a text waits for one task only (`OthersAre`). `EarlyInv`
counts the stand-up that began and is not counted yet; a stand-up that began and never will be is
one of a restart or of a call that failed after Hermes took it (`RunFails`), and so in `Spent`.

`OwnerRemindersProofs`, for every set of reminders and every bound, from
`RemindersAssumption`:

| theorem | statement |
|---|---|
| `TypeCorrect` | `Spec => []TypeOK` |
| `OneLateText` | `OneLateTextAtMost` |
| `FewActive` | `ActiveAreFew` (no run) |
| `KnownKeeps` | `KnownKeepsItsScript` (no run) |

`OneLateText` needs that a text on its way is the first late one (`LateInv`) and that no
ended reminder becomes active (`StatusWriters`). `KnownKeeps` is the safety part of
`KnownJobsGo`: a job that Hermes still has finds its script and its record retired, and
has itself removed. Its invariant `JobInv` follows the job's id through create, retirement
and removal.

The theorems marked "no run" are of formulas that TLC checked as invariants of the runs named
for their modules before they were proved; they are not listed there since each would only repeat what
the proof says.

Only model-checked. Liveness (`OpenIsSettled`, `Answered`, `RestartIsTold`,
`TextsAreAnswered`, `RequestsEnd`, `EveryoneReads`, `NoTextWaitsForever`, `KnownJobsGo` and
the four of `goals_live`) rests on fairness and `ENABLED`, which are out of the prover's
reach, and stays with TLC. Every invariant and every action property of the runs is proved,
`UnlockedIsNoMiss` under the two conditions above. No module needs a recursive operator.

## 5. Not modelled, and the plan

Next, in this order:

1. Proofs: the safety part of the liveness properties, as `KnownKeeps` is of
   `KnownJobsGo`: that what each of them waits for is still on somebody's list (an
   open item that no timer holds is planned, an acknowledged text is in the inbox or
   in a handler, a cancelled goal's card is in the tick's tombstones).
2. The rest of the broker: the pointers that bind a reply to a goal
   (`sessionThread.ts`, `branchBinding.ts`), deferral and delivery commands.
3. `BrowserHandoff`, the whiteboard reducer as a pure algorithm, proactive turns
   with their budgets.

Not modelled, and why: connectors, OAuth, onboarding, chat surfaces, user
interfaces, backup, SDKs, installation scripts, where the code is HTTP, I/O and
layout with little state of its own, and which make up most of the repository's
lines; the classification of texts and approvals, whose outcome is an input of
the models; calendar arithmetic of the call window, likewise. `twilioSmsSend`'s
parts are modelled in `OwnerOutbox` only as far as their receipts go: a send that
fails halfway counts as not sent, and the repetition the owner then gets is left out.
