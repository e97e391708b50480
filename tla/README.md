# A verification development for TFS 0.3.6pl1 (7.9x)

TLA+ models, TLC runs and TLAPS proofs about the game server in `src/src`. This file says
which parts the system has, which module models which part, what the runs check, what is proved,
and what is left out.

## 1. Inventory

The server is one process with three kinds of threads.

* The **dispatcher thread** runs every task of the game, one after the other.
* The **scheduler thread** waits for delayed events and hands them to the dispatcher.
* The **io thread** (`Server::run`, boost::asio) accepts connections, and completes their reads
  and writes; it parses packets and posts tasks. Signal handlers post tasks as well.

| Component | State | Operations | Hard part | Correct when |
|---|---|---|---|---|
| Dispatcher (`dispatcher.cpp`) | thread state, task list, mutex, condition | `addTask`, loop, `flush`, `stop`, `shutdown` | notification after unlock, front and back posts, tasks that post tasks, shutdown with the lock held | no task lost, doubled or overtaken; never asleep on work |
| Scheduler (`scheduler.cpp`) | priority queue, active ids, last id | `addEvent`, `stopEvent`, loop, `stop`, `shutdown` | two waits, spurious wake-ups, stopping what is being popped | a stopped event never runs, the others do, and when due |
| Connection, output messages, protocols (`connection.cpp`, `outputmessage.cpp`, `protocol.cpp`) | close state, pending reads and writes, queue, reference counts, pool | read and write completions, `send`, `sendAll`, `close`, release and delete | two threads, errors at any point, three objects that keep each other alive | closes once, writes before it closes, deletes only what is unreferenced, and deletes it |
| Sessions (`protocolgame.cpp`, `player.cpp`, `game.cpp`) | protocol - player - client pointers, reference counts, check vectors, `releaseThings` | `login`, `connect`, `logout`, kick, death, ping time-out, release, `checkCreatures`, `cleanup` | delayed replacement, raw pointers in tasks, a player that outlives its client and the reverse | in the game once, one controller, freed when the last holder is gone |
| Waiting list (`waitlist.cpp`) | ordered entries with time-outs | `login`, `cleanup` | clients that come back late or never | premium first, order of arrival, no overfilling, everybody's turn comes |
| Trade (`game.cpp`) | trade state, partner and item of each player, `tradeItems` | request, accept, close | the partner moves, dies or offers again, items are moved and packed between steps | items change hands both or neither, as they were shown |
| Party (`party.cpp`) | leader, members, invitations | invite, join, leave, pass leadership, disband | disbands itself inside its own methods | members and `Player::party` agree |
| Chat (`chat.cpp`) | channels of parties and players, their users and invited | open, invite, exclude, close, log out | the owner leaves, the client is replaced, the party lets go | only who may listens, nobody who left is kept |
| Spawns and raids (`spawn.cpp`, `raids.cpp`) | blocks, monsters, check event; the raid that runs, its events, reference counts | `checkSpawn`, `startSpawnCheck`, removal; `checkRaids`, execute, `reload` | monsters that leave the zone; the check stops itself; a raid's last monster dies inside an event | every empty block is looked after; raids take turns |
| Decay (`game.cpp`, `item.cpp`) | ring of buckets, `toDecayItems`, durations | `startDecay`, `checkDecay`, `cleanup` | transformed or removed while listed; rounding to buckets | listed once, decays on time |
| Houses and beds (`house.cpp`, `beds.cpp`) | owner, rent, warnings, transfer documents; sleepers | `payHouses`, `!buyhouse`, `!sellhouse`, transfer; sleep, wake, load, store | a document that is out of date; the kick after 50 ms; a save older than the players | one house each, taken only when announced; beds and sleepers agree |
| Items, containers (`container.cpp`, `tile.cpp`, `player.cpp`, `game.cpp`) | parents of items, open windows, stacks | move, exchange, split, merge, pay and collect | who must be told; what an exchange has given away already | no window on what is gone; the money adds up |
| Equipment (`movement.cpp`, `player.cpp`, `outfit.cpp`) | slots, bonuses, inventory flags | equip and de-equip events, outfits | items that change when they are put on, events inside events | bonuses are those of what is worn |
| Who hunts whom (`creature.cpp`, `monster.cpp`, `player.cpp`) | targets, followed and attacked creatures, masters, idle monsters | moves, arrivals, departures, death, convincing | raw pointers that follow notifications | no target that is gone; no monster asleep in sight |
| Conditions (`condition.cpp`) | list of conditions, speed, skills, look, marks | add, merge, execute, dispel, save, load | merging by rules of its own; run out but still listed | what they changed is taken back |
| Walking (`creature.cpp`, `player.cpp`, `game.cpp`) | steps left, waiting requests, their events | requests for far things, steps, stops, pursuit | packets and events between a request and its walk | the latest request wins, what waits has a walk |
| Scripting (`luascript.cpp`) | stack of environments, temporary items, unique ids, timer events | script calls, creating and placing items, `addEvent`, `stopEvent` | a script inside a script; two-step deletion | what is created is placed or freed, once |
| Server, game state, database, login, status and administration protocols, configuration | see `PROJECT.json` | | | not modelled, with the reasons there |

How they interact: the io thread posts tasks to the Dispatcher (first packets post `login`, later
ones tasks of the game; `Connection::close` posts `closeConnectionTask`; the deleter of a message
posts its release in front). The scheduler posts due events. Tasks of the game write messages
into the pool, which `sendAll` passes to Connections at the end of every frame. Connections detach
their Protocol when they close, the Protocol detaches the Player, and each is deleted by a
`release...` task that comes again through the Scheduler while references are left.

Everything below Sessions in the table happens inside tasks of the dispatcher: there is no
interleaving within a task, but any order of tasks, with time, deaths, logouts, scripts and restarts
between them. These parts meet at few points: a player who logs out leaves its party, its channels, its
trade, its windows and the targets of monsters; a house is sold in a trade; a party tells the chat who
may listen; what a script places becomes an item of the map.

The hazards of the code, each at its line, are listed under `hazards` in `PROJECT.json`, with the
properties that would catch them, or the reason why none does.

## 2. Modules

| Module | Models | Composition |
|---|---|---|
| `Dispatcher` | `dispatcher.cpp/.h`, the callers of `stop` and `shutdown` in `game.cpp` | on its own |
| `TaskQueue` | what `dispatcher.cpp` promises its callers: an abstract queue without threads, lock or condition | implemented by `Dispatcher` (`ImplementsTaskQueue`) |
| `Scheduler` | `scheduler.cpp/.h` | on its own; hands over to what `Dispatcher` specifies |
| `Connection` | `connection.cpp`, `outputmessage.cpp`, `protocol.cpp`, the parts of `protocolgame.cpp` that touch them | assumes of the task list what `Dispatcher` promises (`TaskQueue`, `TaskHandled`) |
| `Session` | `protocolgame.cpp` with the parts of `game.cpp` and `player.cpp` that place, check, remove and free a player | the connection is reduced to its close state; that closing ends is a result of `Connection` |
| `WaitingList` | `waitlist.cpp` | on its own; `Session` has the refusal as a choice |
| `Trade` | the trade of `game.cpp` with the notifications of `player.cpp`, `container.cpp` and `tile.cpp` that end one | on its own; a step is a task of `Dispatcher`, `Appear` and `Disappear` are the ends of a `Session` |
| `World` | the parts of the game below | one behaviour follows one part; see its paragraph |
| `Parts` | the parts that are proved about: parties, chat, spawns, raids, decay, houses, beds, walks, windows, scripts | `World` extends it with the other parts; it is a module of its own so that proofs about these parts need not carry all of `World` |
| `Party`, `Chat` | `party.cpp`; the party and private channels of `chat.cpp` | instances of `Parts`, `Chat` twice: for the channels of parties and for those players own |
| `Spawn`, `Raid` | `spawn.cpp`; `raids.cpp` | instances of `Parts` |
| `Decay` | the decay of `game.cpp` and `item.cpp` | instance of `Parts` |
| `House`, `Bed` | `house.cpp` with `talkaction.cpp`; `beds.cpp` | instances of `Parts` |
| `Window` | `Player::containerVec` | instance of `Parts` |
| `Coins`, `Equip` | stacks and money; worn items and outfits | instances of `World` |
| `Walk` | how a player walks and what waits for a walk | instance of `Parts` |
| `Target`, `Condition` | who hunts whom; the conditions of a player | instances of `World`, each twice |
| `Script` | environments, temporary items, unique ids and timer events of `luascript.cpp` | instance of `Parts` |
| `DispatcherProofs`, `SchedulerProofs`, `ConnectionProofs`, `SessionProofs`, `WaitingListProofs`, `TradeProofs` | | theorems about the module of that name |
| `PartsProofs` | | the inductive invariants of the parts in `Parts`, as lemmas |
| `WorldProofs` | | theorems about `World`: homes, decaying items, channels, parties, walks, windows, equipment, conditions, spawns, raids and scripts |

Each specification that is run has an `MC` module that declares the model values of its instance.
Definitions that begin with "Mutant:" are plausible bugs; no specification uses them. They are there to
show that a property would notice.

**Dispatcher.** `m_taskList` is the list, `m_threadState` the state, `pc` the place of the
dispatcher thread, `task` its local variable. A critical section of `m_taskLock` is one step
(`Push`, `Lock`, `Relock`, `Stop`), but `shutdown()` keeps the lock over `flush()`, so there the
lock is a variable. `AddTask` and `Notify` are separate, as in the code. `WantPost` and `Post` are a running task's own
call of `addTask`. The refinement mapping to `TaskQueue` takes `m_taskList` as its queue, `task` as its
current task, `status` as the tasks' fate and "running" as open; a step that only moves a lock, a
notification or a sleeping thread is a stutter. A `closer` is `setGameState(SHUTDOWN)`: it posts `Game::shutdown`, then calls
`stop()`. A `halter` is `Game::shutdown`. `past` says which expirations are over.

**Scheduler.** `m_eventList` is a set, `Tops` are the events that `top()` may return, `id` and
`cycle` are the fields of an event. The thread waits in "waiting" (`wait`) or "timed" (`timed_wait`); `ret` is the result
as the code keeps it. `top()` of an empty queue is undefined and leads to "crashed". The clock
`now` counts abstract ticks up to `MaxTime`; an event is added only if it is due within them.

**Connection.** The io thread runs `ReadHeader` ... `WriteFailed`, the dispatcher takes tasks
(`TakeTask`), runs them (`RunTask`) and ends each frame with `sendAll` (`MessageDue`, `SendAll`,
`SendNothing`). `ioLocks` counts how often the io thread still owns the recursive `m_connectionLock`
after its handler. Messages are identities; their contents are left out. "game" stands for every
task that may write to the client.

**Session.** One task is one step, in the order of the list. `Check` is `checkCreatures` for a
vector with any of the listed players; `Die` and `PongTimeout` are what its `onDeath` and `onThink` may do.
Bans, scripts and full servers are choices in `LoginNew`. `refCount` changes as `addRef` and
`unRef` do; `RefsCountHolders` explains it.

**WaitingList.** `Kept` is `cleanup()` entry by entry, and `left` is the time until the time-out of each entry. `Diligent` clients
come back when they were told to; the others come back whenever they like or not at all.

**Trade.** `where` is the parent of each item: a player, a bag, a place or `None`; `pos` is the place of
each player in the game. The bags an item is in (`Holders`) are the least set that has the bag around the item and, with
each bag, the bag around that one, which is what the loop over `getParent` goes through. `Destinations` is the search of
`Player::__queryDestination` for a slot
or a bag; room, capacity and scripts are choices. `EndedByRemoval`, `EndedByAddition` and `EndedByUpdate` are the
players whose trade ends through `onRemove...Item`, `onAddContainerItem` and `onUpdate...Item`, with the `Watchers` that the code
notifies. `TRADE_TRANSFER` exists only within a step: the two traders are exempt from the notifications of
their own transfer, and end their trade at its end in any case. An acknowledging player may accept
without an offer of its own, even before the other accepts; `TransferOfNothing` is what follows, a
call through a null pointer, and stops the model (`down`). A player who accepts first accepts whatever the
other offers later, and after a script has refused, both can only close the trade: this is how the code is.

**World.** The parts of the game share no state in the model, and each step belongs to one of them. So `World` has
one set of variables `x1` ... `x13` (declared in `Parts`, with the first parts) and a variable `part` that says which part a behaviour follows; each instance gives the
variables the names of its module. A property of `World` that begins with `part = "house" =>` speaks of the behaviours of that part, and
nothing is lost by following the parts one at a time. What one part does to another (a logout that ends party and
channels) is an action of each.

* **Party.** A party is an address that may be used again. `leave`, `passPartyLeadership` and `disbandParty` call each other, so
  each is an operator that hands on a record of the state; a request is one step. `strayed` names who left a
  party that it had invited itself to: its invitation is then forgotten by one side only, which is how the code is.
* **Chat.** `partyOpen` are the keys of `m_partyChannels`, which nothing erases. The loop of `removeUserFromAllChannels` goes on
  after an erased element, so which channels it misses is a choice (`missed`); `strays` are listeners whom the party could not take off
  because it had let go of them, `stale` are channels that point to a deleted player.
* **Spawn, Raid.** A block is ripe when its interval has passed; a monster may stray, die, be convinced or be freed between two checks. A raid
  is a chain of events with one scheduler event or posted task at a time; its things refer to it. `Freed` stands for the raids of
  before a reload.
* **Decay.** One item, with its time, its listings in the ring and in `toDecayItems`, and its references. `span` and `age` are its time when
  it came into its bucket and the seconds since. `reset` is set when `setID` gave it a time, or took it away, while it was listed.
* **House, Bed.** A day is the unit of time. `PayHouses` handles the houses one after another, and what becomes of one does not depend on the others;
  who sells a house may owe no rent for it.
  A document (`deals`) stands until its trade ends; the one who is offered a document may answer with one (`MayOffer`), and then the two are closed or dropped one after the other;
  `crossed` are the houses whose deal was closed though the house or the buyer had changed. Beds are
  halves with a partner; `stored` is the last save of the map, and a restart takes the beds from it. `twice` is who took another
  bed before its kick came, which the code lets it do.
* **Window, Coins, Equip.** `window` is `containerVec`; the places lie in a row. Coins are in the slot, the pack, a bag in the pack or on the floor; moves,
  exchanges, payments and change go through the queries and the maximum counts of the code. `Equip` runs the
  equip and de-equip functions inside each other as `transformItem` does.
* **Target.** Every notification of a move, an arrival or a departure is part of the step that causes it. `Duel` has four fields in a row, `Pack`
  two fields out of sight of each other and more monsters. Conditions, which also keep a monster awake, are left out.
* **Condition.** The time left to an end is kept instead of the end; `due` is set when a unit of time has passed since the conditions were executed. `both` and
  `stained` name what the code itself leaves behind: a haste or paralysis that was prolonged after it had run out or came while its opposite was suppressed, and a
  speed condition with a look that was merged with one without. `Dispel` of a delay under one unit keeps the condition because `delay` is unsigned where it is compared with 0 (`player.cpp:3387`).
* **Script.** An environment has the things its script can name and the event it runs. Freeing has two steps, as in the code. `robbed` are items that the end of an inner
  script freed while an outer one could still name them, `stale` and `loose` say which unique ids lost their item, and `down` stands for the use of what was erased or
  deleted.
* **Walk.** `left` is the number of steps, `eventOf` the four event ids of a player, `events` and `posted` what scheduler and dispatcher have for it.
  `doubled` and `stranded` name what the code leaves behind: a walk event whose id was overwritten (`creature.cpp:242`), and a request or steps without
  a walk (`creature.cpp:1014`).

## 3. Runs

| Run | Instance | Shows |
|---|---|---|
| `dispatcher` | 2 threads, 2 ordinary tasks (one with expiration), a closer with its halter, a halter of SIGTERM | `ListInOrder`, `NoLostWakeup`, `TaskHandled`, `ImplementsTaskQueue` hold |
| `dispatcher_shutdown` | the same | **violated**: `ShutdownCompletes` |
| `scheduler` | 2 callers, 3 events, delays below and above the minimum, 3 ticks | `IdsMatchQueue`, `StopIsDecisive`, `SleepsUntilDue`, `EventDispatched` hold |
| `scheduler_timeout` | the same | **violated**: `TimeoutMeansDue` |
| `connection` | 1 connection, 3 messages | `RefsCountMessages`, `DeletedConnectionIsQuiet`, `ProtocolOutlivesItsTasks`, `ClosesInOrder`, `ClosedIsDeleted` hold |
| `connection_lock` | the same | **violated**: `DueMessageIsSent` |
| `session` | 3 protocols, 3 players of one character | `RefsCountHolders`, `NothingDangles`, `OneController`, `ClientLetsGoFirst` hold |
| `session_live` | 2 protocols, 2 players | `LostPlayerLeaves`, `SessionEnds` hold |
| `session_replace` | 3 protocols, 3 players | **violated**: `OneReplacement` |
| `waiting_list` | 5 characters, 2 places | `QueueOrder`, `RoomForThoseAhead`, `PlaceIsKept`, `PremiumEnters` hold |
| `trade` | 3 players, 2 bags and a gem, 3 places | `PartnersAgree`, `TableMatchesOffers`, `OffersStand`, `OfferFrozen`, `OnlyInExchange` hold |
| `world` | every part of `World`, each on its own instance | `PartiesAgree`, `ChannelsAgree`, `SpawnsGoOn`, `DecaysOnTime`, `HomesAreKept`, `WindowsInReach`, `CoinsAddUp`, `BonusesAddUp`, `TargetsHold`, `ConditionsAddUp`, `ScriptsLetGo`, `WalksKeepUp` hold |

Why the bounds are enough. *Dispatcher*: two outside threads show every race of two posts with one
wait; five tasks fill a list with a task before, between and after a closer and its halter, with a
second halter behind it. *Scheduler*: with three events one can be popped, one be
on top and one be added before, between or after them, two of them at the same cycle. *Connection*: one
message is written, one queued and one composed; the properties of a connection do not depend on
others, since it shares only the pool with them. *Session*: an owner, one that replaces it and one that comes in between; a fourth
adds no new pair of steps. Liveness is checked with two, which has every kind of step.
*WaitingList*: two premium and two other entries give every insertion; the place counts 0, 1 and 2
surround the limit. *Trade*: a trade has two sides, the third player competes and
interferes; with two bags an offer can be nested, hold something or be held two levels deep; the places 0, 1 and 3
are in reach of an item, in reach of a partner only, and out of reach.

*World*, by parts. Parties: three players and two parties, so that one can be in a party, invited by another and leading a third time
at an address that was used before. Channels: two ids, of which one stays in use while the other is freed. Spawn: two blocks and
three monsters, one of them a stray. Decay: a ring of 4 buckets with times below, above and at multiples of it; types that vanish, turn into another that decays, and
keep their time. Houses: two players, two houses, four days, two warnings, so that a house is paid, warned about, lost, and sold meanwhile. Beds: a double bed and a single one, three
sleepers of different rights. Windows: two players, two bags, a depot, three places and one window. Coins: worth 3 and 1, stacks of three, up to 9 in all, so that every split, merge and change
occurs. Raids: three of the three kinds with up to three events, and two things. Equipment: two items in two slots, of which one changes when it is worn, and two outfits. Targets: a player and
a monster over four fields with a range of sight of 1 and a leash of 2, and a player with two monsters on two fields, one of them safe. Conditions: three hastes and a paralysis, and two boosts and a look, with fights of
one unit. Scripts: two items, a unique id, a timer and two environments, so that a script runs inside another. Walks: one step, one posted task and two walk events.

Bounds in guards: an event's time is at most `MaxTime` (`Scheduler`), one "game" task is listed at a
time (`Connection`), one logout request of a protocol is listed at a time and a protocol logs in
once (`Session`; the second is how the code behaves), the clock moves in steps of `TickLength` (`WaitingList`),
`MaxListings` lists of an item (`Decay`), the calendar ends at `MaxDay` (`House`), `MaxWorth` and `MaxFloor` (`Coins`),
`MaxPosted` and `MaxWalks` (`Walk`). `MaxEnv` of `Script` is the limit of the code, which the instance lowers.
`CHECK_DEADLOCK FALSE` is set where the modelled part ends: the process exits, the clock stops or
every connection is gone, `Trade` or a part of `World` is `down`, or a calendar or a supply of items is used up.
The symmetry of the `world` run exchanges players (`a1` to `a3`, also the monsters of `Spawn`) and `b1` and `b2` (parties, bags, items, the monsters of `Pack`, the tenants of `House`), which nothing tells apart; no
liveness property is checked there.

### Fairness

* The operating system runs a thread that can run, and a notification that is due happens:
  weak fairness of the threads' steps. A spurious wake-up, a new task, an expiration and a client's packet are owed by nobody.
* A task ends (`Frame`, `RunTask`); no task of the server is meant to loop for ever.
* `Connection`: `checkCreatures` reschedules itself every 100 ms or less, so there is always a next frame
  (`PostGame`), and a message is older than 10 ms in one of them (strong fairness of `MessageDue`). A
  write completes or fails and a read of a closed socket returns, as asio promises. `EndTask` has strong fairness
  because a frame may write any number of messages before it ends.
* `Session`: references of messages are dropped in the end (a result of `Connection`), so `ReleaseAndDelete`
  cannot lose to `ReleaseLater` for ever; each of the vectors has its turn; a player who has lost its client
  leaves a fight or a no-logout tile at some time.
* `WaitingList`: nobody plays for ever, and a diligent client comes back before its place expires.
* `Trade` and `World` state no fairness: nothing of what they promise must happen in the end.

### Where the code differs from what it says

1. `Dispatcher::shutdown` holds `m_taskLock` while `flush` runs tasks that post tasks: the process does not end (`dispatcher_shutdown`).
2. `schedulerThread` takes every return of the unlimited `wait` for a timeout (`scheduler_timeout`).
3. `Connection::onWriteOperation` locks where it should unlock while the connection is closing (`connection_lock`).
4. `ProtocolGame::login` asks its own `m_eventConnect` whether a replacement of the player is pending (`session_replace`).

Properties that hold in spite of these name the exception (`SelfBlocked`, `pc = "crashed"`, `ioLocks > 0`, `isConnecting`). So do the properties of
the parts of `World`, by the history variables named above (`strayed`; `strays`, `missed`, `stale`; `lost`; `reset`; `crossed`; `twice`; `both`, `stained`; `robbed`, `stale`, `loose`;
`stranded`, `doubled`): each records the one thing that must have happened, so that whatever else goes wrong is still a violation.

## 4. Proofs

All theorems hold for every value of the constants that satisfies the module's assumption (`DispatcherAssumption`, `TradeAssumption`,
`PartsAssumption`, `WorldAssumption`, ...). These assumptions say that the null values differ from the objects, that a set whose
elements are counted is finite, and, for limits, that they are numbers of the right sign; nothing bounds how many threads, players, connections,
messages, items, bags, houses or beds there are.

Where one lists a property of a run, the run checks it on a small instance and the theorem states it for all. An invariant is seldom inductive; what had to be added to each is
the argument why the code is right, so it is given here.

**`DispatcherProofs`**: `[]TypeOK`, `[]NoLostWakeup`, `[]ListInOrder`, `ImplementsTaskQueue`.

* `TypeOK` is inductive; its last conjuncts tie `task`, `want` and the lock to `pc`.
* `NoLostWakeup` is inductive together with the types. The list can only become non-empty by a
  `Push` on an empty list; from outside that raises `signal`, and the dispatcher thread itself is not waiting then.
* `ListInOrder` is not inductive. A task may only be pushed if it is not
  listed, which its status says, and its number may only be the largest if `posts` bounds all numbers, so
  `IInv` joins the types, both halves of the agreement of list and status, and the bounds of the stamps.
* `ImplementsTaskQueue`: `StepOfQueue` maps every step to a step of `TaskQueue` or a stutter. It needs
  the types: the thread takes a task only when it has none, and ends one only when it has one.

**`SchedulerProofs`**: `[]TypeOK`, `[]IdsMatchQueue`, `[]StopIsDecisive`, `[]SleepsUntilDue`.

* That ids tell events apart is what the second and third rest on. `IdsTellApart` says that `m_lastEvent` is the number of
  events that have an id, that no two have the same, and that whatever is queued or was stopped has one; `HandIsPopped` that the event in the thread's hand is
  not in the queue any more. Together with `IdsMatchQueue` and the types they are inductive.
* `SleepsUntilDue` needs `TimeoutHasEvent`: the time given to a timed wait is that of an event in the queue, and when the wait ends by itself that event is due
  (unless the queue was cleared).

**`ConnectionProofs`**: `[]TypeOK`, `[]RefsCountMessages`, `[]DeletedConnectionIsQuiet`, `[]ProtocolOutlivesItsTasks`, `[]ClosesInOrder`.
The invariant `IInv` has five parts besides the types. `ListsFit`: no task or message is listed twice, and a login comes before the closing task; so a queue has no more entries than there
are kinds, and taking one means that it is no longer listed. `MessagesFit`: each message is in exactly one place,
the pool included, and both counters are the number of those outside of the pool. `ClosingFits`: how the close state, the tasks and events of the closing handshake and the two deletions
belong together; a deleted object has no message, because deletion waits for the counter. `ProtocolFits`: the protocol and the connection
point to each other or neither does, until closing begins. `WrittenBeforeClosed` is inductive with these.

**`SessionProofs`**: `[]TypeOK`, `[]RefsCountHolders`, `[]NothingDangles`, `[]OneController`, `[]ClientLetsGoFirst`.
All rest on what can be listed or scheduled for a protocol and in which order (`Ordered`, `JobsFit`): a login comes before anything else of its protocol, a logout before the release, and
what is bound to a protocol is there only while the protocol is alive. `ProtocolsFit` and `PointersFit` say what a protocol points to
before and after its login, `RefsFit` counts references for players that were not made or are deleted as well, `ControlFits` is `OneController`. `PlayersSuffice` (no
more players were made than protocols have logged in) is what makes a new player available for each login. `ClientLetsGoFirst` is an action property of the same invariant.

**`WaitingListProofs`**: `[]TypeOK`, `[]QueueOrder`, `PlaceIsKept`, `RoomForThoseAhead`: every safety property of the `waiting_list` run.
Each operation on the list is described by who is in the result and who is ahead of whom (`Ahead`): `CleanedFacts`, `RemoveFacts`, `InsertFacts`, `SlotForFacts`. What the
recursive function of `cleanup()` computes is an induction over the list, done by the least place at which it would be wrong (`LeastNumber`, `FilterFacts`).
`QueueOrder` is inductive with the types, because a new entry goes behind everybody of its class (`Queues`). `RoomForThoseAhead` counts: whoever enters from slot n has at most n - 1 clients in front.

**`TradeProofs`**: `[]TypeOK`, `[]PartnersAgree`, `[]TableMatchesOffers`, `[]OffersStand`, `OfferFrozen`, `OnlyInExchange`: every property of the `trade` run.

* `StepKinds` shows that every step only ends some trades, starts or answers
  one, accepts one, or leaves them alone, so that each invariant of the trades needs four cases. `PartnersAgree` is inductive with
  the types, since a closing leaves players alone in pairs (`EndedInPairs`). `TableMatchesOffers` is not: an entry may be erased by its
  item only if nobody else offers that item, so `OffersDistinct` is carried along.
* What is offered depends on bags within bags. `Holders` is the least set of bags closed under "the bag around", so facts about it are shown by
  giving a closed set (`HoldersLeast`), which stands in for an induction over the nesting. `OfferInv` adds to the invariant that no bag is in itself (`Acyclic`); a
  move keeps it because the code refuses to put a bag into itself (`AcyclicAfterMove`). `NoticesItsOffer` is the heart: who has offered an item notices every
  removal, addition and change in any bag in it or around it. With it a move that touches an offer has ended the trade, and the others leave its contents and its
  carrier as they were (`OfferUnmoved`, `CarrierAfterMove`).
* `OnlyInExchange`: the two moves of a transfer are followed through the state between them (`TransferIsExchange`); the second is not disturbed by
  the first because the two offers have nothing in common.

**`WorldProofs`**: `[]ChannelsAgree`, `[]PartiesAgree`, `[]HomesAreKept`, `[]WalksKeepUp`, `[]SpawnsGoOn`, `[]WindowsInReach`, `[]BonusesAddUp`, `[]ConditionsAddUp`, `[]CoinsAddUp` and `[]ScriptsLetGo` of `World`, and its action property `DecaysOnTime`. `StepOfThePart` takes a step of
`World` apart: a part's own step, or one that leaves all variables alone. The inductive invariants of the parts in `Parts` are shown in **`PartsProofs`**, each from
its initial states, over every step and over a stutter (`BedStepKeeps`, `WalkStepKeeps`, `WalkInvStutters`, ...); those of `Equip`, `Condition` and `Coins`, which
are instances of `World`, are in `WorldProofs` itself.

* Channels: `OnlyEntitledListen` and `ChannelsOfThePresent` are inductive with the types, and for private channels with `OwnersOnline`.
* Parties: the requests call each other, so the invariant is stated of a record of the state (`Consistent`) and each operator has a lemma that says from what to
  what it leads: in the middle of `leave` a party may be without company (`Company`), but its list (`Listed`) and the invitations (`Remembered`) agree at every point.
* Beds: `SleepersAgree` survives a restart only if what is stored is consistent too (`StoredHalvesAgree`).
* Decay: `DecayInv` says that an item whose time was not set anew in a list is in one list at most and knows it, and that its clock is right (`TheClock`): its bucket is as many turns ahead as
  it has seconds left, or a full turn with the rest to come. A listing more or less is counted with `MarksChange`, each operator has a lemma for what becomes of an item (`SetIDIs`, `HandledIs`, `CleanedUpIs`), and the
  clock is followed over a turn of the ring that passes the item by (`Ticking`) and over the one that finds it (`TurnHasCome`). Trying to prove it showed that the model's `reset` had missed a change to a type
  with the same time, which the small instance does not have.
* Houses: `HouseInv` says that an unowned house has no warnings (`UnownedIsClear`), that the day the last letter of an owner names follows from its warnings and the day of the last one (`LettersTell`), and that a
  deal that is not out of date is with the owner and a buyer without a house (`DealsStand`).
* Walks: the handlers call each other, so `WalkInv` is stated of a record of the state, and each operator has a lemma that says how it hands the record on: it `Keeps` what is
  promised, or keeps it and brings at most one walk event (`KeepsOrAdds`). `Orderly` is what holds in the middle of a handler too: what is scheduled can be stopped, and no arrival is
  scheduled while a request waits. `Sound` adds that a waiting step is alone and that steps have an event; `WalkIsScheduled`, that the event a player
  names is in the scheduler, fails exactly while it is carried out, and `TaskHasWalk` is `RequestHasWalk`. That `MaxWalks` walk events are enough needs a count (`FewWalks`):
  the event that is carried out leaves room for the one that a script in it brings (`RoomForOneMore`), and one of the ids is always free (`SpareNumber`).
* Spawns: `SpawnInv` says that a monster is an object exactly as long as the list or the game refers to it (`MonstersAccounted`), that a block has one key (`OneInABlock`) and that the dead are sought
  until they are found (`DeadAreSought`). That an empty block is watched is a count: a full list of living monsters leaves no more empty blocks than there are strays (`FullListMakesUp`).
* Raids: `RaidInv` is stated of a record of raids and pointers. A raid that is `Executing` has its event behind it and the next not scheduled yet; each operator has a lemma for what it makes of
  the record (`UnRefFits`, `ScheduledFits`, `ResetFits`, `ExecutedFits`), and the number of things that refer to a raid changes by one (`LettingGo`, `Finding`).
* Windows: `WindowInv` says that whatever is in a window is near (`AllInReach`), that going up from any container ends at one that lies in none (`Rooted`), and that a depot is on the floor or
  not in the world (`DepotsOut`). `Around` goes up as often as there are containers; that this is the least closed set with the container is shown with `LeastNumber` (`ClimbStepUp`, `AroundIs`), and that a
  chain of containers has one end only with sets that are closed upwards (`RootIsOne`). `PutSomewhere` says what a move does to what is inside and to the rest; `WatcherIsTold` that whoever looks
  into what is taken away is told of it, because it was near the place that is notified; and what it had open within is closed (`ContainerMovedKeeps`).
* Equipment: `EquipInv` says that there are books, an entry for each slot and the outfit, that the enabled slots and the outfit agree with (`LinkedBut`) and that account for the bonuses
  (`GearFits`). The equip functions run inside each other, so each has a lemma about a record of the state in which one slot may be out of the books: the one an item
  is leaving, whose abilities are taken only after the item has changed and been put on elsewhere (`DeEquipKeeps`). One entry changes the total by its worth (`TotalChanges`).
* Conditions: `CondInv` says of a record of the player that speed and skills are the sums over its list (`AddsUp`), that a look other than the default one and each mark has a condition that
  explains it (`Steady`), and that no haste in force stands beside a paralysis (`OneSpeed`). The handlers hand the record on, so each operator has a lemma for what it makes of it (`KeptKeeps`,
  `ReplacingKeeps`, `BeginningKeeps`, `AddKeeps`, `TimedKeeps`, `LoadedIsSound`). The sum over a list is the last value of a recursive function; what one entry more, less or changed does to it is
  shown with `LeastNumber` (`TotalsDiffer`). The two instances differ in the types they have only: all is proved of one of them for any types, and the lemmas named `Same...` say that the operators of the
  other are the same.
* Coins: `CoinInv` says that the state is sound (`CoinsSound`: stacks and containers within their limits, no stack empty) and that all coins, at their prices, are worth what was booked. Payments and
  collections are recursive functions over a record with what is left to pay or take; that each has a solution is shown once for all (`SolutionExists`, `RepeatingExists`), and that as many
  steps as there is money are enough with `Exhausts`. A step keeps a balance: what lies there and what is left to do (`PaidOneKeeps`, `CollectOneKeeps`, `TakeOneKeeps`). In the middle of a collection or
  a move stacks may be empty, so `Put` and `Taken` have lemmas about states that are sound but for that (`PutIs`, `TakingIs`), and `SweptIs` sweeps. A move fits because `MaxCountIs` says that what
  the query grants either fills the stack that is met or has a free place; an exchange because what was in the slot goes where the new stack leaves one (`GivenKeeps`).
* Scripts: `ScriptInv` ties the two steps of freeing to the life of an item (`FreedOnce`): an item is listed once to be freed, when it was removed or when it never came into the world and nobody can name it any more. What waits for its
  place has not been freed (`TempsAreNew`), the map of unique ids names items by their own id only (`NamedByItsId`, `UniqueListed`), and an event runs in the outermost environment only (`OuterEvent`).

Only model-checked, and why:

* Liveness (`TaskHandled`, `EventDispatched`, `ClosedIsDeleted`, `LostPlayerLeaves`, `SessionEnds`, `PremiumEnters`): fairness and `ENABLED` are beyond the provers used.
* `TargetsHold` of `World`: not proved. Its handlers notify every creature in any order, and the order is a parameter of its operators, so that what a notification does to all creatures is
  a fold over a sequence chosen by the step.

The induction theorems of the library take an operator as a parameter, which the provers cannot instantiate. `LeastNumber`, from the well-foundedness of the numbers, replaces them for a function on
numbers (`Kept` of `WaitingList`, `BonusUpTo` and `Dressed` of `Equip`, `Around` of `Window`, `Kept`, `Sum` and the loading of `Condition`, `Sum`, `Rest`, `Paid`, `MoneyAdded`, `Collected` and
`TypeTaken` of `Coins`), and where a closure is meant (`Holders` of `Trade`) it is stated as a least set.

## 5. Not modelled

* The scripted dialogue of NPCs and their shops, the bindings to Lua other than environments: the code calls into scripts that are not part of `src/src`; where a script decides, the models have a choice.
* What clients see (`ProtocolGame::send...`), tiles and stacks of a client's view.
* `Raid`: the use of freed raids after a reload, which is undefined. `Equip`: bonuses in percent. `Target`: floors, invisibility, the friend list, teleporting summons. `Condition`: damage over time,
  regeneration, light, mutes, sub-ids. `House`: access lists and the rent of owners who are long offline. `Decay`: parts of a second (the rounding in `checkDecay`, and the item that would come back into its own bucket). `Chat`: configured and guild channels.
* Spells, weapons, combat formulas, path finding, the map, mail, and everything that only reads files or the database.

## 6. Plan

Done: `Dispatcher`, `Scheduler`, `TaskQueue`, `Connection`, `Session`, `WaitingList`, `Trade`, the parts of `World`, and the proofs above.

Left, in this order:

1. The proof of `TargetsHold`, whose instances go to `Parts`.
2. The accounts, guilds, depots and map views that other tasks of the dispatcher change, in a module like `World`.
3. The io thread's reads of a player's state and the login attempt counters of `ConnectionManager`.
