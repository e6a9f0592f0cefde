# A verification model of p1faker

p1faker sits between a home's inverter and its car charger. Once a second it
reads the inverter over Modbus, computes how much current the charger may add
under the policy the user chose, and tells the charger, in the guise of a P1 smart
meter, that the house draws so much that exactly this current is left. A web page
changes settings, chooses the policy and schedules a switch to another one.

This directory holds TLA+ modules translated from that program, TLC
configurations that check them on small instances, and TLAPS proofs of what
matters most for every instance. `PROJECT.json` lists the components, the
runs, what each definition models (file and lines), the hazards, the findings and
the theorems.

## The system

### Threads

* **main**: static initialisation of every module (registries, parameters, the web
  server, the producers, policies and consumers), then the loop of `main()`.
* **http**: one thread that runs the io_context; it exists from the static
  initialisation of `www.cpp` on, before settings, policies and consumers do.
* **avahi**: the threaded poll; callbacks hold the poll's lock.

### Components

| component | state | operations | what makes it correct |
|---|---|---|---|
| core loop (`core.cpp`) | situation, budget, local `active_policy` | poll producers, find, log, apply policy, feed consumers, sleep | the budget used is the active policy's for current settings; the log tells the truth |
| policies (`policies.cpp`) | none but settings | `apply` of red and of orange, yellow, green | no policy exceeds what the breaker leaves |
| schedule (`schedule.cpp`) | settings `next_policy`, `next_time` | `poll` | a scheduled switch happens once, not before its time, and is not lost |
| settings (`settings.cpp`, `.h`) | `all_settings`, subscribers, each param's value, the file | `load`, `apply`, `save`, GET | live = published = durable; a POST as a whole or not at all |
| P1 output (`p1out.cpp`) | file descriptor, two error numbers, cached telegram | `handle`, `reconnect` | never more than the budget; no descriptor leaks, no loss goes unnoticed, the device is found again |
| monitor (`monitor.cpp`) | copy of situation and budget | `handle`, two GETs | a consistent pair |
| Modbus (`modbus.cpp`) | candidates, socket, two errors | update candidates, reconnect, read registers | the reply belongs to the question, comes from a candidate, reads recover |
| SMA producer (`sma.cpp`) | flag, list of services | `poll`, `resolved`, `lost` | the connection learns of every change |
| service discovery (`service_discovery.cpp`, `.h`) | client, browsers, resolvers, subscribers, publishers | client, browser and resolver callbacks; construction and destruction of subscriber and publisher | the list holds what the resolvers find; the page is announced while the client runs; no callback after destruction |
| simulator (`simulator.cpp`) | plant state | `poll`, `handle`, POST | the closed loop converges |
| configuration (`config.cpp`, `.h`) | stored texts, subscribed parameters, depth of the lock | set, construct, destroy | the text given last counts, for parameters made before and after |
| web server (`www.cpp`, `.h`) | RPC table, connections | dispatch, register, overrule | the handler called exists |
| page (`public/*.js`) | cached settings | activate, schedule, change | does not undo others' changes |
| logging (`logf.*`) | two static parameters made by the first line logged | log | does not wait for itself |
| `mutex_protected.h` | | | |

### Interaction

main holds the core registry's lock during a pass. POST `/api/settings` does not
take it: it takes the RPC table's lock, then the settings registry's, and writes
each `settings::param` under that param's own mutex. Reading a param takes
that mutex only, so **every read of a setting in a pass may see another POST**.
The schedule, in main, calls the same `settings::apply` and waits for the settings
registry. A handler runs under the RPC table's lock and may take the core registry's
(GET `/api/policies`) or the settings registry's inside. Lock order is RPC table,
core, settings, param, without a cycle. The
avahi thread talks to main through an atomic flag and a list under a mutex.

What is hard here: the reads of settings in the middle of a pass, the schedule's
check and act, readings that fail one by one, replies that come late on a
connection whose requests all look alike, the order of flag and list in discovery,
a crash in the middle of saving, POSTs before the parameters exist, handlers whose
objects come and go, and a plant that answers what the policy did before the next
measurement. The
hazards in `PROJECT.json` list them with their lines.

## The modules

### Policies

Pure operators: what each policy computes from a situation. Unit: one ampere on one
phase at nominal voltage; watts and volts are multiples of it, so integers do. A
budget is the code's per-phase budget times the number of phases, which keeps the
division by the phases exact. Of the phases a situation keeps the sum and the most
loaded one, which is all a policy reads. The parameters of the generic policies
are one record per policy; they are constant in the models, `max_current` is not.

### ControlLoop

`main()`'s loop body with schedule, policies, P1 output and monitor, and the web
thread. `pc` names the next step of main; there is one step per access of shared
state: `Poll`, `Schedule` (reads the clock and `next_time`), `ReadSwitch` (reads
`next_policy`), `ApplySwitch` (waits for the settings lock), `Find`, `Compare` and
`Mark` (the three reads of `active_policy`), `Apply`, `Cap` (red's read of
`max_current` on behalf of a generic policy), `P1Out`, `Monitor`. The web thread
is `HttpBegin`, one `HttpItem` per item in the order of the names, `HttpEnd`.
`Poll` is one step although it makes four reads, since nobody else sees the
situation before the consumers do; each read may fail and keep its old
values. `limits` is a history variable: the values `max_current` had since the
pass began. `ScheduledSwitch`: once the deadline of a switch has passed, the policy
becomes the active one and the deadline goes, or a POST of `next_policy` or `next_time` has come
between; it starts from a schedule that is not already acting on an earlier deadline, as that
one overruns what is POSTed meanwhile (`SwitchOnlyAfterDeadline`).

### Settings and DurableSettings

`Settings` is the registry: parameters load themselves one by one, `apply` runs
item by item and then saves through `Open`, `Write`, `Rename`; the process may die
between any two steps, and the new one reads the file. What may go wrong with
the disk is a constant (`Faults`). A conversion is a table (`Parse`), so that a
fraction posted to an integer parameter is stored as posted and used truncated, and
a value of the wrong type throws. `DurableSettings` is the promise: three
variables, `current`, `durable`, `known`, and POSTs that happen at once. `Settings`
implements it under the mapping `current <- ` what those who take the lock see
(`Visible`: the settings as they were before the apply in progress, until its rename),
`durable <-` what the file would load, `known <-` the constructed parameters.

### Config, P1Out and Program

`Config` is the registry of parameters and the logging that reports what it does and
needs two parameters of it. One thread acts, so a call is a list of what is left of it
(`todo`, the call stack): constructing a parameter subscribes it, parses what
the environment and then what files or command line gave; each parse may log a line, and
the first line constructs the parameters `verbosity` and `use_syslog` inside whatever was
going on. What a text means to a parameter's type is a table (`Parses`) with several
results where the code leaves the value uninitialised (an empty text for a number) and
none where the parser throws. `P1Out` is the output's descriptor: `reset`, `reconnect`,
`handle`, with a device that is unplugged, works badly and comes back. `Program` composes
them: `main()` from static initialisation through the command line, the passes and
the pause between them to the destructors, with a signal at any time. Of the clock it keeps
the distance to `t0` (`ahead`), the timeout of `sigtimedwait` (`left`), and as history how
long ago the pass began and how late the thread woke up. Time starts with the first pass.

### ModbusConnection

One connection object with its two error codes (as failed or not), the socket
with the requests and replies under way on it, and the devices behind the endpoints.
A call of `read_holding_registers` is `Call`, then `Connect` / `ConnectFails` for
each candidate in turn, then `Send`, `Receive`, or `RequestFails` for every way a
request can throw. Devices are `good`, `slow` (late, partial, exceptional or
no replies) or `down`, and change at any time. They are outside the repository
and marked external.

### Discovery

The avahi client with its callbacks, the SMA producer as subscriber, and the publisher of
the program's own page, all from construction to destruction. `pc` is the main thread:
it constructs the publisher (`Publish`), then the producer: its base class (`Subscribe`),
its members (`MakeMembers`), the flag last (`MakeFlag`). It polls (`Exchange`, `Copy`) and destroys
them in reverse (`DestroyMembers`, `DestroyBase`, `Unsubscribe`, `Unpublish`). Steps that take
`registry::lock()` have `LockFree` in their guard. A callback is a list of what is left of it
(`todo`): calls of the subscriber, and the effects on the flag and the list, which are
separate. A virtual call is dispatched when it is made (`Calls`, by `Derived`), to
`producer_impl` or to its base class. A service is its name and address (its interface is the key's, its
port is not used by the SMA producer). The list is a bag: how often each service is on it,
as nothing here depends on the order. The client may start in any state or not at all,
change its state at any time, and fail for good.

Callbacks begin as soon as the base class has let go of the lock, before `producer_impl` and
its flag are made, and while the members are destroyed. `early` is a history variable:
the services resolved before the producer was there, whose names the base class may have been
asked for. `OnlyInverters` and `NoMissedChange` name them as their exception; `NoGhosts`
and `SubscriberAlive` have none. The results that a second subscriber of a type is
told at once (`service_discovery.cpp:185-189`) are left out, as the program has one subscriber.

### ClosedLoop

The simulator as plant, with the policies of `Policies` on top. The unit is one watt:
a current stands for its power at nominal voltage. A pass is `Poll` (the plant's
load, the battery's answer, the measurement), `Apply` and `Handle` (the car's
new power); `PostInput` and `PostPolicy` come between any two of them. Divisions
of ints truncate toward zero as in C++ (`Quotient`), and the double that `handle()`
converts to int may fall just short of its whole number (`Truncated`). `calm` is a
history variable: no change from outside since the last poll.

### RpcRegistry and WebServer

`RpcRegistry` is the table of handlers and the life of the `www::rpc` objects that
stand for its entries. Whether a returned object is built in place or moved is the
compiler's choice, so both are steps of the model. `latest` is a history variable.
Objects may share a key and go in any order: in the program of today no key is used
twice, but the class is written for it. `WebServer` adds the listener, the connections,
`handle_request` (`OnRead`, `Lookup`, `TakeInner`, `HandlerReturns`, `HandlerThrows`)
and a main thread that constructs the objects, runs passes that hold the core
registry's lock and perhaps the settings', and destroys the objects after a signal.
All callbacks run on one thread, so each has `http = Idle` in its guard. Files and JSON
appear as outcomes. A move assignment to an rpc that has an entry of its own occurs
nowhere in the program and is left out.

## Runs

| run | shows | bounds |
|---|---|---|
| `control_loop` | `OfferWithinBreaker`, `ScheduledSwitch`, `CatchesUp`, `PostAtomic` | 2 POSTs of 4 kinds, 3 ticks of the clock, 2 readings, 3 patterns of failing reads, red and two generic policies |
| `control_loop_schedule` | violation of `SwitchOnlyAfterDeadline` | same |
| `settings` | `LiveMatchesPublished`, `ImplementsDurable` | 2 parameters, 4 JSON values, 4 POSTs in any number, 4 initial files, 2 restarts; opens may fail |
| `settings_disk_full` | violation of `WrittenIsComplete` | same, short writes instead |
| `modbus` | `AnswersTheQuestion`, `ReadsFromCandidate`, `Recovers` | 2 endpoints, 3 lists of candidates, 3 registers, two of which have replies of one length; unbounded reads |
| `discovery` | `NoGhosts`, `OnlyInverters`, `SubscriberAlive`, `Announced` | 3 keys, 2 addresses that may be exchanged (symmetry), unbounded events from construction to destruction |
| `discovery_missed` | violation of `NoMissedChange` | same |
| `discovery_erased` | violation of `FoundIsListed` | same |
| `closed_loop` | `Settles`, `PassKeepsBreaker`, `BreakerKept`, `GridLimitKept` | 2 phases, 8 inputs, red and three generic policies, 3 changes at any step; unbounded passes |
| `closed_loop_battery` | violation of `BatterySpared` | same |
| `web_server` | `ServesLatest`, `CalledAlive`, `RepliesInOrder`, `Answered` | 3 objects of which 2 share a key, one connection that sends 2 of 5 requests at any time; unbounded passes |
| `program` | `Precedence`, `Starts`, `NoLeak`, `LossNoticed`, `Recovers`, `NoBurst`, `Terminates` | 6 configurations (files, environment, arguments, a bad one among them, two with `verbosity` in the environment), interval 1 or 2 ticks, 2 ticks late at most, the clock set once by one tick either way, 2 descriptors; unbounded passes and unplugging |

Why the bounds are enough: two POSTs let one fall between any two reads of a
pass and another undo it; three ticks make a deadline pass and one that was moved pass
later (a deadline of 2 at the clock's 3); the readings make the red limit bind for one and the generic budget for the
other, with unequal phases. Two restarts cover dying while recovering
from dying. Two registers of one length are what it takes to mistake a reply;
two endpoints make the loop over the candidates go on. Two keys of one name with
two addresses cover moves and coincidences. The inputs of the simulator cover an empty,
low, usable and full battery, too little and too much sun, a house that alone overloads a
phase, and one phase feeding in; the third change disturbs a loop that is recovering
from the second. Sums of rounded watts are compared with a slack of two watts per
phase, against limits of tens of watts. In `web_server` the http thread serves one request
at a time, so that a second connection would only add waiting; the second request of one
connection is what it takes to mix up responses.

Fairness. `ControlLoop`: main goes on (`WF` of its steps: it waits for nothing but
the settings lock, and the bound on POSTs keeps that from being taken for ever; the
code's mutexes are not fair, so an endless stream of POSTs could in principle starve
the schedule), and a POST begun is finished. Nobody has to POST and the clock may
stand still. `ModbusConnection`: the loop keeps reading, each step ends by itself or by its
timeout, and a good device answers. `ClosedLoop`: the passes go
on, nobody has to change anything. `WebServer`: both threads go on and a write ends or
fails; a handler that waits for the core registry is let in in the end (`SF` of
`TakeInner`). That is the pause between two passes; when passes take longer than the
interval there is none, and then it is an assumption on the mutex. `Program`: the main
thread goes on and so does time; nobody has to send a signal, and the device may
come and go as it likes. The other modules state no liveness.

## What the checks found

* **A moved deadline is lost** (`schedule.cpp:18-20`): the schedule acts on a
  deadline it read before a POST replaced it.
* **A short write destroys the settings file** and is logged as a success
  (`settings.cpp:43-50`).
* **A discovered inverter is never connected to**, or a lost one is kept, when a poll
  falls between flag and list (`sma.cpp:69-76`).
* **An inverter is dropped** when one of two resolvers that found the same address
  goes (`service_discovery.h:34`).
* **A nearly empty battery is driven to its maximum** (`policies.cpp:51-55`) by a policy
  with a positive `max_grid_power`: each pass counts the battery's answer to the pass
  before as what it "is giving" anyway.

Read off the code, and not the subject of a run:

* **A variable `verbosity` in the environment stops the program before `main()`.** The first
  line logged (`config.cpp:65` or `68`) constructs the static `verbosity` (`logf.cpp:31`), whose
  `init()` parses the variable (`config.cpp:107`) and logs that at recursion depth 1, which
  `rlogfdebug` lets through (`config.cpp:34`); the line needs `verbosity`, whose
  construction it is inside of. Two configurations of the run `program` do this, one with a text that
  parses and one without: the program hangs in them, and `Starts` and `Terminates` name them
  (`WaitsForItself`) as their exception; with `WaitsForItself` FALSE TLC finds both violated. The same
  text in a file does no harm, nor does `use_syslog` in either place.
* What main() logs as "Activating policy" may not be the policy it applies, as it reads
  `active_policy` three times in a pass (`core.cpp:133-136`).
* **A callback that comes before the SMA producer is constructed** reaches the base class, whose
  `match()` takes every service (`service_discovery.h:24`): the program's own page gets onto the list
  and, once the flag is raised, to the connection. Without its exception `OnlyInverters` is violated.
  The page then stays on the list when it moves: the old result is dropped only if `match()` takes it
  (`service_discovery.cpp:130`), which is `producer_impl`'s by now, so what `NoGhosts` promises
  it promises of inverters. The flag such a callback raised is lost when `m_endpoints_changed` is
  initialised (`sma.cpp:80`).
* A callback between the destruction of `producer_impl`'s members and the destructor of its base
  stores to the flag after its lifetime; nothing reads it any more.
* Other threads log too while the program starts and could be the first to do so; the models have the
  lines of the main thread only.
* `~policy` erases from the table of producers (`core.cpp:86`). Passes are over by then; GET
  `/api/policies` walks the table of policies, with the destroyed ones in it, until the http
  thread stops.
* `avahi_client_new()` and `avahi_client_free()` are called without the event loop's lock while its
  thread runs (`service_discovery.cpp:61, 81`).
* `use_syslog` (`logf.cpp:36`) is made by the first line that is shown. With a settings file on
  disk and the default verbosity that is in the first pass, after every other static object, so it is
  destroyed before them; a line that destructors or the other threads log at exit
  (`--verbosity debug` shows those of `core.cpp:71-99`) reads it after its end. `verbosity`
  is made by the first line of all (`config.cpp:65` or `68`) and outlives them.
* A terminal whose settings cannot be made is used as it is for as long as it can be
  written to (`p1out.cpp:106-118`).

## What is proved

Every invariant and every action property of a passing run is a theorem, proved in
`ControlLoopProofs`, `SettingsProofs`, `ModbusConnectionProofs`, `WebServerProofs`,
`DiscoveryProofs`, `StartProofs`, `ProgramProofs` and `ClosedLoopProofs` from the assumptions on
constants named in the modules only (`PhaseCountAssumption`, `ControlLoopAssumption`,
`ClosedLoopAssumption`, `SettingsAssumption`, `ModbusAssumption`, `RegistryAssumption`,
`WebServerAssumption`, `DiscoveryAssumption`, `P1Assumption`, `ConfigAssumption`,
`ProgramAssumption`, `ObjectAssumption`; TLC evaluates them in the runs). One theorem has a
hypothesis of its own: `Durability`, that no write is short.

`ObjectAssumption` is what C++ gives a program of static objects: one construction of each, copied
from and destroyed only while it is there, the two of the logging constructed by nobody
else (they are local to `logf.cpp`), and what `main()` constructs alive until it returns
(`core.cpp:115-116`). `ProgramAssumption` has the interval's texts parse to integers and
the bad argument be no option.

* `ControlLoopProofs!TypeCorrect`: `TypeOK` is inductive by itself.
* `ControlLoopProofs!BreakerSafe`. `OfferWithinBreaker` speaks of the end of the pass
  and is not inductive; `BreakerInv` adds that the limit in force is always among
  `limits`, that from `Apply` or `Cap` on the budget is within one of them, and that
  the telegram is made of that budget. The step that matters is `Cap`, by
  `RedCapsEveryPolicy`: the cap is computed with a limit read in this pass. A POST
  only adds to `limits`.
* `ControlLoopProofs!PostApplied`: from `PostInv`, items visited under the lock are in
  force; the schedule cannot touch them because `ApplySwitch` needs the lock.
* `SettingsProofs!LivePublished`, from `RegistryInv`: a registered parameter has both a
  value and a setting. The step that matters is an item of a POST that the subscriber
  takes: the value and the setting change together, and one it refuses changes neither.
* `SettingsProofs!Durability`: `Spec` implements `DurableSettings`, for writes that are
  not short. `CallInv` says where a call is: the items visited are in the settings,
  the others are as the lock found them, and once the writing is done the temporary
  file holds the settings. The step that matters is `Rename`; `AppliedAsPromised` shows
  that it installs what `DurableSettings` promises for the whole request.
* `ModbusConnectionProofs!NeverStale`. `StreamInv`: a read that has not failed leaves
  the socket clean, and what is under way during a read is its own request or
  reply. It holds because any failure makes the next call start with a new socket.
* `ModbusConnectionProofs!OnlyCandidates` and `TypeCorrect`: from `ConnectionInv`, a
  connection not marked failed has a socket to a candidate.
* `WebServerProofs!LatestServed`, from `TableCorrect`: `EntriesCurrent` adds to `ServesLatest`
  the address in each entry, which decides what a move or a destructor finds; the
  steps that matter are the destructor of a temporary and of an overruled object, by
  `OwnsIfLatest`.
* `WebServerProofs!CalleeAlive`: `HttpInv` adds that the table is locked while a handler
  runs or waits, and only a step that finds it free ends an object's life.

* `WebServerProofs!OrderKept` and `TypeCorrect`, from `ConnectionInv`: a connection that reads has
  answered every request it took, one that serves or writes all but the last, and only the
  connection in `handle_request` serves. The invariant of the table goes in where a handler is called.
* `SettingsProofs!TypeCorrect`: `TypeInv` adds that no item is left once the saving begins. It holds
  for short writes too.
* `DiscoveryProofs!GhostFree`, from `GhostInv`: while there is a subscriber, an inverter on the list
  is found by some resolver or about to be erased, and one that a callback is about to put there is
  found. An inverter passes both `match()`, so it does not matter which class is asked when. The steps
  that matter are a resolver that finds another address (`Replaced`) and a step of a callback
  (`GhostStep`): what a drop or a loss calls in turn ends in an erase, and an erase takes every
  equal service out.
* `DiscoveryProofs!InvertersOnly`, from `WantedInv`: what is on the list or has passed `match()` is an
  inverter or was resolved early; as long as the base class is asked, all that is offered is early
  (`WantedStep`).
* `DiscoveryProofs!NeverAfterDestruction`: `AliveInv` adds that there is no browser once the
  subscriber is gone. `PageAnnounced` (the entry group is there exactly while the client runs) and `TypeCorrect` are inductive by themselves.
* `ProgramProofs!Leakless`: `FdInv`, `reset()` comes before every `open()`.
* `ProgramProofs!NoLossMissed`, from `LossInv`: with a file to write to, stdout stands for a
  connection error, so a pass either wrote all of the telegram or left an error number behind.
* `ProgramProofs!PassesSpaced`, from `PaceInv`, which says how the distance to `t0`, the timeout
  left, the time since the pass and the delays hang together until the clock is set. That the interval
  is a number, then as later, comes from `StartProofs`.
* `ProgramProofs!TypeCorrect`. `TypeOK` says that the subscribers of a name are objects there are,
  each once, and that the lock's depth is at most two. None of that is inductive: it depends on what
  the call stack still holds. `StartInv` (module `StartProofs`) has it in four parts: `StackInv`, the
  calls on the stack and the lock's depth at each of them, which bounds how deep logging goes
  inside of a parse inside of a construction; `LifeInv`, what is constructed is not there yet, what is
  destroyed or copied is, and a static of the logging that nobody has begun to make is neither
  there nor on the stack; `RegistryInv`, the objects in the order of their construction and the complete lists of
  subscribers; `ArgumentsInv`, `argv` from here on. The lemma that carries them
  is `DepthsPut`: a step takes the first call off the stack and puts what that call makes in front.
* `StartProofs!PrecedenceCorrect`. `Precedence` says something of the loop only; `HeldInv` says it of
  every moment before, as what is owed. `OptionsInv` counts the options still to be stored, on
  the stack in their order or in `argv`, so that what is stored for a name is the last of the
  others. `ValuesInv` says that each parameter has the value its texts give it, or that the last parse
  for it on the stack is of the text that counts. `CopiedInv` says that a copy has what the
  files say: their options are all stored by then, as the files are on the stack before the static
  objects. Selection from a list is recursive in the
  community modules, so the lists of objects are handled by `RemoveFirst`, which is not.
* `ClosedLoopProofs!BreakerProtected`. `PassInv` adds that between poll and handle an undisturbed
  pass knows what the plant measures, and that its budget is within red's. `QuotientSteps` shows that
  one budget on every phase and the watt of the double move a truncated quotient by no more
  than the budget and one watt, whatever the signs.
* `ClosedLoopProofs!GenericSupplied`, from `PowerInv`, by the sum over the phases: house and car
  draw no more than `max_grid_power` and what the policy counts on from sun and battery. This is the
  part of `GridLimitKept` that a single pass can promise; whether the battery then gives it is
  the plant's answer, and left to TLC.
* `ClosedLoopProofs!TypeCorrect`: `TypeOK` is inductive. A sum is a recursive function here, a maximum
  a choice; in place of induction the lemmas `HighestThere`, `AddingThere`, `AddingInt` and
  `AddingGrows` look at the least number of phases for which the claim fails (`Least`, from the
  library's well-foundedness of the natural numbers).

Only model-checked: the properties that speak of what happens in the end, which are out of the
prover's reach: `ScheduledSwitch` and `CatchesUp`, `Recovers` of the connection and of the P1 output,
`Settles`, `BreakerKept` and `GridLimitKept`, `Answered`, `Starts` and `Terminates`; and that no
run ends in a deadlock, which is a matter of `ENABLED`.

## Not modelled

Listed with the reason in `PROJECT.json`. Abstracted on purpose: floating point
(integers at nominal voltage), texts, HTTP and JSON syntax, TCP below "this socket's
bytes", power loss (the process dies, the disk does not). The tables of producers, policies and
consumers (`core.cpp:30-101`) are filled before the first pass and emptied after the last, and do not
change while the loop walks them; what a request meets before or after depends on the order in
which static objects are made and destroyed and is undefined behaviour where it goes wrong, so
the models begin and end with the objects in place.

## Plan

In this order:

1. `CoreRegistry`: ids and destruction of producers, policies and consumers; `Lifecycle` at exit,
   with the order in which the RPC table and the server are destroyed and requests that come
   meanwhile.
2. `WebPage`, the page's cache against the server's settings.
3. A second subscriber in `Discovery`, should the program get one.
