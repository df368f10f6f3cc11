# Verification of pymin

pymin is a daemon that administers the services of a router: DNS, DHCP, PPP,
NAT, firewall, VRRP and so on.  Clients send it one-line commands in UDP
datagrams; it keeps the configuration of the services in memory and in pickle
files, writes their configuration files, and starts and stops them.  This
directory holds TLA+ models of the program, the TLC runs that check them and
the proofs about them that TLAPS checks.  File names below are relative to the
repository; `util.py` is `pymin/service/util.py`.

## 1. The system

`pymind` reads the configuration, builds a tree of handlers, one per service,
and runs `PyminDaemon`.  The daemon has one thread.  It sleeps in `poll()`
until a datagram or a signal comes.  A datagram is parsed and dispatched down
the tree to a method marked with `@handler`; SIGALRM makes every handler's
`handle_timer()` run; SIGCHLD makes the process manager collect the children
that have ended.  A command runs to its end before anything else is looked at.
So the hard behaviour is not that of threads.  It comes from

- signals, which Python delivers between any two instructions, and which the
  loop only looks at in one place;
- child processes, which end when they like, and whose ends share signals;
- calls that fail in the middle: a process that cannot be started, a file that
  cannot be written, a command that returns an error;
- daemons that end and are started again, with what the files say;
- sequences of commands: changes that are committed, rolled back or left alone,
  items that are deleted and added again.

| Component | State | Operations | What makes it correct |
|---|---|---|---|
| Process manager (`pymin/procman.py`) | the maps `services`, `namemap`, `pidmap`; per process the Popen object, "do not run", last signal, error count | register, unregister, once, start, stop, restart, kill, the SIGCHLD handler with its callbacks | the maps agree; every child is waited for; one child per name; stop means stop, a persistent process comes back |
| Event loop and daemon (`pymin/eventloop.py`, `pymin/pymindaemon.py`) | the list of caught signals, the stop flag, the alarm, the socket | signal handler, loop, stop; handle a datagram, tick | never blocks in `recvfrom`; the timer survives; TERM stops; requests are answered |
| Service helpers (`util.py`) | `_service_running`, attributes in memory and in pickle files, configuration files | start, stop, restart, reload, commit, rollback, set, restore, timer | memory, files and service agree as far as the commands promise |
| VRRP (`services/vrrp`) | the flag, the parameters, its entry in the process manager | the commands of the helpers | a stopped service stays stopped, a running one runs |
| Containers (`util.py`) | lists and dictionaries of items with `_add`, `_update`, `_delete` | add, update, delete, clear, get, show | the flags tell a commit what to do |
| DNS (`services/dns`) | the zones with their hosts, name servers and mail exchangers; the zone files and `named.conf`; named | commands, `_write_config` zone by zone with `rndc`, timer | what is not flagged is in the files; a reload serves the zones that there are |
| IP, PPP, QoS (`services/ip`, `ppp`, `qos`) | devices, addresses, routes, hops; connections and peers files; traffic classes; the kernel's devices, which they share | commands, timers, constructors | what was not committed is not in force; a device that returns is configured |
| Firewall and NAT (`services/firewall`, `nat`) | lists of rules, a script, the tables of iptables | commands, constructors | the tables follow the flags and the committed rules; the daemon can be started again |
| DHCP, proxy, VPN (`services/*`) | items, files, external programs | the helpers' commands | as for the helpers |
| Parser and dispatcher (`pymin/dispatcher.py`) | the automaton; the tree of handlers | `parse_command`, `dispatch`, `handle_timer` | a command is answered as the documentation says |
| Configuration (`pymind`, `pymin/config.py`) | the options, the list of files, the services that were loaded | two readings, loading of the services, `build_root` | what is served is what was asked for, and a daemon that cannot be built ends |
| Validation, sequences, serialization (`pymin/validation.py`, ...) | none | checks and formatting of values | |

Interaction: `PyminDaemon` calls the dispatcher and `handle_timer()` of the
tree, and the process manager on SIGCHLD.  VRRP is the one service whose
process is a child of the daemon; the others run scripts and look for
processes with `pgrep`.  All services inherit their commands from the helper
classes.  `hazards` in `PROJECT.json` lists what can go wrong, line by line.

## 2. The modules

| Module | Models | Checked by | Proofs |
|---|---|---|---|
| `Supervisor` | what a process manager promises, with maps, pids and signals left out | `procman`, as a PROPERTY | target of `Refinement` |
| `ProcessManager` | `procman.py` | `MCProcessManager` | `ProcessManagerProofs` |
| `PyminDaemon` | `eventloop.py`, `pymindaemon.py` | `MCPyminDaemon` | `PyminDaemonProofs` |
| `Vrrp` | `services/vrrp/handler.py` and the helpers it inherits from, on top of `ProcessManager` | `MCVrrp` | `VrrpProofs` |
| `InitdService` | the helpers as `services/proxy/handler.py` combines them: `Restorable`, `ConfigWriter`, `InitdHandler`, `TransactionalHandler`, `ParametersHandler` | `MCInitdService` | `InitdServiceProofs` |
| `Containers` | the containers of `util.py`: operators | `MCDns`, `MCRouter`, `MCFilters` | |
| `Dns` | `services/dns` | `MCDns` | `DnsProofs` |
| `Network` | the devices of the kernel, and how they come and go | `MCRouter` | `RouterProofs` |
| `IpService`, `PppService`, `QosService` | `services/ip`, `services/ppp`, `services/qos` | `MCRouter` | `RouterProofs` |
| `Router` | the three together, with the timer and restarts | `MCRouter` | `RouterProofs` |
| `Filters` | `services/firewall`, `services/nat` | `MCFilters` | `FiltersProofs` |
| `CommandParser` | `parse_command` of `dispatcher.py`, and its documentation | `MCPymind` | `PymindProofs` |
| `Dispatcher` | `dispatch` and `handler` of `dispatcher.py` | `MCPymind` | `PymindProofs` |
| `Config` | `config.py` and the two readings of `pymind` | `MCPymind` | `PymindProofs` |
| `Pymind` | `pymind` as a whole: configuration, then commands | `MCPymind` | `PymindProofs` |

`Vrrp` and `Router` are the compositions of components at work, `Pymind` that
of what surrounds them.

Operators named after a bug (a comment says which) are plausible mistakes in
the definition below them.  They are not part of the specification: each is
put in the place of that definition to see that a property notices.

### ProcessManager

Methods of `ProcessManager` cannot interrupt each other, so a method is one
action; two are split because the children act in their middle in a way that
somebody can tell.  `restart()` is `BeginRestart` (up to `process.wait()`) and
`EndRestart` (wait has reaped the child, `Popen` runs).  `sigchild_handler()`
is `BeginSigchild`, and then for every child `Reap` (waitpid and the lookup in
`pidmap`), the callback (`CallbackReturns`, or `CallbackStarts` for one like
the self-test's `notify`, which takes persistence away and starts another
service), and `Forget` or `Respawn`; `EndSigchild` is a waitpid that finds
nothing.  `pc`, `cur` and `who` say where the handler is, with which pid and
process.

A `ProcessInfo` is known by its name: `register` and `once` insist that the
name is free, so there is one object in use per name, and its attributes are
functions on names.  The kernel's side is `child` (a pid is free, alive or a
zombie with a good or bad status), `runs` (whose command it runs) and
`sigchld` (one flag: SIGCHLD is not queued).

| Code | Definition |
|---|---|
| `ProcessInfo.clear`, `stop`, `restart` | `Reset`, `SendStop`, `Launch` |
| `_call` | `Call` |
| `register`, `unregister`, `once`, `start`, `stop` | `Register`, `Unregister`, `Once`, `Start`, `Stop` |
| `restart` | `BeginRestart`, `EndRestart` |
| `kill` (always a TypeError), calls that return False or raise | `NoEffect` |
| `sigchild_handler` | `BeginSigchild`, `SigchildHandler` and its actions |

`Popen` may fail (`CanFail`).  In `start` and `once` nothing happens then; in
`restart` the name stays in `namemap` without a process; in the SIGCHLD
handler the exception ends the daemon (`pc = "down"`).  A child whose `exec`
fails is reaped by `Popen` itself; its SIGCHLD, which finds nothing, is left
out.  Calls to `waitpid` and `read` that a signal interrupts are taken to be
retried, as `subprocess` of Python 2.7 does.  A pid that has just been reaped
is not given out again at once, which is how kernels number processes.

### PyminDaemon

`pc` follows `loop()`: before `poll()`, in it, after it, in `while signals`,
before `recvfrom`, in the dispatch of a request, and before the test of
`_stop`.  `Catch` appends a signal at any of these points, and interrupts
`poll()` if the loop is in it: that is `signal_handler`.  The alarm is off,
set or due; `TimePasses` lets it become due while the loop sleeps or a command
runs.  `Callback` is `quit`, `reload_config`, `timer` and `child`; the last
two and `recvfrom` and `sendto` may raise, and nothing catches that
(`CanFail`, `pc = "dead"`).  An error of `poll()` makes `run()` return.
Clients have one request each at a time; what a request does is left to the
modules of the services.

### Vrrp

`Vrrp` extends `ProcessManager` with the handler's flag, its `persist`
parameter, and the pickle files.  A command is one action, made of the process
manager's own operators: `StartService`, `StopService`, `RestartService`
(also `reload`), `Commit`, `Rollback`, `SetPersist`.  `Boot` is the
constructor in a new daemon with `_restore()`, and `Exit` the end of a daemon:
memory and children are gone, the files stay.  Of the parameters only
`persist` has a bearing on control; the rest is the command line.  `vrrpd`
processes that outlive their daemon are let go.

### InitdService

Here a command takes several steps, because a daemon can be killed between
them and each can raise.  `todo` is what the command has still to do: the
attributes to dump, the configuration to write, the reload.  Every file is
opened, which empties it (`OpenFile`: `util.py:295`, `492`), and then written
(`WriteFile`).  `commit` has the tasks `CommitTasks`; `start`, `stop` and
`restart` run the script and then dump the flag alone (`FlagTasks`).  A fault
(`Fails`, or `Crash` for a killed daemon) drops the rest; a constructor that
raises ends `pymind`.  `BootRestored` and `BootDefaults` are the constructor:
`_load()` takes the files in order and raises at the first that it cannot
read.  A missing file leads to the defaults and a commit, a file that was cut
short to no daemon at all.  The service, which is not a child of the daemon,
comes and goes by itself, and `Timer` is the `pgrep` of
`InitdHandler.handle_timer`.

`hosts` stands for the containers, `config` for all the files rendered from
templates.  `call()` does nothing while `DEBUG` (`util.py:20`) is set; the
module describes the program with `DEBUG` off.  A script that fails leaves the
daemon as it was, so it is no action of its own.  DHCP differs from the proxy:
in its list of base classes `ReloadHandler` comes before `InitdHandler`, so
that its reload is a restart, and the timer of `Handler`, which does nothing,
hides that of `InitdHandler`.

### Containers

A dictionary is a function with a finite domain, and an item a record that has
the fields `add`, `update` and `delete` if its class has such attributes (the
code asks with `hasattr`).  `AddItem`, `UpdateItem`, `DeleteItem`, `Cleared`
are the commands of `DictSubHandler`; `CanAppend`, `ReplaceAt`, `DropAt` those
of `ListSubHandler`; `Touched` is what the Composed classes add: they mark the
object that holds the container.

### Dns

The file of each zone, `named.conf` and the zones that named serves are kept
apart.  `commit` is `Commit` (the dump, with the flags as they are), one
`WriteZone` for each zone, in any order as dictionaries have none, `EndWrite`
and `Reload`.  `FreezeFails` and `ThawFails` are the two `rndc` calls that may
raise; what is written before and after them differs.  `RestartDaemon` may
come between any two of these steps.  named comes and goes by itself
(`NamedEnds`, `NamedStarted`), and `Timer` finds out.  A deleted zone loses its
file in `WriteZone` (`Unlinked`), if zone files are kept in the working
directory of the daemon (`ZonesHere`): `unlink` is given a name without its
directory.  `rndc` fails also when
named does not serve the zone.  `hosts` stands for the three containers of a
zone, which are instances of the same class; of the parameters only "one was
set" (`dirty`) is kept, since nothing depends on their values.

### Network, IpService, PppService, QosService, Router

`link` is what `ip -o link` would show, `routes` and `default` the routes
without a device.  A network card can be pulled and plugged in again with
nothing configured; the device of a connection is there as long as its pppd.
The three services change memory (`IpEdit`, `PppEdit`, `ClassesOf`), and put
it in force: `IpCommit` and `PppCommit` and `QosCommit`, and `Tick`, which is
`handle_timer` of all three in one step as the root calls them one after the
other.  A start of a connection may fail at any connection of a list
(`Processes`, `Rerun`: those before it are up, those behind it untouched).
`Ends` and `Begins` are the end of a daemon and the next one's constructors,
in either order of ip and qos against ppp; a connection that cannot be started
then is an error that nothing catches.

Addresses and routes of a device are sets: neither their order nor their index
matters to the kernel.  Each `ip addr add`, `ip route add` and `tc ... add` is a
command of its own, whose error the code swallows before it goes on: the kernel
may refuse any of them (`Refusals`, `NoClasses`, `BringUp`), and what is in
force then is any part of what was to be.  `refused` is history: the devices
that came back and that a tick has configured but for something refused.
`Data` stands for all that a connection is configured with.

### Filters

`rules`, `script` and `filter` are the rules in memory, in `iptables.sh` and in
the kernel; `Inserted` is what the kernel makes of a script, rule by rule:
rule n of the list is inserted at index n of its own chain, which is refused
when the chain is shorter than that.  A shell script ends with the status of
its last command (`Succeeds`).  A port forward has `ports`, the number of ports
in its destination: rendering appends one (`portfw.py:52`), and a destination
with two is refused.  nat stops at the first refusal (`Done`).

`Unfit` are the rules, forwards, snats and masqueradings that iptables refuses
whatever the tables are.  They are not contrived: a rule with a protocol gets
`-m` with the protocol in capitals, or `ALL` (`iptables.sh:29`,
`firewall/rule.py:24`), and nothing that nat is given is validated
(`portfw.py:24`, `snat.py:19`, `masq.py:19`).  iptables may also not work at
all while a command runs (`works`).  `Ends` is the end of the daemon or of the
machine, whose tables are empty then; `Begins` the constructors.

### CommandParser, Dispatcher, Config, Pymind

`Read` is one turn of the loop of `parse_command`, with its variables under
their names; `EndOfCommand` is what follows the loop.  `Reading` says what the
documentation of `parse_command` says of a command, without the states of the
automaton: `Lexed` tells where quotes and escapes are, `Worded` makes words,
keywords and values of the text between the blanks, each at the blank or equal
sign that ends it and not, like the code, when the next one begins.  `Quirky`
describes the texts that the automaton reads otherwise.  `Routed` is the loop of
`dispatch`, a walk down the tree, and `RoutedAt` one turn of it; `Call` is what
the decorator checks, and `Help` the one command that every handler has.

`Config` has one option of each kind: a list without a validator (`services`),
one with a default and a validator (`bind_port`), and one that belongs to a
service and has no default (`pickle_dir`).  `LoadConfLenient`,
`AddConfigOptions` and `LoadConfStrict` are the three steps of `pymind`, and
`EditFile` someone with an editor between them.  In `Pymind`, `Root` says which
services the root handler has, and the commands are answered with it.

## 3. The runs

| Run | Bounds | Distinct states | Shows |
|---|---|---|---|
| `procman` | 2 names, 3 pids, `MaxErrors` 1 | 89552 | the properties of `ProcessManager`, and that it implements `Supervisor` |
| `procman_errors` | the same | | violation of `FailuresAccumulate` |
| `daemon` | 2 clients, each of 3 signals sent once, and the alarm without bound | 19466 | the properties of `PyminDaemon` |
| `daemon_term` | the same, without failing calls | | violation of `TermStops` when clients may fall silent |
| `vrrp` | 1 service, 2 pids | 1445 | the properties of `Vrrp` |
| `vrrp_restart` | the same, without failing calls | | violation of `RunningServiceRuns` |
| `initd` | 2 values, 2 faults | 87088 | the properties of `InitdService` |
| `initd_boot` | 2 values, 1 fault | | violation of `BootComesUp` |
| `dns` | 2 zones, 1 host, 1 address, `ZonesHere`, `MaxEdits` 5, 1 restart; symmetric in the zones | 1887425 | the properties of `Dns` |
| `router` | 1 card, 1 connection, 1 address, route and class, 2 sets of data, one of them in `NewData`, `MaxEdits` 2, `MaxEvents` 2 | 718944 | the properties of `Router` |
| `filters` | 2 chains; 2 targets, forwards, snats and masqs, one of each unfit; lists of 2, `MaxEdits` 4 | 1778237 | the properties of `Filters` |
| `pymind` | 2 letters, commands of 6 characters, 1 service, 1 edit | 851794 | the properties of `Pymind` |

Two names are what the handler needs to mix up processes (one in its hands,
one started by the callback or exiting meanwhile); no action involves a third.
Each name has at most one child, and one more pid is needed as the pid just
reaped is not used at once.  `MaxErrors` is never reached (see below), so its
value does not matter beyond zero and not zero.  Two clients are enough for
one to be overtaken by the other, and each signal once, together with the
alarm that repeats, for any two to meet in the list.  Two values tell committed
data from others, and two faults let a daemon be killed while it recovers from
what the first one left.

Two zones are what a rename needs, and what `delete_zones` needs to hold more
than one name.  Five edits are enough to add a zone and a host in it, delete
and add again, with changes left for a second commit; one restart is one
daemon that recovers.  Commits, rollbacks, starts and the failures of `rndc`
are not bounded.  One device of each kind, one address and one class are
enough for there to be too much or too little of it, since devices do not
influence each other, except a connection that fails for those behind it: that
case is in the proofs of `RouterProofs`, which are for any number.  `NewData`
bounds what a connection is added with: it gets other data by an update.  Two
events are a device that goes and comes.  With `ZonesHere` the run sees the
files of deleted zones go, without it they stay and nothing is said of them.  A
list of two rules is the shortest in which a rule is refused for its index, and
in which there is something before or behind one that is unfit.  Commands of six characters over two letters, blank, equal
sign, backslash and both quotes contain every state of the automaton with what
leads to it and what leaves it, and commands as long as `nn n N` reach the
arguments of a service's command; the names are chosen so that one can be
misread as another, and n and N are letters that mean something after a
backslash.  One edit of a file may fall between the two readings.

The run `pymind` does not check for deadlock: pymind may end before it serves
anything.  In all others the system never stops.

### Properties

`ProcessManager`: `MapsAgree`, `ChildrenManaged` and `NoExitIsLost` are about
the interleaving of exits, signals and the handler; `SupervisionSpec` is the
refinement; `ZombiesAreReaped`, `StopTakesEffect` and `PersistentComesBack`
say that what should happen does.  `PyminDaemon`: `ReceiveNeverBlocks`,
`StopEndsTheTurn`, `TimerNeverDies`; and that TERM, SIGCHLD, ticks and requests
are served in the end.  `Vrrp`: `FlagIsSaved`, `NothingStartsWhileStopped`,
`BootStarts`, `StoppedGoesAway`.  `InitdService`: `PicklesExist`,
`ReloadUsesCommitted` (pickle files, configuration and memory agree when a
commit reloads, whatever failed before), `ConfigRendersPickles`, `BootStarts`,
`FlagConverges` (the flag follows the service) and `ComesUpUnlessCut`.

`Dns`: `FlagsTellAll` (what differs from the files has a flag that will make
a commit write it), `ReloadServesZones` (after a commit's reload named serves
the zones that there are, as they are), `CommitRemovesDeleted`.  `Router`:
`OnlyCommitted` (classes and addresses that were not saved are not in force,
whatever ticks, rollbacks and new daemons configure), `RollbackDiscards` and
`ReturnedDeviceIsConfigured` (liveness: a device that was away for a tick and
came back is configured again, but for what the kernel refuses).  `Filters`:
`TablesFollowFlags` (through commits, rollbacks, restarts and reboots, a
service that is flagged as running has in force what was committed, one that is
not has nothing) and `DaemonComesBack` (once iptables works, the only daemons
that cannot be started are those that saved something which is refused).  `Pymind`: `AnswersTheCommand` (every
command gets the answer that its text asks for, by a reading that does not
know the automaton) and `ConfigIsServed`.

Where the code is known to do otherwise, the property names the exception, no
wider than the known cases: `loose` in `Dns` holds the zones that a command
changed without a flag, `fwlast` and `natcut` in `Filters` say how the last
start went, `refused` in `Network` holds the returned devices of which the
kernel refused something, `committed` in `PppService` is None when a start or stop has
saved something else since the last commit, and `Quirky` in `CommandParser`
describes three kinds of text.  They are history, or read by properties alone.

### Fairness

A step of the daemon that can be taken is taken: it is a running thread
(`WF` of the loop and of the handler's steps).  A pending SIGCHLD is handled
although clients keep calling, because the loop looks at its signals before
the datagram (`SF` of `BeginSigchild`; in `PyminDaemon` this is not assumed
but checked, as `ChildSignalHandled`).  That presupposes clients that keep
calling, or children that keep ending: the very last signal before a silence
may wait for what `daemon_term` shows, so the liveness properties of
`ProcessManager` and `Vrrp` hold up to the moment that something wakes the loop.  `waitpid(-1)` takes the children in
the order of their birth, so a zombie is not passed over for ever (`SF` of
`Reap(p)`).  A child that was signalled ends; nothing else is assumed of
children.  Time goes by however busy the loop is: each turn of it takes some (`SF` of
`TimePasses`).  Clients are only assumed to keep asking in the run
`daemon`; `daemon_term` does without.  In `InitdService` a command goes on to its
end (`WF` of `Step`), somebody starts a daemon that is off (`WF` of `Boot`),
and the timer gets its turn between the commands that keep coming (`SF` of
`Timer`).  `Router` assumes the same of its timer, in the weaker form: `WF` of
`Tick`, which is enabled as long as there is a daemon.  Both are what
`TimerTicks` of `PyminDaemon` checks: the handler of SIGALRM runs again and
again, or the daemon ends, as long as there are clients that keep asking.  `Dns`, `Filters` and `Pymind` have safety properties
only, and no fairness.

### What the violations show

- `procman_errors`: `restart()` begins with `clear()`, so the error that
  `sigchild_handler` has just counted is forgotten, and `max_errors` is never
  reached: a persistent process that always fails is respawned for ever
  (`procman.py:206-210`).
- `daemon_term`: a signal caught after the list was looked at and before
  `poll()` waits until something else wakes the loop.  When the alarm's own
  signal is the one behind it, nothing will (`eventloop.py:176`).
- `vrrp_restart`: `restart` is `stop` and at once `start`, which does nothing
  as long as the old process is in `namemap`.  The service ends up stopped and
  marked as running (`util.py:620`, `procman.py:127`).
- `initd_boot`: a pickle file is emptied before it is written.  A daemon that
  is killed in between does not come up any more: `_restore` expects files that
  are missing (`IOError`), not files that are empty (`EOFError`), and loads the
  defaults only for the former (`util.py:295`, `356`).

### What the exceptions stand for

These are in the models as they are in the code, and the properties above name
them.

- Containers: an item that is added, deleted and added again before a commit
  has lost its `_add` (`util.py:867`); `clear` forgets the items with their
  flags.
- DNS: a zone that is renamed keeps its key; `delete_zones` has names, so a
  commit may remove another zone, or raise (`dns/handler.py:113`).  A zone that
  cannot be thawed has lost its flag, though named does not have the new file.
  A zone that named does not know makes `freeze` fail, and every later commit
  with it.  The handler's own `_update` is not saved, so `named.conf` may stay
  behind after a restart.  The first start writes none.
- DNS: the file of a deleted zone is unlinked by its name alone
  (`dns/handler.py:104`), while it was written in `config_zones_dir`.  Unless
  that is the working directory of the daemon the file stays, and the error is
  taken for that of a zone that was never written (`105-107`).
- IP: `HopHandler.add` passes device and gateway in the wrong order, so that no
  hop is ever on an active device; a commit with a hop deletes the default
  route, and the `append` on a dictionary that was to add it again is not
  reached (`ip/handler.py:91`).  The flag `active` is saved and restored: after
  a rollback a device that has come back is not configured.  A returned device
  is configured at every tick, since `self.active` is not the device's
  (`163`), and with changes that were not committed.  One that went and came
  between two ticks was never missed, and is not configured before the next
  commit (`158`).  What the kernel refuses is refused in silence (`131`).
- PPP: a pppd outlives its daemon, and makes the constructor of the next one
  raise (`ppp/handler.py:43`).  `start` and `stop` dump changes that were not
  committed (`86`).  A commit that fails to restart one connection leaves those
  behind it running with their old data.
- QoS: the timer forgets the classes of a device that went.
- Firewall: rules of two chains in one list are refused by the kernel.  NAT: a
  forward that is rendered twice has two ports and is refused; when it was
  saved like that, there is no daemon any more.  The same goes for whatever
  iptables refuses by itself: any rule with a protocol in a running firewall
  (those behind it have an index too many then), any entry of a running nat
  that makes no sense.
- Parser: `n != 2` (`dispatcher.py:423`) glues a second token to a first one of
  one character; a token that begins with an escape is cut after it, unless the
  token before it has text that is still to be registered (`hello \nmundo` is
  read well, `hello "" \nmundo` is not); an equal sign after a blank belongs to
  the token before the blank.  `\N` in the place
  of a command's name is an internal error.
- Configuration: an error in the handling of errors (`pymind:107`, `117`) turns
  a message into a traceback.  The process ends in both cases, which is all
  that the model says of it.

## 4. The proofs

`ProcessManagerProofs` proves, for any set of names and pids and any
`MaxErrors`, that `Spec` implies `[]TypeOK`, `[]MapsAgree`,
`[]ChildrenManaged`, `[]NoExitIsLost` and `SupervisionSpec`.  The invariants
are not inductive by themselves.  What is missing is what the handler holds in
its hands between two steps: `Hand` says that the pid in `cur` is reaped, still
in `pidmap`, and the process of `who`; `Cleared` that a name without a process
has the attributes that `clear()` leaves.  Their conjunction `IInv` is checked
action by action, one lemma per action, and `Refinement` maps every action to a
step of `Supervisor` or to a stutter, using `IInv`.

`PyminDaemonProofs` proves `[]TypeOK`, `[]ReceiveNeverBlocks`,
`[]StopEndsTheTurn` and `[]TimerNeverDies` for any set of clients and any
number of signals.  That a datagram is there when `recvfrom` is called is
decided when `poll()` returns and used after the signals: `WokenForAReason`
carries it over.  `ServesAClient` is needed for the type of `answered`.

`InitdServiceProofs` proves `[]TypeOK`, `[]PicklesExist`,
`[]ReloadUsesCommitted`, `[]ConfigRendersPickles` and `BootStarts` for any set
of values and any number of faults.  None of the last three is inductive: what a commit has
done before its last step is in `Progress`, one conjunct for each file, which
says that the dumps behind it still hold what is in memory; `ThereOnceRead`
says that a constructor that only starts its service has found all its files;
and `FirstDaemon` that without a fault there is no second daemon.  A lemma on
the change of one file (`OneFile`) serves both steps that touch the disk.

`VrrpProofs` reuses the lemmas of `ProcessManagerProofs`: a command of the
service is made of operators of the manager, and `ServiceCalled`,
`ServiceStarts` and their like say that `IInv` survives them in these new
combinations.  The invariant of the service is `VInv`.  It adds `Settled`: the
saved flag is the flag, and a process that is still there after a stop has
`_dont_run` set; this is why no SIGCHLD brings it back
(`NothingStartsWhileStopped`).  `Fresh` says that before the constructor the
manager is untouched, which `BootStarts` needs.

`DnsProofs` proves all four properties of `Dns`, for any zones, hosts and
addresses and any number of commands and restarts.  `FlagsTellAll` must hold of
the pickled zones too, as a rollback or the next daemon brings them back while
the files have moved on: `Agrees` is asked of both.  Between the dump and the
end of a commit `DumpedBefore` relates them: the zones not looked at yet are as
they were dumped, of the others only the flags differ.  `GoneIsDeleted` says
that `delete_zones` holds the deleted zones, each once, as long as keys are
names, and `ReadyToReload` carries the result to the reload.

`RouterProofs` proves `[]RouterTypeOK`, `[]OnlyCommitted` and `RollbackDiscards`
for any devices, connections, addresses, routes and classes: the run has one
connection, the proof covers the list of connections of which one fails.  The
types say more than the sets of values (a connection has a device if and only
if it has a pppd; what runs has a peers file), and need `SavedCanStart`,
the same of what is saved.  `SavedIsCommitted` relates the history variable to
the pickle file.  `OnlyCommitted` is strengthened twice: `QosInv` says that a
device which qos does not list has no classes, and that the memory of a daemon
that is down is what was saved; `IpInv` says the latter of ip, and that nothing
is saved of a device that ip does not know.  Steps that only take something
away (`LessClasses`, `LessAddrs`) keep both.  The lemmas are about dictionaries of devices: what
`Configure`, `ShapeAll` and the changes of `link` keep.

`FiltersProofs` proves `[]TablesFollowFlags`, `[]DaemonComesBack` and the types
for any chains, targets and length of the lists.  Memory, pickle file, script
and table are tied together: `Saved` says that flag and script are those of the
pickle file, `FilterInForce` ties the table to the script even where a start has
failed, and `NatInForce` says that what was inserted has one port.  Whether a
script succeeds is a recursive function of it.  The induction theorems of the
library are of no use (they have an operator as a parameter), so `Least`,
`Induction` and `Recursion` state for sets and functions what is needed of them,
from the well-founded order of the numbers: a table that is defined rule by rule
exists (`TablesOfScript`), and of a script with one chain in which every rule is
fit, each finds a chain that is long enough (`OneChainInserted`).

`PymindProofs` proves both properties of `Pymind`.

- `ConfigIsServed`, for any services, any contents of the files and any number
  of edits: `CInv` says which files were read at each step of the start
  (`Paths`: `append` puts its file there again at each reading), and that the
  options that were loaded are those that are asked for, up to an edit.  What a
  sequence of files gives is a recursive function, of three files at most
  (`MergedFew`).
- `AnswersTheCommand`, for commands of any length, over any letters and with any
  services.  `RoutedRight` shows that the loop of `dispatch` gives each list of
  words the answer that is asked for (`DispatchAnswers`): it comes to an end as
  the tree is three handlers deep.  `Follows` compares the automaton with the
  reference reading after each character.  Four situations are possible: in a
  word, between words with nothing to register, between words with one that is
  still to be registered, and after an escape that began a token.  In the third
  the reference is ahead by one word, in the fourth the automaton will cut it.
  From each, a character leads to one of the four again, or to a text that is
  `Quirky`, and those stay so (`QuirkStays`).  One more character changes
  nothing of the tables for the text so far (`LexedOn`, `WordedOn`), which needs
  that they are the only ones: `Least` again.

This proof has corrected the description of the second kind of text: a token
that begins with an escape is also cut behind an empty quoted token, which takes
nine characters to show.  The invariant was checked with TLC for all commands of
up to nine characters over four signs and a letter before it was proved.

The proofs rest on the assumptions on the constants, which TLC evaluates in
every run.  Those of `Pymind` say that a service is known by its name, that the
attributes `help`, `parent` and the data of a handler have names of their own,
which are not those of services, that VOID is not a value that can be written
(it is an object of its own, `config.py:37`), and that the empty text is not a
character.  Model-checked only is liveness, for which the prover has no support
(it treats neither fairness nor ENABLED): `ZombiesAreReaped`, `StopTakesEffect`,
`PersistentComesBack`, `TermStops`, `ChildSignalHandled`, `TimerTicks`,
`RequestsAnswered`, `StoppedGoesAway`, `FlagConverges`, `ComesUpUnlessCut` and
`ReturnedDeviceIsConfigured`.

## 5. Not modelled

- VPN: its operations do not get to their end.  `_write_config` reads a name
  that is not defined as soon as there is a VPN to write
  (`vpn/handler.py:123`), and its hosts have no `_delete` (`133`).
- Validation (`validation.py`, `validatedclass.py`, `item.py`, `seqtools.py`)
  and serialization: functions of single values, without state.  Inputs of the
  models are values that pass validation.
- Templates and other formatting: what a file is rendered from is compared, not
  its text.
- Queries (`show`, `list`, `get`, `commands`), which change nothing.
- The hosts of a traffic class, which are one more level of the same; `index`
  and order of addresses and routes.
- Of the configuration: the section DEFAULT, interpolation, abbreviations of
  options, and logging.
- `device_up_hook`, which nothing calls, so that `_restart_services` of ip has
  no services; and that `pgrep` of ppp finds a name by its prefix (`131`),
  which needs names that are made of characters.
- Commands of ip and tc that take away something on a device that is there:
  they are taken to succeed.  (On a device that is gone they fail, in silence.)
- Of the firewall and nat: a commit that fails between its dump and its script
  (these steps are those of `InitdService`, where each may fail); and iptables
  that stops working in the middle of a script.
- An error condition of the socket, for which `poll()` would return without a
  datagram: the socket is unconnected, and reports none.
- Of the process manager `ProcessInfo.running`, which only its self-test uses;
  of the loop `loop(once=True)` and the replacement of files and signals.
