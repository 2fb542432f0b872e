# A verification of xdg-desktop-portal-termfilechooser

These modules model the daemon `xdg-desktop-portal-termfilechooser`: a single
threaded process that answers the D-Bus methods `OpenFile` and `SaveFile` of a
desktop portal by running an external *picker* program and reporting what the
picker writes to a pipe. Small instances are model-checked with TLC; the safety
properties that matter most are proved with TLAPS for every value of the
constants. Paths such as `src/filechooser.c` are relative to the repository.

## The system

| component | state it keeps | operations |
|---|---|---|
| event loop, `lib/pollen.h` | epoll and signal descriptors, lists of callbacks, `should_quit`, `retcode`, the batch `epoll_wait` returned | create, add fd / signal / timer / idle, remove callback, run, quit |
| request objects, `src/filechooser.c` | the list `xdptf->requests`; per request the D-Bus object at `handle`, the pending response, `pipe_fd`, `picker_pid`, the buffer | `OpenFile`, `SaveFile`, `Close`, pipe callback, finalize, cleanup |
| picker processes, `src/picker.c` | pipe, process, process group, inherited signal mask | `exec_picker` in parent and child |
| daemon, `src/xdptf.c` | the lot | start-up, SIGINT/SIGTERM, SIGCHLD, bus descriptor, shutdown |
| bus connection, `src/dbus.c` | connection, bus name, match on `NameOwnerChanged`; in sd-bus the queue `rqueue` of messages read but not dispatched | init, lost name, cleanup |
| buffer and URIs, `src/ds.c`, `src/uri.c` | a growing string | append, split into lines and percent-encode |
| configuration, `src/config.c` | `picker_cmd`, `default_dir`, `loglevel` | parse, fill defaults, verify |
| logging, allocation, list macros, build glue | - | - |

**How they interact.** The loop calls the handlers one at a time. A method call
(`dbus_event_handler` -> sd-bus -> `method_open_file`) forks a picker, exports a
request object at the path the client has chosen, puts the request in the list
and registers the reading end of the pipe with the loop. From then on four things race to end the
request: end of file or an error on the pipe, SIGCHLD of its picker (whose
handler goes through the list looking for the pid), the client's `Close`, and
the end of the daemon. Each of them cleans the request up, which removes its
callback from the loop *while the loop may be in the middle of a batch that names
that callback*. The picker runs concurrently with all of it, from `fork` on.

Before all that, `main` reads the configuration, asks the bus for its name,
installs the match that will tell it when the name is lost, and creates the
loop. Other instances do the same at the same time, with or without `--replace`, and
clients call already.

**What is hard.** The order of descriptors within a batch of `epoll_wait`;
callbacks freed while the batch, or the iteration over the idle callbacks, still points to
them; SIGCHLD and the pipe
of one child reporting the same event in either order; several deaths in one
SIGCHLD; pids that the kernel reuses; signals sent to a process group that the
child may not have created yet, and inherited blocked; failures after the fork,
when there is already a process and a pipe to care for; a quit that takes
effect only at the end of a batch; signals that arrive between the steps of
`pollen_loop_add_signal`, and its way back from a failure; messages that overtake the
reply of a synchronous bus call, and a name that is lost before anybody listens for it. `PROJECT.json` lists them line by line
under `hazards`.

**What makes each part correct.** Event loop: a callback runs only while it is
registered; nothing that is ready starves; a quit ends the loop. Requests: every
call gets at most one reply, and exactly one unless it was closed or the daemon
or bus ended; no descriptor is lost. Pickers: the pid stored in a request is
that of its own picker for as long as the request lives; all children are
reaped; Close ends the picker and no other. Buffer: what the picker writes is
reported once and in full. Bus: an instance that has lost its name ends, only
`--replace` takes it (the bus sees to that), and no call is lost or overtaken on the way in. Configuration: the last
assignment counts. Signals of the loop: none disappears, and none is watched that
nobody handles.

## Modules

    FileChooserService                    what the portal promises
            ^ refinement mapping
    FilechooserProperties                 invariants, action and liveness properties
            |                 \
       Filechooser             \--- FilechooserTypes <- FilechooserSafety <- FilechooserRefinement  (proofs)
        /       \               \
     Pollen    Picker            MCFilechooser   (instances for TLC)

    Config <- Startup <- StartupProperties <- StartupSafety <- StartupCalls <- StartupConfig (proofs), MCStartup (TLC)

    Pollen <- PollenLoop <- PollenLoopProperties <- PollenLoopSafety (proofs), MCPollenLoop (TLC)

    Selection <- SelectionProperties <- SelectionSafety (proofs), MCSelection (TLC)

* **`Pollen`** is the loop: `mode` says whether it is blocked in `epoll_wait`,
  between two callbacks, inside one, or over; `events` is the rest of the batch,
  `ready` the kernel's ready list, `callbacks` the callbacks that have not been
  freed. `EpollWait` takes a batch of at most `MaxEvents` and puts the level
  triggered descriptors back at the tail, as the kernel does. Handlers
  end with `CallbackReturns(ret, quit)`: a negative `ret` stops the loop at
  once, `quit` (a call to `pollen_loop_quit`) at the end of the batch.
* **`Picker`** is the child and its pipe, one of each per call: `proc`, `pid`,
  `grouped` (has called `setpgid`), `termPending` and `termBlocked`, `written`,
  `pipe`, `wopen`, `ropen`. `exec_picker` is the parent's half, `ChildStart` and
  `ChildExit` the child's.
  What the picker's program does (write, close its output, reset its signal
  mask, exit) is left to choice.
* **`Filechooser`** composes the two with the bus and has the handlers as
  actions: `MethodCall*` (the two methods have one control flow; they are split
  at the fork, after which the child runs concurrently), `method_close`,
  `handle_name_lost`, `PipeDrained` / `PipeEof` / `PipeError` (the three
  outcomes of `request_fd_event_handler`), `sigint_sigterm_handler`,
  `sigchld_handler` with `ReapChild` for each child `waitpid` returns, and
  `Exit`. `filechooser_request_finalize` and `filechooser_request_cleanup` are
  operators that these actions call, as in the code. `StaleDispatch` and
  `RequestCallbackRuns` are what undefined behaviour may do when the batch names
  a freed callback: the loop may stop on an unknown type, crash, find
  nothing to do, or run the callback that now occupies the memory.
* **`FileChooserService`** is the abstract specification: a call is requested,
  then picking, then answered with chosen paths or, if it is withdrawn (a client closes its
  object path), dismissed. Its parameter `Failing` says what else may become of a call. The mapping allows
  an error after picking began (`"error"`) only if exporting the object or reading the pipe may fail or calls
  may share an object path, and a lost answer (`"silence"`) only if sending may fail or the
  connection may break. So `Portal` checks it with nothing allowed, `Shutdown` with both.
* **`FilechooserProperties`** has all properties and the inductive invariant.
* **`FilechooserTypes`** (types), **`FilechooserSafety`** (the inductive invariant and what
  follows from it) and **`FilechooserRefinement`** (what a step can do to a request, and the
  refinement) hold the proofs.
* **`Selection`** is the same data byte by byte, for one request: `written` is the
  picker's output, `ds_append_bytes(n)` a read of `n` bytes of it with the code's
  arithmetic of the capacity, `get_uris_from_string` the scan that ends at the
  first NUL and makes a URI of every line that has a newline. `Finalize` may come at
  any time, as the reaper's does. **`SelectionProperties`** compares with a
  percent-decoder written from RFC 3986; **`SelectionSafety`** has the proofs,
  **`MCSelection`** the instance.
* **`Config`** is `src/config.c` as operators on the lines of a file: what
  `config_parse_file` skips, what aborts it (`AfterLine` is one round of its loop), the
  defaults and `config_verify`.
* **`Startup`** is `main` up to the loop, for several instances on one bus.
  `stage` says how far an instance has come: `config_init`, then
  `sd_bus_request_name` and the wait for its reply (`NameGranted`,
  `NameRefused`), `sd_bus_add_match` and the wait for its reply, at the end of
  which `pollen_loop_run` enters the loop. `socket` and
  `rqueue` hold the messages to an instance: `TakesReply` moves what
  precedes the reply of a synchronous call to `rqueue`, and
  `dbus_event_handler` takes one message, from `rqueue` first, *when the socket is
  readable*. `StartFails` is any of the errors of `main`, `Terminate`
  SIGINT and SIGTERM at any time, and `lostAt` a record of the stage in which an instance lost the
  name. The bus grants or refuses the name in one step
  with the request, tells the old owner, and keeps calls to a name without an owner
  in `activation`. **`StartupProperties`** has the properties;
  **`StartupSafety`** (the bus name), **`StartupCalls`** (the calls) and
  **`StartupConfig`** (the configuration) have the proofs, **`MCStartup`** the instances.
* **`PollenLoop`** is the event loop as a library, for any program that uses it: it extends
  `Pollen` with what the portal does not do. `LibraryCall` is the guard of what a program may call, from
  a callback or before the loop runs: adding and removing descriptors, timers, idle
  callbacks and signals, and quitting. `pollen_loop_add_signal` is
  step by step (`AddSignalBegins`, `AddSignalExists`, `AddSignalInstalls`,
  `AddSignalFails`, `AddSignalReturns`), because signals arrive in between; `sigset`,
  `handlers`, `watched` and `blocked` are the loop's set, its table of callbacks, the
  kernel's mask of the signalfd and that of the process. `SetsMask` is `sigprocmask`: a pending signal that it
  unblocks takes its default action at once, which is to be dropped for those in `Ignored`, and to kill for
  the others; the read of the signalfd may then find nothing (`NoSignalToRead`). Whether a descriptor is closed by the loop
  (autoclose) is chosen when it is added. The batch is
  followed by the iteration over `idles`, whose saved successor is `upcoming`. A pointer to a freed callback is
  `Freed`; following it leads to the mode "undefined", of which nothing is
  claimed. **`PollenLoopProperties`** has what the comments of
  `lib/pollen.h` promise, **`PollenLoopSafety`** the proofs, **`MCPollenLoop`** the instance.

**Abstraction.** A *selection* is one path with its newline; pipe, buffer and
replies count selections. A read that splits a line leaves the first half in the buffer
and, in the model, the whole selection in the pipe: that half reports nothing
until the rest arrives, so the counts agree; that reads are joined without a gap and that every
complete line becomes one URI is what `Selection` shows. A request, its callback and its
picker are named by the call they serve. Signals pending in the signalfd
are a set, as standard signals are; SIGINT and SIGTERM share their handler and
are one. Readiness of the pipe wakes the loop in the order in which the kernel
reports it: end of file first, then SIGCHLD.

Definitions such as `EpollWaitEdge` or `CleanupKeepsRequest`, marked "a wrong
version", are used by nothing: each is a plausible bug that the property beside
it in `mutants` must catch when it replaces the definition after it.

## Runs

Two calls are the smallest number with everything that is interesting: one
request ending while another is listed, two deaths in one SIGCHLD, a pid that
is reused by the second picker, two requests for one object path, and
three or four descriptors in one batch. Nothing in the code counts requests or treats a
third one in another way. There are as many pids as calls, so a pid is reused as
soon as the kernel may. `MaxLines` (selections written by one picker) is 2 where
reading is accumulated and 1 elsewhere. `MaxEvents` is the code's 16, which
never splits the ready list of so few descriptors, except in `Liveness`, where it is 2,
so that it does. Calls and pids are symmetric in runs without liveness. A client
closes a request at most once, and the end of the daemon is requested at most once at a
time: these bound the state space without a constraint. There are no state
constraints and no views.

`Selection` takes one byte of each kind the code tells apart (NUL, newline, the
percent sign, an unreserved letter, a byte that is negative as a `char`), six of
them (three lines, or an allocation that has been doubled), reads of up to three bytes, and a `size_t` so narrow (`SizeLimit`)
that doubling a capacity that `Memory` allows wraps around.

`Startup` has two instances, the second with `--replace`, two calls, and all
files of up to two lines, one of each kind the parser tells apart: two
are enough for an assignment to be overridden, and for an abort to come after an
assignment. An instance starts once; a third adds no order of events between the
one that takes and the one that loses the name. In `PollenLoop` a program makes up to
four calls (`MaxCalls`), which is what it takes to add two
idle callbacks, remove one and add it again, or to add, be refused and remove a
signal with another one there; there are one descriptor, one timer, two
idle callbacks of different priority, two signals (one of which is ignored by default, as
SIGCHLD is), and batches of
two (`MaxEvents`), less than the descriptors. `PollenLoopSafety` has no bound
on any of these.

`Faults` says which calls may fail, `Env` what the environment may do beyond
making calls; every combination that is not a run of its own is covered by the
theorems, where both are arbitrary.

| run | faults / environment | shows |
|---|---|---|
| `Portal` | Close; two selections | one reply per call at most (in `IInv`), selections conserved, pids owned, no descriptor lost, calls accounted for, signals only to the own picker, completeness at end of file; and that `FileChooserService` is implemented, nothing being allowed to fail |
| `Failures` | arguments, `exec_picker`, object path, `pollen_loop_add_fd`, `setpgid`, `read`, `sd_bus_send`; one object path for both calls; Close | at most one reply, own pids, live callbacks when any step fails; nobody is told a result while the picker can still write, so that no request ends for another's picker; a descriptor is lost only in the step in which its own method ends without a callback; end of file is still complete |
| `Shutdown` | SIGTERM, lost name, lost connection, failing `read` | requests are not dropped before the end, and the service is implemented even then, but for replies lost with the connection and the error of a pipe that cannot be read |
| `Liveness` | SIGTERM, batches of two | zombies are reaped, a finished selection is taken, calls are handled, SIGTERM ends the daemon |
| `Selection` | all streams of 6 bytes | the dynamic string stays inside its allocation and is what was written; decoding the URIs gives back the complete lines |
| `Startup` | any step of start-up, SIGTERM | the configuration is that of the last assignments; who runs owns the name or lost it later (in `NameInv`, part of `StartupInv`), and is told if its match is there; calls are neither lost nor overtaken between bus, socket and `rqueue`; the loser ends, and a queued call is reached when something arrives behind it |
| `PollenLoop` | `signalfd` on a change of its mask, `epoll_wait` | the loop's four records of its signals agree, no signal that a callback waits for disappears, none is watched without a callback or starves; idle callbacks run by priority, once, and all of them; what the loop owns is closed; a quit ends it |
| `RemovedCallback` | violated | the reaper frees a callback that the loop then dispatches (no client closes anything here) |
| `ResponseComplete` | violated | a picker that wrote paths and exited is answered as cancelled |
| `ClosedPickerDies` | violated | the picker of a closed request runs on |
| `ReplacedEnds` | violated | an instance replaced before its match is installed runs on without the name |
| `DefaultDir` | violated | `default_dir` is not used |

`Portal` has about a million states, `Failures` four and a half, the others fewer.

The five violated runs are disagreements between what the repository says and
what it does; `PROJECT.json` quotes the lines under `findings`. In short:
(1) `sigchld_handler` and `Close` free callbacks that a later entry of the same
batch still points to (`lib/pollen.h:780`); (2) the reaper finalizes a request
without draining its pipe (`src/xdptf.c:69`); (3) `setpgid` is only called
in the child, so that `kill(-pid)` can come too early (`src/filechooser.c:29`),
and SIGTERM is blocked in every picker (`lib/pollen.h:562`), so that Close need not end one;
(4) `dbus_init` does not look again whether the name is still its own when the match is
there (`src/dbus.c:77`); (5) pickers start in `/tmp` rather than in the configured directory (`src/picker.c:98`).
`NoFdLeak` and `EveryCallAccountedFor` are checked without set-up faults on purpose: a refused object
path does leak the pipe and leave the picker running (`src/filechooser.c:286`, `:403`);
`LeaksOnlyByFailedSetup` says that a method giving up, or not looking at the result of `pollen_loop_add_fd`, is the only way. `QueuedCallIsReached` needs something to arrive
behind the call: only the socket wakes the loop (`src/xdptf.c:158`), so that a call that sd-bus has read during
start-up waits for the next message, for ever if there is none.

**Deadlock** is checked in all runs: `Quiescent` allows stuttering only
when the loop sleeps with nothing to read or the daemon is gone, so a state in
which the daemon is stuck in the middle of something would be reported.

**Fairness** (`FairSpec`). Weak fairness of `Daemon`, all its actions together:
one thread that the operating system keeps running. Weak fairness of `Start(c)`,
the child between fork and exec, and of `DiesOfTerm(c)`, the kernel's delivery of
an unblocked signal. None for the picker's program, the user, the client or the
bus: nothing obliges them. In `Startup`, weak fairness of `Proceed(i)`: an
instance that has started goes on, and the bus has answered it when it asked; nobody
is obliged to start, call or stop one. In `PollenLoop`, weak fairness of `Loop`, the
loop and the steps of a call under way: callbacks return. The failures of system calls
(`Failures`) are not part of it: a loop that sleeps although there is something to do is not
rescued by an error of `epoll_wait`. That no descriptor starves is not assumed: it follows
from the order of the ready list.

## Proofs

The assumptions are the named ones of the modules: a positive `MaxEvents`, a
natural `MaxLines`, `NoPid` not a pid, `HandleOf` a function from calls to
handles, and the names of the descriptors distinct from those of calls;
`Nobody` is not an instance, a configuration file is a sequence of lines and what is made of it
is not `None`, which is no key either; the priorities are integers and different signals have different numbers. `Calls`,
`Pids`, `Handles`, `Instances`, `Files`, `Fds`, `Timers`, `Idles`, `Sigs`, `Faults` and `Env` are
arbitrary, infinite ones included.

* `TypeCorrect`: `Spec => []TypeOK`. One lemma per group of actions
  (bus, pipes, signals, environment, children), which rest on lemmas about what
  the loop's and the life cycle's operators return.
* `Invariance`: `Spec => []IInv`. No property above is inductive by itself. That a reply is
  the *first* one needs that a listed request is unanswered (`RequestsServed`),
  which needs that it was untouched when its message was taken
  (`UntouchedUntilHandled`), which needs that the message was there only once
  (`MethodCallsOnce`). That `RequestsOf` in the reaper hits only the request of the dead
  child needs that unreaped children have distinct pids (`PidsDistinct`) and
  that the picker of a listed request is unreaped. One lemma per
  action or group that disturbs the same parts; `EndStep` is the heart, for all the ways a request can end.
* From it: `OneReply`, `OwnPicker`, `Conserved`, `LiveCallbackData`, and the action
  properties `OwnPickerSignalled` and `EofComplete`.

* `FilechooserRefinement`: the lemma `StepKinds` says that, from a state of `IInv`, a step
  leaves all requests alone, ends the daemon, or does one of eight things to one call: it is made,
  refused, given a picker, given up, registered, drained, written for, or ended (`Ends`, with
  the replies it may end with). On it rest, each by those cases:
  `LeaksAreOfFailedSetup` for all faults (`OwnershipStep`: the owner of a reading end, its method or
  its registered callback, changes hands or is lost only where the method gives up or registers without a callback), and
  `NoDescriptorLost` if no set-up fails (`SetupSucceeds`);
  `NoCallForgotten` and `EndsWithReply` if `"send"` is not in `Faults`.
* `AnswersFinal`: `Spec => []AnswersAreFinal`, for all faults. It needs that only a living picker holds the writing end
  (`FinalInv`), so that the reaper's answers are final, too, and that unreaped pids are
  distinct, so that they go to the right request.
* `Refinement`: `Spec => ImplementsService` by the mapping of `FilechooserProperties`, without
  assumptions: each kind of step is an action of the service or none. Besides `IInv` it needs
  `ServiceInv`: the connection of a living daemon is down only if `Env` has `"busdown"`, so that a reply that is not sent
  is one of those that may get lost, and a Close in the inbox has been asked for (`ClosesAreAsked`), so that
  `method_close` ends only calls that were withdrawn. That an answer names only chosen
  paths comes from `RepliesBounded`.

* `NoOverflow` and `NothingLostBetweenReads` for `Selection` rely on each other, and are
  shown together (`BufferCorrect`). The assumption is that the largest allocation
  plus one read does not overflow `size_t`. `CapacityHolds` is the arithmetic:
  the second check of `ds_append_bytes` makes up for a doubling that is too
  small or wraps.
* `UrisDecode`: `Spec => []UrisDecodeToLines`, for strings of any length. `Encodes(u, t)` says that the
  encodings of the bytes of `t` stand one after the other in `u`; the scan keeps it for the
  line begun last (`ByteEncoded`), and whatever encodes `t` is decoded to
  `t` (`DecodeInverts`, from the end of the line to its beginning).
  `CharacterScanned` is one round of the scan: the URIs hold the lines up to the last
  newline, the rest is encoded in `line`.

* `NameInvariance`: `Spec => []NameInv` for `Startup`. That who runs owns the name
  needs that a grant in the socket is still true or the loss is on record
  (`GrantedIsOwner`); that the loser is told needs that the signal never
  stands before the reply to the match (`ChangedAfterMatch`), as `TakesReply` would move it to
  `rqueue` otherwise, where nothing wakes the loop for it. From it `RunningOwner` and
  `LoserInformed`.
* `CallsInvariance` adds `CallsInv`. That each sent call is in one place needs that
  it waits exactly with the instance it was sent to (`SentCallsWait`), and that no call is
  sent twice (`SentOnce`), which needs that `activation` has no repetition (`PendingCallsWait`).
  That calls are handled in their order needs that those that wait do so in the order of sending,
  behind the handled ones, and that the bus fails them only when the instance is gone
  (`InOrder`). Of a queue only the calls and their order count (`SameCalls`): `ReplyTakenOnly` shows
  that moving messages to `rqueue` during a synchronous call keeps both, and most other actions only
  post or take messages that are no calls. From it `SentCallsConserved` and `CallsHandledInOrder`.
* `ConfigLastAssigned`: `Spec => []ConfigIsLastAssignment`, for files of any length. `Parsed` is the invariant of the
  parser's loop: after `n` lines, no bad log level has been met and for each
  key the last of the assignments among them is in force, or the parser has stopped. `ConfigInv` carries
  the result of `config_init` to all later states. `StartupInvariance` puts
  the three parts together, as the run checks them.

* `LoopInvariance`: `Spec => []LoopInv` for `PollenLoop`, in four parts: the types and
  `SignalInv` adds to `SignalsAgree` what holds in the middle of
  `pollen_loop_add_signal`: the saved masks are those of a consistent loop without
  the new signal (`CanUndo`), so that the error path may go back to them. It also says that a signal watched without
  a callback, which a failing change of the signalfd leaves
  behind, is not blocked and so never pending. `IdleInv` says that the list is sorted and
  that what remains of an iteration is new and not of a higher priority than what has run
  (`RestIsNew`), whatever callbacks have added and removed meanwhile. `DueInv` says that what was there when the
  iteration began and was not removed has run or still stands at or behind the saved successor.
  From it `MasksAgree`, `NoOrphan`,
  `NotSwallowed`, `IdlesInOrder`, `IdlesAllRun`; `ClosesWhatItOwns` is inductive by itself.

The two theorems about a scan are inductions over its recursive function: that it
has a solution at all, and what it has after `n` steps, are shown by
taking the least `n` for which that is wrong (`LeastNumber`, from the well-foundedness of `<`), since the prover cannot
use the library's induction theorems, which take an operator as a parameter.

Every invariant and every action property that a passing run checks is stated by a theorem.
Only model-checked: what must eventually happen (`ZombiesAreReaped`, `EndedSelectionIsTaken`,
`CallsAreHandled`, `TermEndsDaemon`, `QueuedCallIsReached`, `LoserEnds`, `SignalIsServed`, `TimerIsServed`, `QuitEndsLoop`),
since the prover cannot reason about fairness.

## Not modelled

* A descendant of the picker that keeps fd 4 open after the picker has died: the
  pipe then reaches end of file later or never, and SIGCHLD ends the request.
* SIGCHLD for a stopped child (ignored by `sigchld_handler`), reuse
  of descriptor numbers, `abort` when memory runs out.
* Of sd-bus the write queue (below), its read queue once the loop runs, and that `method_close`
  returning 0 makes it send an error reply after the method return.
* `SIGPIPE` and a full pipe: the picker blocks or dies by its own doing.
* The cleanup at the end of `main` is one step: nobody can observe its middle,
  except a picker, to which it makes no difference.
* Logging, the choice of the configuration file's path, and the options of the command
  line other than `--replace`; `-l` overrides `loglevel`, which only
  changes what is logged. The linked list macros, allocation and build glue.
* Replies that sd-bus cannot write at once: they stay in its write queue until the
  next message arrives, since the loop watches the socket for input only (`src/xdptf.c:158`).
* `src/picker.c:65`: if the writing end is descriptor 4 already, `dup2` does nothing and the
  `close` after it takes it away. That needs a daemon started with its standard
  descriptors closed.
* In `Startup`, an instance started again after it has ended: it is another instance.
  Whether the bus may start one for `activation` is left to choice.
* The loop: the failure of `pollen_loop_create` and of memory; a failing read of a timer's descriptor
  (`lib/pollen.h:796`), which stops the loop as a failing callback does; the difference
  between the delay and the period of a timer. A quit before
  `pollen_loop_run` is forgotten, as in the code. That `signal_callbacks` has 38 entries
  (`lib/pollen.h:294`) and is indexed without a check is an assumption on the program: signals have numbers up to `MaxSignal`. `n_signal_callbacks` is counted
  and never read (a failure of `signalfd` leaves it one too high).
  A signal may be preceded for ever by others with lower numbers, since one is read per dispatch:
  `SignalIsServed` allows that.

## Plan

1. Done: the core (`Filechooser` with `Pollen` and `Picker`), `Selection`,
   `Startup` with `Config`, `PollenLoop`, and their proofs.
2. A refinement from `Selection` to `Filechooser`'s counting of selections, and one from
   `Filechooser`'s use of the loop to `PollenLoop`.
3. `PickerFds`: the descriptor table of the child around `dup2` (`src/picker.c:65`);
   sd-bus' write queue in `Filechooser`.
