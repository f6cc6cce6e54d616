# A TLA+ development of the 3G modem daemon tgmd

This directory specifies, model-checks and in part proves `tgmd`, the daemon that
drives a Huawei 3G modem for an Android system: the event loop, the requests and the
wake lock of `libtgm`, the AT command channel and the answers of `huawei_tgm`, and
the supervision of the `pppd` process that carries a data connection. Paths are
relative to `src/`.

## The system

### Threads and processes

| thread or process | runs | created by |
| --- | --- | --- |
| main | `tgmd/tgmd.c`: start-up (`TGM_startEventLoop`, `TGM_Init`, `TGM_register`), then USB uevents | the system |
| dispatch | `libtgm/tgm_event.cpp` `tgm_event_loop`: every client request (`onRequest`) and timed callback (`initializeCallback`, `pollSIMState`, `userTimerCallback`) | `TGM_startEventLoop` |
| mainLoop | `huawei_tgm/huawei-tgm.c` `mainLoop`: opens the device, waits for its end, runs pppd | `TGM_Init` |
| AT reader | `huawei_tgm/atchannel.c` `readerLoop`, one per session | `at_open` |
| waiter | `waitForPPPDTerminated`, one per pppd | mainLoop |
| pppd, usb_modeswitch | children | mainLoop, main |

### Components

| component | state | operations | interacts through | hard because |
| --- | --- | --- | --- | --- |
| event loop, `tgm_event.cpp` | `watch_table`, `readFds`, `nfds`, `timer_list`, `pending_list`, `listMutex` | add, delete, timer add, the loop | callbacks on the dispatch thread | other threads add events and timers while the loop sleeps on copies taken without the lock |
| sockets and pipe, `tgm.cpp` | `s_fdListen`, `s_fdCommand`, the two ends of the wakeup pipe | register, accept, read commands, end of stream, wake | events | one connection at a time, armed and disarmed by hand |
| timed callbacks, wake timer, `tgm.cpp` | `UserCallbackInfo` records, `s_last_wake_timeout_info` | request, fire, cancel | timers | a record is freed by one thread and marked by another |
| requests, `tgm.cpp` | `s_pendingRequests`, `s_writeMutex` | dispatch, complete, cancel, send | the vendor's `onRequest`, tokens | completions of clients that have gone, descriptors used again, four threads that send |
| AT channel, `atchannel.c` | `s_commandmutex`, `sp_response`, `s_fd`, `s_readerClosed` | send, wait, time out, handshake, read, sort lines, open, close | mutex and condition between command thread and reader | late answers, unsolicited lines, ends of sessions, retries |
| line buffer, `atchannel.c` | `s_ATBuffer`, `s_ATBufferCur` | `readline` | `read` | any division of the stream into chunks; never reset |
| tokenizer, `at_tok.c`, `misc.c` | none | scan a line | calls | quotes, empty fields, ends of lines |
| radio state, `huawei-tgm.c` | `sState`, `s_closed`, `s_state_mutex`, `s_state_cond` | `setRadioState`, initialisation, SIM polling | every vendor thread | stores with and without the lock |
| pppd supervision, `huawei-tgm.c` | `pppd_process_id`, `pppd_fail_times`, `s_pppd_mutex`, `s_pppd_cond` | fork, poll, wait, dial, disconnect, reset | signals, `waitpid`, notifications | three threads and a process, tests without the lock |
| vendor requests, `huawei-tgm.c` | cached names | query, PIN, authentication | AT channel, completions | some paths complete no token or one twice; answers come from caches while pppd has the modem |
| tgmd, `tgmd.c` | `target_inserted`, `pid` | uevents, mode switch | `wait` for any child | may reap pppd |

What makes each correct: the event loop never sleeps through something that was
added to it and keeps its table, fd_set and timers consistent; the command socket
and the listening socket take turns; responses are not torn apart and answers reach
the client that asked, once; a client knows the present radio state; the wake lock
is neither lost nor kept; a command gets its own answer or an error and its thread
always comes back; no line of the modem is lost, split or read twice; a session is
served by one reader and leaves nothing behind; requests are answered with what the
modem said; pppd has the modem to itself while it exists, its end is noticed, and
clients are told at most one outcome of each dial. The places where this can go
wrong are the `hazards` of `PROJECT.json`, each with its line.

## The modules

| module | models | proofs |
| --- | --- | --- |
| `TgmEvent`, refining `TimerService` | event loop, sockets, pipe, timers | `TgmEventProofs` |
| `WakeLock` | the wake lock and its timers | `WakeLockProofs` |
| `Requests`, refining `RequestService` | requests, responses, notifications | `RequestsProofs` |
| `ATChannel` | commands, reader, sessions | `ATChannelProofs` |
| `Readline` | the line buffer | `ReadlineProofs` |
| `ATTok`, used by `Answers` | the scanner, as operators; requests, answers and caches | `AnswersProofs` |
| `Pppd` | mainLoop, radio state, pppd | `PppdProofs` |
| `Tgmd`, extending `Pppd` | tgmd's main thread beside a data connection | `TgmdProofs` |

### TgmEvent: the event loop

The dispatch thread's position in `eventLoop` and `tgm_event_loop` is `loop`; one
action is one step between points at which another thread may intervene: copying
`readFds`, computing the timeout, entering `select`, its return, `processTimeouts`,
`processReadReadies`, each callback of `firePending`, and the second half of
`processCommandsCallback`. `RegisterInsert`/`RegisterNfds` split `tgm_event_add` by
another thread, because the loop reads `readFds` and `nfds` without `listMutex`.
Other threads add timers (`AddTimer`) and then write to the pipe (`Trigger`). The
clients and the clock are external.

A timer stands for its `UserCallbackInfo` record; `Timers` bounds how many are
allocated at once. The doubly linked lists are sequences. The content of a command
is not modelled, only that there is data or the end of the stream.

`TimerService` is what those who ask for a timed callback may rely on: each is called
once, after its time, and none before one that is due earlier. `TgmEvent` implements
it under the mapping `Service`: a timer waits from the moment it is in `timer_list`
until `firePending` takes it off `pending_list`, so the move from one list to the
other (`ProcessTimeouts`) cannot be seen, nor can anything that concerns descriptors.

### WakeLock

`TGM_onUnsolicitedResponse` takes the wake lock, sends, cancels the timer of the
notification before it and starts its own, on any thread; `userTimerCallback` fires
timers on the dispatch thread. Each load and store of `s_last_wake_timeout_info` and
of the record it points to is a step of its own (`LoadLast`, `Mark`, `StartTimer`,
`StoreLast`; `Fire`, `WakeTimeoutCallback`, `FreeInfo`). Records live at `Addresses`,
which `malloc` gives out again, so that a stale pointer may mark a freed record or
another timer's; a freed record keeps its content. `overlap` is a history variable:
a notification has overlapped with another or with the firing of a timer. The
pointer is taken to be loaded once for test and use.

### Requests and RequestService

`Requests` follows the dispatch thread from `accept` to the two writes of a response
and mainLoop and the readers through `setRadioState` and their notifications. What a
thread has still to do is `todo`, a sequence of tasks: the completions of a handler
and the states it sets, in the code's order (`Handlers`), among them the paths that
complete no token and the one that completes it twice. An answer may be larger than
`MAX_COMMAND_BYTES` (`large`, for the requests answered with a line of the modem):
`sendResponseRaw` drops it, with its request off the list (`oversized`). Where a thread
is in sending is `pc`: `sendResponseRaw` reads `s_fdCommand`, then locks `s_writeMutex`, then writes
header and body. Descriptors are reused: `files` says what each is at the moment,
lowest first, the modem among them, and a response may be written to a stale one.
A write to a closed descriptor or to a client that has gone or does not read ends
the daemon (`WriteFails`), as `blockingWrite` does.

`RequestService` is what a client may rely on: one client at a time, its requests
served one after the other, each answered at most once, to it, and before the next
is looked at. `Requests` implements it under the mapping `Service`: `client` is what
`s_fdCommand` points to, `serving` the request in `processCommandBuffer`, and
`sent` what was written on each connection, in order: the answer to a request, or
`Other` for headers and notifications (`Tell`).

### ATChannel: the AT command channel

`ATChannel` models `atchannel.c` with the ends of it in `huawei-tgm.c`
(`onATReaderClosed`, the reopening by mainLoop). Between two points at which
`s_commandmutex` may change hands everything is one action: `SendCommand` up to the
wait, `ResumeCommand` from it. `at_handshake` keeps the mutex from its first command
to its end except in the waits, so `s_commandmutex` names it while it sleeps. What
`at_open` and `at_close` do without the mutex are actions that do not wait for it.

A line is a record: its kind, and the id of the command it answers, which only the
properties look at. The type `ANYLINE` stands for a single line with the empty prefix,
as AT+CGMI and AT+CGMM have it, which an unsolicited line has too. `clean` is a history
variable: the command in progress was sent to a silent channel (the modem owed nothing,
no part of an answer was on its way, one reader at most was at work), and no final line
came unasked since. `s_type` and `s_responsePrefix` are kept with the pending
response. A line is read in one step; how it comes out of the buffer is `Readline`.
Five flags name what the environment or the code leaves open: `USE_NP` (which timed
wait is compiled), `EagerReopen` (whether mainLoop may reopen before a woken command
has run), `Redial` (whether a dial is followed by reopening without `at_close`), the
number of command threads, and `HANDSHAKE_RETRY_COUNT`.

The timeout of an ordinary command ends the program: `onATTimeout` calls `exit(1)`.

### Readline

The buffer, byte by byte, with what is stale behind the terminating zero, the cursor
and the place of the next read. `CallEmpty` and `CallWithData` are the two ways into
`readline`, `ReadChunk` any `read` of any length, `ReadFails` the end of a session.
`Lines` says independently what the lines of the stream are, and `Fits` which of them
have room in the buffer: the newlines before a line count, among them the one that ends
the line before, unless that line was returned. `behind` says that a prompt has taken
the cursor past the terminating zero, and that nothing was read since.

### ATTok and Answers

`ATTok` has the functions of `at_tok.c` on a cursor (what is left of the line, or
NULL) and, beside them, what the fields of a line are: `Modes` tells for each
character where one is in its field, `EndOf` is the first comma outside quotes, and
`Text` the characters that are neither spaces before nor quotes nor behind them.
`Answers` has the requests that ask the modem something, with the channel's answer as
input and the completions as result; `right` is what the request should have been
answered, by these fields. What the modem may answer is a constant for each command,
which `MCAnswers` gives its values. `cached` are the strings that answer requests while
pppd has the modem; `latest` is what the modem named last. Only memory that the
daemon owns is among them: the manufacturer, the model and the operator's first name.
`cachedCarrier[1]` and `[2]` point behind the array of three pointers, a string of
`CacheSize` characters has its zero behind its buffer, and a fourth name goes behind
`response`: each such use may leave `state` `UNDEFINED`, after which nothing is said, and
`beyond` remembers, by the fields of the lines, that one was due. `CRASHED` is the
NULL pointer of `+CME ERROR: 0`. `AT+COPS` is walked
line by line (`WalkOperator`), since a later line may fail the request when the
caches of earlier ones have changed.

### Pppd: the data connection

`Pppd` models `mainLoop`, `checkPPPConnection`, `waitForPPPDTerminated`,
`setRadioState` and what calls it, on four kinds of threads. mainLoop's position is
`main`; each test of `pppd_process_id`, which other threads write, is an action of
its own. `s_pppd_mutex` behaves as the code uses it: `pthread_cond_wait` unlocks it
though mainLoop has not locked it, returns with it locked, and mainLoop keeps it until
its next wait. `setRadioState` is one action, since it runs under `s_state_mutex`;
what it does after unlocking (`onRadioPowerOn`, `onSIMReady`) is a later step of the
thread: `pollSIMState` and `SimSets` on the dispatch thread, `ReaderTestsAgain` and
`ReaderPolls` on a reader, which comes to them only when it finds a state that the next
session has set meanwhile (`ReadersPoll`). `channelOpen` says whether an AT command can
succeed: from the opening of a session until a reader's `at_close`, whichever session's
reader that is. `isRadioOn`, the SIM's answers and a dial need it. Each AT
reader keeps its position in `onATReaderClosed`, so an old one may act on a new session. A pppd is named by its dial, which is also its process number.
`notes` remembers what clients were told of each dial.

Folded: the AT commands of `initializeCallback` and `getSIMStatus` are the choice of
their outcome; several pending callbacks of one kind count as one; `fd` and the
device are the choice between `Reopen` and `OpenFails`.

### Tgmd

tgmd's main thread beside `Pppd`: it takes uevents, forks `usb_modeswitch` and waits
for any child, which may be the pppd that the waiter waits for as well. A child that
cannot execute `usb_modeswitch` runs on as a second tgmd on the same socket
(`DaemonTakes`). Start-up is the initial state.

## What is checked

| run | shows | bounds |
| --- | --- | --- |
| `event_loop` | no lost wakeup, timer order, table consistency, one connection, live loop; `TimerService` implemented; timers fire, clients are accepted and read | two threads, two timers, delays 0 and 1, three slots, clock to 2 |
| `at_sessions` | no lost signal, own answers, channels served, with the second session opened at once or by a dial beside the old reader | one thread, absolute timed waits, two sessions, two commands of two types (the empty prefix, several lines), one information line, one unsolicited line |
| `at_live` | commands, handshakes and sessions end; commands after a handshake that timed out and came back in step have their own answers | one session, four commands, two attempts |
| `at_reopen` | the first disagreement below | one thread, two sessions, one command |
| `pppd_safe` | the modem's owner, one outcome, no missed close | two dials, two sessions, limit 2, four requests, forks that may fail |
| `pppd_live` | deaths are noticed, polling ends, failed pppds go | two dials and sessions, limit 2, DIAL and DISCONNECT |
| `pppd_lostwakeup` | the second disagreement below | one dial |
| `requests_serve` | framing, newest state told last but for an overtaken greeting, changes in order, every request accounted for, `RequestService` implemented, the dispatch thread returns | two clients, two requests of seven kinds, answers of both sizes, one notification, two descriptors |
| `wakelock_notify` | the wake lock is not leaked, is held for the newest notification, and is released | three threads, three notifications, one other timer, four addresses |
| `readline_chunks` | the cursor is in the data but after a prompt; the lines returned are those of the stream | buffer of three, streams of eight bytes of four kinds, every chunking |
| `answers_parse` | answers are what the lines say, one answer crashes, caches are what was read last, and nothing is written behind a buffer but where said | lines of up to three fields in seven forms, four lines to AT+COPS, caches of three characters |
| `tgmd_reap` | the end of pppd is noticed and uevents handled although each may reap the other's child | one dial, three uevents |

Every property of these runs has a mutant in `PROJECT.json`: a change of one
definition as a plausible bug would make it, which the run detects. `TypeOK` is
checked where it says more than types (`WakeLock`: what the list points to is
allocated); in the other modules it documents the variables and carries the proofs.

The bounds are enough for the cases at issue: two timers for an order, two threads
and the loop for every overtaking, three slots for all three events (that a full
table drops an event is in the model, and the proofs cover every number of slots);
descriptors 2 to 4 are chosen so that a command socket lies above the others and
`nfds` is recomputed. Two sessions let an old reader, waiter or answer meet a new
one, and two dials let mainLoop hold `s_pppd_mutex` from the first wait through the
second dial, which nothing in one dial shows. Two clients and two descriptors let a
response that was begun for the first be written to the modem or to the second. The
four addresses let three wake timers and another one be allocated at once, and with
three notifications a stale pointer can outlive its record, see it given to another
timer and mark it. A buffer of three is filled exactly, overrun and emptied in the
middle of a line by streams of eight, also by a line that comes after the end of one
that was ditched, and the prompt ends anywhere in it. Counters
(`MaxCommands`, `MaxDials`, `MaxSessions`, `MaxTime`, `MaxNotices`, ...) bound how
often, never in what order. `CHECK_DEADLOCK FALSE` is set where the program may
really stop (the bounded environment has nothing left to do, or it has exited).

### Fairness

- TgmEvent: each step of the loop and of a thread that has begun an operation is
  weakly fair, because threads are scheduled; time passes; strongly fair are
  `SelectReturns`, since signals do not interrupt every `select`, and
  `FireListenAccept`, since `accept` does not fail every time. No client must do
  anything.
- WakeLock: a thread goes on with its notification, and a timer in the list fires.
- Requests: a thread goes on with what it does; strongly fair are the dispatch
  thread's two locks, which others take and give back again and again. Nothing new
  need begin. A write may always fail instead, which ends the daemon.
- ATChannel: threads run and timed waits expire; strongly fair is what has to win the
  mutex or runs between spurious wakeups. No answer need ever come.
- Pppd: every thread runs on; `PppdEnds` is fair only after SIGTERM; the device need
  never be found. `WaiterLocks` is strongly fair: a waiter competes for `s_pppd_mutex`
  with mainLoop, which spurious wakeups may let through again and again.
- Tgmd: in addition the main thread runs on and `usb_modeswitch` ends.

### Disagreements between code and comments

`at_reopen` (`expect: violation`): `at_open` (`atchannel.c:636`) sets `sp_response` to
NULL without `s_commandmutex`, which the comment at 81-84 says protects it. A command
woken by the end of the session finds NULL when it runs only after the next `at_open`,
and `at_send_command_full_nolock` dereferences it (783). The counterexample is eleven
states of one session's end and the next one's beginning.

`pppd_lostwakeup` (`expect: violation`): mainLoop tests `pppd_process_id` without the
mutex and then waits, so that it waits for ever for a pppd that has ended in between;
the counterexample is the shortest schedule, over a session that was opened.

Three more comments differ from the code where a run does not end with a violation,
because the property beside them states what the code does: that the cursor is never
past `p_read` (`atchannel.c:446`; `CursorInData` names the prompt), that `getSIMStatus`
returns SIM_NOT_READY on error (`huawei-tgm.c:1511`; `AnsweredRight` names the crash), and
that the pause of `at_handshake` lets stray OKs drain (`atchannel.c:1021`): it keeps
`s_commandmutex`, without which no line is sorted, so they are still to come when the
next command is sent, which `clean` names.

Other things the code does that a reader may not expect, all of them in the models:

- A handshake that timed out may have its OK taken for the answer of the next command;
  and the errors of its attempts add up, so an answered retry does not help.
- pppd may end between the two tests of its process id in one round of polling: the
  dial then ends with no notification at all (`Outcome` is about two).
- DISCONNECT after a dial and before its fork signals process 0, tgmd's own group.
- A token may stay pending for ever (DIAL and DISCONNECT in the wrong state,
  SET_PPPD_AUTH, requests unknown to the vendor); `PendingAccounted` names these as
  pending, not lost.
- A line that has room in the buffer may be ditched if the line before it was: the
  newline that ends that one is then stored first, and skipped, but `p_read` goes on
  counting it (`Fits` has the exact condition).
- A dial may be acknowledged and never made, when mainLoop reopens the device between
  `s_closed` and the state that DIAL sets.
- An answer larger than `MAX_COMMAND_BYTES` is dropped when its request is off the list
  (`tgm.cpp:1296`), so its client waits for ever (`oversized` in `PendingAccounted`).
- The state that a client is told on connecting may be read before a change and
  written after the change was told (`tgm.cpp:1234`): the client then has the old one
  last, until the next change. `ToldNewest` allows this way to a stale state only.
- tgmd's main thread may reap pppd in place of `usb_modeswitch` and go on as if that
  had ended; a second `usb_modeswitch` may then run beside the first.

### Where the checked properties stop holding

Some properties are checked under a condition that the code meets nearly always but
does not guarantee. The constants reproduce most of the exceptions:

- `NoCrash` with a second command thread (`CmdThreads = {dispatch, mainLoop}`) too: the
  second command frees the response the first one waits for. mainLoop sends commands
  only in `onSIMReady`, which it reaches through the race that the FIXME at
  `huawei-tgm.c:917` mentions. No run claims `NoCrash`.
- With `Redial = TRUE`, as in `at_sessions`, the device is opened again after a dial while
  the old reader still reads it: a descriptor is opened over another, and two readers
  may share the modem's lines. `InSync` is about commands sent while one reader is at
  work; nothing is claimed of descriptors.
- `InSync` is silent about a command sent while the answer to an earlier one is out
  (not `clean`). Such a command takes that answer for its own.
- `HandshakeReturns` with `USE_NP = FALSE`: `tv_nsec` may leave its range
  (`atchannel.c:113`), and the wait then fails at once, again and again, with the
  mutex held.
- `HandedOver` after a failed `fork`: the waiter of the child that never was finds no
  process to wait for, and when it is late it resets `pppd_process_id` under the next
  pppd, which mainLoop then abandons. The property says `~ForkFailed`.
- `HeldUntilNewest` once two notifications, or one and the firing of a timer, overlap:
  a timer that was not cancelled may release the lock while another thread sends.
  `NotLeaked` and `WakeReleased` hold all the same.
- `Framed` allows a connection to begin with a body: a descriptor that is closed and
  accepted again between the two writes. A notification that was begun for one client
  may reach the next one, or the modem.
- `Faithful` until a `"> "` prompt: `readline` leaves its cursor behind the
  terminating zero of it, where stale bytes follow.
- `AnsweredRight` and `CachesLatest` until the state is `UNDEFINED`, to which
  `StaysDefined` names the ways: a string of just 128 characters is cached, or told
  before one was; the operator's answer names it in its second or third line, or has a
  third or fourth valid line; the operator is asked for while pppd has the modem.
- `UeventsHandled` but for two cases: `usb_modeswitch` could not be executed, so that
  a second tgmd takes uevents and the first waits for it; or `fork` failed and the
  wait lasts as long as a pppd.

Polling (`checkPPPConnection`) counts a round twice when operstate is empty, so the
limit of 20 may be reached in fewer than 20 seconds; the code states no duration.

## What is proved

For all values of the constants that satisfy the named assumptions of each module
(thread names are not the reserved ones, descriptors are distinct, bounds are
numbers). The proofs are about `Spec`; fairness only restricts it further.

`TgmEventProofs`:

- `TypeOK` (`TypeCorrect`), inductive by itself;
- `DueOrder` (`TimersFireInOrder`), from lemmas on where `InsertTimer` puts a timer
  (`Ordered...`) and on the timers that `ProcessTimeouts` moves;
- `TableConsistent` and `LoopAlive` (`TableStaysConsistent`, `LoopStaysAlive`), from
  `StructInv`: it adds who holds the lock at which point, that an event is in at most
  one slot and that its descriptor is what `readFds` says, and bounds `nfds` from
  above and below at every place of the loop. Without it, that `select` is not given
  a closed descriptor is not inductive, since the descriptor is closed by a callback
  one step before the event is deleted;
- `OneConnection` (`OneConnectionHolds`), for two slots or more, from `ArmedInv`,
  which says in which list the listening and the command event are at each place;
- `NoLostWakeup` (`NoWakeupIsLost`), for two slots or more, by one case per action:
  whatever adds an event or a timer owes a byte or finds the loop before its copy;
- `TimersServed` (`TimerServiceImplemented`), from `TypeOK` and `DueOrder`: adding a
  timer is `Request` (`NewTimerRequested`), firing one is `Call`, which may request
  the next (`FireTimerCalls`, `FireSocketServes`), the clock is `Tick`, and the rest is
  a stutter. What the list operations do to the set of waiting timers are lemmas
  (`ToSetInsertAt`, `ToSetCut`, `ToSetFiring`); that the head of `pending_list` is due
  before every timer in either list is `FiredIsEarliest`, from `DueOrder`.

With one slot `OneConnection` and `NoLostWakeup` do not hold, because
`tgm_event_add` drops what finds no room; `MAX_FD_EVENTS` is 8.

`WakeLockProofs`:

- `TypeOK` (`TypeCorrect`), from `MemInv`: a record is in the list once
  (`TimersDistinct`), and the one being fired is allocated and out of the list
  (`FiringApart`). Only so does freeing it leave every record in the list allocated;
- `NotLeaked` (`WakeLockNotLeaked`), inductive given `MemInv`: a thread that holds the
  lock is on its way to starting a timer, a started timer is unmarked, and the timer
  that leaves the list goes on as the one being fired;
- `HeldUntilNewest` (`WakeLockHeld`), from `Alone` (before the first overlap one
  thread acts at a time, and none while a timer is fired) and `HeldInv`, which follows
  the one live timer from the record that `StartTimer` takes to the pointer and to the
  mark.

`RequestsProofs`:

- `Framed` (`ResponsesFramed`), from `FrameInv`: who writes holds `s_writeMutex`
  (`Exclusive`); a connection has one descriptor and carries nothing before `accept`
  (`Connected`); when the last thing on an open connection is a header, the thread
  that wrote it is about to write its body there (`HalfWritten`); and a body is
  written behind its header or first of all (`HeaderFirst`). `Framed` alone is not
  inductive: nothing in it keeps two threads from writing headers in turn, or a
  descriptor from changing hands between a header and its body;
- `PendingAccounted` (`RequestsAccounted`), from `ServeInv`. Its first half,
  `ThreadInv`, ties each thread to its place: what it may have to do (`TodoInv`), that
  only `s_fdCommand` is a client's descriptor (`ServedInv`), and that only the dispatch
  thread answers, and only the request it serves (`MsgInv`). Its second half is about
  requests: each is in the list at most once, and cancelled exactly when its client is
  gone (`ListInv`); it is off the list exactly when it has been or is being answered,
  or its answer was too large, and never both (`AnswerInv`). Between the removal from the
  list and the body of the answer it is none of these, which is why the property alone
  is not inductive;
- `ChangesInOrder` (`ChangesToldInOrder`), from `OrderInv`: what a client was told is
  older than the change that the owner of `s_state_mutex` has still to tell;
- `ToldNewest` (`NewestTold`), from `NewestInv`: a connected client has been told the
  present state, with nothing behind it but what it was told on connecting, or some
  thread is on its way to tell it, or the dispatch thread has yet to begin. A notifier
  that read the state before it changed is not on its way;
- the refinement (`ServiceImplemented`): `Accept` is `Connect`, receiving a request is
  `Receive`, the body of an answer is `Answer`, what else is written to a client is
  `Tell`, the end of a request is `Done`, `CloseCommand` is `Leave`, a failed write is
  `GoDown`; what is written to a reused descriptor of the modem, and all the rest, is
  a stutter. That an answer is made once and to the client of its request is
  `ServeInv`.

`PppdProofs`, from one inductive invariant, `PppdInv`:

- `Outcome` (`OutcomeHolds`), with `NotesInv`: what clients were told of the present
  dial, by the place of mainLoop, and `PlacesInv`: mainLoop polls and connects only
  below the limit of failures;
- `CloseNotMissed` (`CloseIsNotMissed`), with `ClosedInv`: in the branch of pppd the
  channel is closed and nobody dials, and when the state is handed over with the
  channel open, an `initializeCallback` is on its way that ends the wait;
- `HandedOver` (`HandedOverHolds`), with `WaitersInv`: each dial's process, its waiter
  and `pppd_process_id` agree. It holds until a `fork` fails, and is proved under that
  condition, as the property states it. Who reaps a pppd is left open in it, for the
  sake of `TgmdProofs`.

`TgmdProofs`, for tgmd as a whole, from `TgmdInv`, which is `PppdInv`, the types and a
count of the uevents:

- `TypeOK` and the types of the main thread (`TgmdTypeCorrect`), `HandedOver`
  (`TgmdHandsOver`), `Outcome` (`TgmdOutcome`) and `CloseNotMissed`
  (`TgmdCloseNotMissed`) for `TgmdSpec`, however many uevents come and whether
  `usb_modeswitch` can be executed or not, if the forks of pppd do not fail
  (`ForksAssumption`: the waiter of one that did would wait for any child too). The main thread
  touches a data connection in one way: its `wait` may reap the pppd first (`ReapingKeepsPppd`). The waiter then
  finds no child and reports the end all the same. The invariant of `Pppd` had to be
  weakened for this: it said that a process that is reaped has been seen by its waiter.

`ATChannelProofs`, with immediate reopening, redialling and absolute timed waits all
allowed; two theorems have it as a hypothesis that one thread sends commands:

- `TypeOK` (`TypeCorrect`) and `ChannelServed` (`ChannelIsServed`), for any number of
  command threads;
- `NoLostSignal` (`NoSignalIsLost`), for one command thread, inductive given the types:
  one signal wakes one waiter, which is enough for one only;
- `InSync` (`AnswersInSync`), for one command thread, from `WaitInv` (a pending response
  has the id and type of the command in progress, if at_open has not taken it) and
  `StreamInv`: as long as the command in progress is `clean`, one reader at most is at
  work, and what is on its way to it and what the modem still owes fit the pending
  response (`Fits`). With k information lines taken, lines k + 1 to m are to come in
  order and without a gap, among unsolicited ones, and then the final one; the m-th line
  and the final one have been sent or are owed. With the empty prefix the line taken may
  be one that came unasked. Once the final response is in nothing that answers anything
  is to come. `StreamInv` also says that the two lines of an SMS stay together
  (`Paired`), since the reader would take an answer for the second one. Lines of any
  number are followed through the sequence by lemmas on `Answering`, one for each end:
  `AnsweringInfo`, `AnsweringFinal` for what the modem sends, `InfoFirst`, `FinalFirst`,
  `UnaskedFirst` for what the reader sorts. That a timeout, a dial or a new session
  breaks nothing is because each takes the pending response, or leaves it to
  the one reader there is, while the next command is clean only when all is quiet.

`ReadlineProofs`, for a buffer of any size, any stream and any division into chunks:

- `CursorInData` (`CursorTracked`), from the types and `Tracked`: unless the cursor is
  behind the data, the buffer holds from the cursor to its zero the end of some stream. It
  needs that the last byte is always a zero, so that every search ends
  (`FirstFound`, `Scanned`), and that only a prompt whose end is the zero at `p_read`
  takes the cursor behind it, from where a call that finds stale bytes leaves it
  and one that reads brings it back;
- `Faithful` (`LinesFaithful`), from `Served`: from the cursor on the buffer holds the
  last bytes of the stream (`Holds`), and the stream is `Dealt` with up to the cursor:
  the lines returned are in it, those that fit and are in it are returned, and if the
  cursor is within a line, that line is too long already. While a chunk is read there
  is no newline behind the cursor, and only newlines before it (`Partial`). The proof
  is about streams: the place up to which all is dealt with moves over newlines
  (`NewlinesSkipped`), a line (`LineReturned`) or what is ditched (`LineDitched`), and
  stays when the stream goes on (`StreamGoesOn`); each action is one or two of these.

The proof found the condition of `Fits`: as first stated, without the newline that
ends a ditched line, the property held for a buffer of four and streams of eight
bytes, and fails with nine. The run now has a buffer in which the case occurs.

`AnswersProofs`, for whatever lines and errors the modem answers and caches of any
size:

- `AnsweredRight` (`AlwaysAnsweredRight`). The work is in the tokenizer. `AtField` says
  that a cursor is at the beginning of the field behind a comma, or that there is no
  such field; `Reads` that a token is the text of that field and leaves the cursor at
  the next. `ReadsPlain` and `ReadsQuoted` prove it for `nextTok` over a line of any
  length: a search finds the first comma or quote (`StrsepFacts`, `CommaFacts`), and
  between two places that a search finds the mode does not change (`ModeStays`). Then
  `NextInt`, `NextStr` and `HasMore` say what the four functions of `at_tok.c` return,
  and each request is one to three of them (`SignalRight`, `WalkRight`, `RadioRight`,
  `CmeErrorRight`, `SimRight`).
  `CrashRight` says that the error 0 is the one that crashes;
- `CachesLatest` (`AlwaysCachesLatest`), from an invariant that has to add only that
  `response` holds the names that are in the lines walked (`Walks`);
- `StaysDefined` (`AlwaysStaysDefined`): by the tokenizer's lemmas, what an action
  writes is what the fields of the line say, so that each use of memory that is not the
  daemon's is one that was due (`GoesInv`).

Induction over the length of a line is by the least counterexample (`LeastOf`), also for
the recursive function `Modes` to be one (`ModesFacts`).

Only model-checked: everything temporal, in all modules (liveness under fairness is out
of the prover's reach). What `strtol` makes of the digits at the front of a text
(`Value`) is the same operator on both sides and not looked into.

## What is not modelled

- Marshalling: what the Parcels of requests and responses hold. Requests have their
  kind and whether a block of strings is valid; notifications their type and state.
- What SET_PDP_CONTEXT sends, the files that SET_PPPD_AUTH writes, and
  `requestSetupDefaultPDP`, which looks at the last of its four errors only. Nothing
  that is modelled depends on them.
- What memory that is not the daemon's holds: where `Answers` goes behind a buffer, its
  state may become `UNDEFINED`, and no more is said. That `property_set` is passed the
  array of pointers instead of a string (`huawei-tgm.c:1337`) is not in the model.
- The reuse of process numbers (`huawei-tgm.c:687`), and a pppd child whose `execl`
  failed and which runs a second `mainLoop` (733).
- The functions for sending SMS in `atchannel.c` and `at_tok_nexthexint`, which have
  no caller.
- The public header, which holds types and constants, and the build files.

## Plan

1. `CommandChannel`: what `ATChannel` promises its callers as a specification of its
   own, implemented by a refinement mapping.
2. `Radio`: `Pppd` composed with `ATChannel`'s sessions, so that a dial's outcome and
   the reader's end come from one model.
3. Proofs: the refinement of 1, as `RequestService`'s and `TimerService`'s, and of 2.
