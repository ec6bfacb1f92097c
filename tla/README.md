# pychdk in TLA+

Specifications of pychdk, the library that drives Canon compacts running CHDK
over USB, and of the tool that prepares their SD cards. Paths below are those
of the repository (`src/pychdk/...`, `tools/...`).

## The system

| Component | Keeps | Does | Talks to |
|---|---|---|---|
| `usb_transport.PTPDevice` | endpoints, `_claimed_intf`, `_is_open` | `open` (claim, find endpoints, roll back), `close`, `bulk_write`, `bulk_read` | pyusb |
| `ptp.PTPSession` | `_is_open`, `_transaction_id` | `open`, `close`, `transaction` (command, data, response) | transport |
| `chdk.ChdkPTP` | `_last_capture_chunks` | scripts (`execute_script`, `get_script_status`, `read_script_message`, `wait_for_script`, `drain_messages`, `execute_lua_wait`), remote capture (`remote_capture_is_ready`, `..._get_chunk`, `..._get_data`), files, live view | session |
| `device.ChdkDevice` | `_connected`, the three layers | `switch_mode`, `lua_execute`, `shoot`, `_open`, `reconnect`, `close` | `ChdkPTP`, session, transport |
| `device` module | `_open_devices` (weak set), the original signal handlers | `_cleanup_all`, `_signal_handler`, `install_signal_handlers` | every open device |
| `multicam.MultiCam` | `cameras` | open all or none, pooled `shoot` and `execute_all`, sequential `prepare_all`, `close` | devices, one worker each |
| `util` | nothing | APEX conversions, camera paths, `parse_own_txt`, `format_own_txt` | |
| `tools/flash_chdk.py` | a cached archive, the card | download, pick, salvage OWN.TXT, erase, extract, patch, write OWN.TXT back, eject | diskutil, dd, the operator |
| the camera (external) | one script slot, one message queue, one remote-capture buffer, a lens | runs the scripts | USB |

What is hard in it. The camera runs beside the host: it posts messages, drops
its running flag, fills and drops its capture buffer between any two
transactions, and the host learns of it by polling, one fact a transaction.
Starting a script kills the one before it but does not empty its messages.
Some cameras hold a script until the host takes its picture. A bulk read that
times out does not cancel the answer: it arrives for somebody else. Deadlines
are looked at only at the heads of loops. Opening claims a kernel resource in
several steps that can each raise, and a signal can close a device under the
thread that is using it. A call of a MultiCam is as many calls at once, ending in
any order, and an interrupt must not leave a worker on a camera. The flasher erases a card whose identity then lives
in its memory only. PROJECT.json lists these hazards line by line.

What makes each part correct:

* *scripts*: a return means what this call's script came to, an error is this
  script's own, every call ends, a drain is bounded;
* *streaming*: host and camera never wait on each other, a picture that is
  there is not reported missing, the picture and the chunk count are this
  capture's (the first of these the code does not guarantee, see below);
* *mode switch*: a switch that returns has happened;
* *session*: data and response belong together; the open flag is not up over a
  session that is gone while nothing was lost; how far answers lag once something was;
* *file transfer*: a download is the file it was asked for, as far as the session
  allows;
* *pool*: results in the order of the cameras, the first failure of them raised, no
  worker left behind, switches one after the other;
* *devices*: a claim is recorded or given back, an unregistered device holds
  none, all cameras of a MultiCam or none;
* *flasher*: a card that had an identity has it again after any completed run,
  and no card is erased unread unless it is positively blank.

## Modules

**ChdkCamera** is the camera: external, and only what host code and its
comments rely on (its header quotes where). One script slot (`lastId`, `prog`,
`fate`, `running`), the message queue, the capture buffer (`capture`, `left`,
`owner`), the lens (`mode`, `target`). `fate` and `owner` are known to the
camera alone: properties may look at them, host actions never do (`CapData`
copies `owner` into the history variable `picture`).

**CallPromise** says what one device promises of one call, as operators on a record
`[op, busy, truth, outcome]`: scripts of a call run one at a time, each to its end
(`Launched`, `Concluded`); the call then comes to one outcome of its kind
(`Returns`, `Raises`), honest about the script (`Honest`); and what was told stays
true until the next call. **DeviceCall** makes a state machine of one such record.

**ChdkCalls** extends ChdkCamera with the host: `lua_execute`, `switch_mode`, `shoot`
and `shoot(stream=True)` over `ChdkPTP`. One action is one PTP transaction and
the decisions taken on its answer up to the next one; `pc` names the next
transaction. `get_script_status` is `DrainPoll`, `WaitPoll`, `LuaPoll`,
`CapStatus`; `read_script_message` is `DrainRead`, `WaitRead`, `LuaRead`,
`CapRead`; `execute_script` is `Start`, `StartRefused`;
`remote_capture_is_ready` is `CapReady`; `remote_capture_get_chunk` is
`CapData`, `CapGone`. A poll that finds nothing sleeps and polls again: nothing
changes, so it is a stuttering step. `Expire` leaves a loop by its deadline,
which the code reads at the head of the loop only; `GraceEnds` is
`init_deadline` passing; `TransactionFails` is an exception out of the
transport, before or after the camera acted on the command. `Abstract` is the
record of DeviceCall that a state stands for, and `ImplementsCall` the refinement:
the drains, polls and messages of the code are stuttering steps of that one call.

**MultiCamPool** is `MultiCam.shoot`, `execute_all` and `prepare_all`, with the
calls of the cameras given by CallPromise, so that what ChdkCalls implements is
what the pool is built on. `pc` is where the caller is (`submit`, `await`,
`join` for the end of the `with` block, `switch`); `jobs`, `running` and
`future` are the executor's, which is external. A signal's handler runs on the
caller's thread and closes every camera under its worker; the handler before it
returns (`Signal`) or raises KeyboardInterrupt there (`KeyboardInterrupt`). A call
on a closed camera comes to anything of its kind.

**CaptureFile** says what a download promises: a file with a write position, to
which each chunk is written that the camera gives (`given`: its bytes, where to seek,
whether it is the last), and which is complete with the last one. The file chooses
nothing: bytes and seek of a `Write` are those given in the same step.
**RemoteCapture** is `remote_capture_get_data` with `remote_capture_get_chunk`:
the byte array, the cursor, parameters that may be missing, claim another size
or mean -1. The camera's answer (`CameraAnswers`) has the first so many of its
fields; `Params` is what arrives of them, unsigned, and `Meant` the chunk they stand
for, kept in the history variable `given`. The host works on `Params` only.
ChdkCalls sees a chunk as one step of the protocol; RemoteCapture is about the bytes.
**MCRemoteCapture** names data phases for TLC.

**PTPSession** is `ptp.py` with the two pipes as one sequence of containers.
The camera answers each command once and in order; a `ReadTimeout` leaves its
answer on the wire. Containers carry the command they answer (`from`), which
the host never reads: `transaction` compares no id. Nor does it look at the open
flag, so `Call` has no guard but its bound, and `Open` none at all; only `Close`
returns early. The reads for a response are of 512 bytes and may leave the rest of a
data container behind (`TakePart`). Payload read where a container should come is
too short or of no known type (`Garbled`), or its bytes happen to be those of a
header: `Misread` then takes it for data of any length or a response of any code, and
the history variable `misread` remembers it, because from then on what a call returns is
no command's answer.

**FileTransfers** extends it with the calls that move bytes: `upload_file` (to the
session `write_script_message` and `get_version` are the same), `download_file`,
two transactions of which the first leaves the path in the camera's `temp` for the
second, and `get_display_data`, which `get_frames` repeats. `asked` remembers what
each command on the wire was for. **MCFileTransfers** gives the symmetry of paths.

**DeviceClaims** is who holds which interface. Its host thread runs
`MultiCam.__init__` with its rollback, `ChdkDevice.reconnect` and
`MultiCam.close` over `ChdkDevice._open` and `PTPDevice.open` and `close`, one
action a statement that changes state; `frame` is the function it is in, `op`
what the caller asked for. `Forget` to `Dispose` are the statements of closing a
device, taken by the host and by the signal handler, which works through a
snapshot of the registry. `sameThread` decides at the start whether the
handler interrupts the host between two statements (and may raise
KeyboardInterrupt there: `HandlerRaises`, `Interrupt`) or runs beside it. The history
variable `raised` says that it has raised: `NothingOrphaned` and
`FailedOpenLeavesNothing` speak of what happens before that, since such an exception
between the claim and its record does lose the claim (MCInterruptedOpen).

**SignalHandlers** is `install_signal_handlers` and the way a signal takes
through our handler and those a host sets before, between and after the
installations: `slot` is what `signal.getsignal` answers, `original` the saved
one, `passes` whom each handler of the host hands the signal to.

**CardLayout** holds the judgement of a card as operators
(`_classify_layout`, `_entry_is_recognizably_blank`, `_layout_is_inspectable`,
over what `diskutil list -plist` may say); **FlashCard** runs `main` of
`tools/flash_chdk.py` over and over on one card, every step able to fail,
with the card and the download cache kept between runs. **MCFlashCard** builds
the layouts for TLC.

**OwnTxt** is `parse_own_txt`, an action a line, and `format_own_txt`.

**ChdkCallsProofs**, **SessionProofs** (about PTPSession and FileTransfers),
**RemoteCaptureProofs**, **MultiCamPoolProofs**, **DeviceClaimsProofs**,
**SignalHandlersProofs**, **FlashCardProofs** and **OwnTxtProofs** hold the theorems.

Operators named `Slip...` stand before a definition and are a plausible slip in
it (a dropped guard, a swapped order, a missing `continue`); with the slip in
its place the property named for it in PROJECT.json fails.

## Runs

| Config | Module | Checks | Bounds |
|---|---|---|---|
| MCScripts | ChdkCalls | `TypeOK`, `ReturnMeansSuccess`, `ModeConfirmed`, `ImplementsCall` (refinement of DeviceCall): Lua calls, submissions, card shots and switches in any order | 5 scripts, 2 user messages against a drain of 1, 2 polls a switch, 1 failed transaction |
| MCStreams | ChdkCalls | `OwnWords`, `PictureNotAbandoned`, `StalePictureOnlyAfterFailure`, `ChunkCountIsThisCalls`, and under `PollSpec` `CallsEnd`, `PipelineServiced`: streaming shots among Lua calls and switches | 3 scripts, pictures of 3 chunks against a limit of 2, 1 failed transaction |
| MCFreshPicture | ChdkCalls | `FreshPicture` is violated | 2 scripts, no failed transaction |
| MCTransfers | MCFileTransfers | `TypeOK`, `TransfersTypeOK`, `AnswerLag`, `DataAndResponseTogether`, `OpenFlagHonest`, `WrongFileTakesTwoLosses` | 4 commands between resets, ids to 4, data phases of up to 2 reads, 2 paths |
| MCPool | MultiCamPool | `TypeOK`, `ListIsTheCameras`, `FirstFailureIsRaised`, `NobodyLeftRunning`, `OneSwitchAtATime`, and under `FairSpec` `EveryCameraStarts`, `RoundsEnd` | 2 cameras, 2 rounds, 2 signals |
| MCCapture | MCRemoteCapture | `TypeOK`, `AssemblesTheFile` (refinement of CaptureFile), `DownloadEnds` under `FairSpec` | 3 chunks, parameters 6 values wide, sizes 0, 1, 3 claimed for data phases of 0 to 2 bytes |
| MCDevices | DeviceClaims | `TypeOK`, `ConnectedIsUsable`, `NothingOrphaned`, `FailedOpenLeavesNothing` | 2 cameras, 2 signals, handler on top of the host or beside it |
| MCInterruptedOpen | DeviceClaims | `OpenClaimsOrNothing` is violated | 2 cameras, 1 signal |
| MCHandlers | SignalHandlers | `TypeOK`, `HostGetsItsSignal` | SIGINT and SIGTERM, 2 handlers of the host |
| MCInstallTwice | SignalHandlers | `InstallingTwiceIsHarmless` is violated | the same |
| MCFlash | MCFlashCard | `TypeOK`, `DoneKeepsIdentity`, `ErasesOnlyWhatItRead` | 2 runs, layouts of up to 2 entries with up to 2 volumes |
| MCOwnTxt | OwnTxt | `TypeOK`, `FirstOfEach`, `RoundTrip` | every file of up to 4 lines over 2 parities, 2 ids, a malformed id, noise and blanks |

Why the bounds are enough:

* Scripts disturb each other through what the last one left (messages, a
  picture, a moving lens). Five scripts make three switches of one poll, or a
  switch that fails, one that polls twice, and calls around them; three
  streaming calls are one that leaves a picture, one that finds it and one
  after. Limits (drain, chunks, polls) are small and always exceeded by what the
  camera may offer, since the cases are below, at and above a limit, not its size.
* `HoldsPipeline = FALSE` in MCScripts and MCStreams includes the camera that holds the
  script for its picture: holding only takes steps away.
* An answer that is late stays late: four commands show one lost read, two, and
  what follows; a reset begins the count again. A data phase is none, one read, or one
  with a continuation that may be left unread. Every transaction of MCTransfers is one of
  PTPSession, whose properties are checked in the same run. The download of a wrong
  file, which takes two abandoned calls, occurs within the four, and so does payload
  that is taken for a container.
* With two cameras one can fail early, or first in time and second in order, or
  be closed while the other is under way; a second round meets what the first
  left behind, a pool whose caller was interrupted included. Two signals make one
  strike while the first still has the caller waiting for its workers.
* A 32-bit parameter matters by its sign and by whether the position it names
  is inside the image, at its end or beyond: 6 values give each of them.
* Cameras of a MultiCam do not touch each other's claims; two of them make the
  constructor's rollback real. Two signals make a second one strike the
  cleanup of the first.
* A volume of a layout is first or not, with a filesystem or not, or not a
  dictionary at all; the verdict looks for the first one that settles it, so two
  volumes and two entries show every order.
* A file of four lines has a parity and an id with something in front of each.

Deadlock is checked everywhere except where the system does stop: MultiCamPool
(the host need not call again; its rounds are bounded), SignalHandlers (the default handler ends the process; the count of our own
runs is bounded), FlashCard (the operator stops) and OwnTxt (the file is
read). In ChdkCalls, `ScriptsUsedUp` stands for the bound on scripts.

## Fairness

* `PollSpec` of ChdkCalls: weak fairness of the host's transactions together.
  Each loop sleeps a fixed time and asks again, and every bulk transfer has a
  timeout. Nothing is assumed of the camera: it may fall silent in any state,
  keep its flag up and its queue full. This alone is enough for
  `PipelineServiced`, which would be false if it took a deadline to come for
  the picture.
* `CallsEnd` adds strong fairness of `Expire` as its premise: monotonic time
  advances, so a loop whose head is reached for ever finds its deadline passed.
  It has to be strong, since between two heads the host is inside a transaction.
  Drains and downloads have no deadline and end by their counts.
* `FairSpec` of RemoteCapture: weak fairness of the next transaction of the
  loop, which brings a chunk or fails. The camera need not clear "more".
* `FairSpec` of MultiCamPool: weak fairness of the caller's steps and of workers
  taking and handing in jobs; they are threads of the operating system. Nothing
  is assumed of the cameras' calls: `EveryCameraStarts` holds though none ever
  ends. `RoundsEnd` has as its premise that each does, which is what `CallsEnd`
  shows of ChdkCalls.

## Proofs

Proved for every value of the constants, under the named assumptions of the
modules only (the bounds are naturals, the sets are what they are said to be), and
three of DeviceClaims for a rig whose workers do not reconnect:

* `ChdkCallsProofs`: `TypeCorrect`, `ReturnsAreTrue`, `ErrorsAreTrue`. The
  properties are not inductive: a loop that leaves on "not running and no
  messages" has to know that it has not overlooked one. `IInv` has two halves.
  `CamInv`: every final message in the queue tells the fate of the script it
  is from, and only the last script is alive. `HostInv`: while a call follows its
  script, that script is in the slot, and the final message the loop must not miss
  (`MustHear`: errors; for a Lua call values too; for a stream `false` too) is
  still queued once the fate is sealed (`Untold`). `Kept` is what a camera step
  never takes from the host. From an empty queue and a dropped flag
  `SealedFate` then concludes that there was no such message.
* `ChdkCallsProofs`, second part: `SwitchesHaveHappened`, `ChunksAreThisCalls`,
  `NoPictureAbandoned`, `StaleOnlyAfterFailure`, and `CallsAreImplemented`, the
  refinement of DeviceCall. On top of `IInv`: `Where` and `Fresh` say which calls
  can be at which point of the program and that none launches a script over one it
  has still to wait for; `LensInv` how far the lens has followed the switch being
  confirmed; `BufferInv` and `OwnPicture` whose picture the capture buffer holds;
  `NotMissed` that between the readiness poll and the status poll no picture is
  overlooked. `Effects` sums up the camera's steps in four cases.
* `SessionProofs`: `TypeCorrect`, `LagIsAbandoned`, `DataWithItsResponse`,
  `FlagIsHonest`.
  The invariant describes the wire: answers stand in it in the order of their
  commands, none missing, each data phase in one piece before its response (`Chain`,
  which holds for ever), and, until payload is taken for a container, the next
  response is that of command `answered + 1`. Commands sent are
  those answered, abandoned or under way; the lag is the difference. Payload is
  misread only behind an abandoned call, so `FlagIsHonest`, which is about sessions
  with none, has no premise on it. The flag needs
  the converse, `Wired`: what claims to answer the latest command is its answer;
  `FlagInv` is what the flag will have to say once that is read.
* `SessionProofs`, second part: `TransfersAreSessions` (so that all of the above holds of
  transfers), `TransfersTypeCorrect`, `RightFileUnlessTwoLosses`. Data on the wire
  was asked for by a command for data (`Purposeful`), so data read was
  (`DataKnown`). After one abandoned call the second transaction of a download
  meets the answer of its first, which has none (`FirstHalf`, `SecondHalf`).
* `MultiCamPoolProofs`: `TypeCorrect`, `ListHoldsTheCameras`, `RaisesTheFirstFailure`,
  `NoWorkerLeft`, `SwitchesAreSequential`, for any number of cameras, rounds and
  signals. Every camera of a pooled call is still to be submitted, queued, running
  or told of by its future, and only one of these (`Queue`, `Accounts`); a future
  holds what that camera's call of this round came to (`CallsInv`); the caller
  has read the futures up to where it is (`Progress`). `PoolAssumption` asks that no
  value of a script has the name of a state of the executor.
* `DeviceClaimsProofs`: `TypeCorrect` without a hypothesis, and with
  `~Reconnects` (device.py:607-633 asks the host to serialise a reconnect with the
  handler) `ConnectedUsable`, `NothingIsOrphaned` and `FailedOpensLeaveNothing`, for
  any number of cameras and signals. None of the three is inductive: which statements
  of an open have taken effect is known from the statement it is at (`Progress`), and
  stays true only because the handler never has the device in hand that the host is
  opening (`Apart`), which is so because the handler has what was registered and what
  is being opened is not (`LetGo`, `Owned`). `Claims` then names, for each interface
  claimed, who will see to it (`Covered`): the registry, the host at a statement that
  comes before the release, or the handler likewise; and what a rollback or a close
  has passed is claimed no more. `Where` and `Signals` are the control. `ClosesOn` is
  the loop over the cameras, by `LeastElement`.
* `SignalHandlersProofs`: `TypeCorrect` and `HostIsServed`, for any signals and any
  number of handlers. `SlotInv`: a slot holds what the host set last, or ours with that
  saved behind it. `WayInv`: while a signal is under way, the handler the
  host set last has had it, or ours has it and will hand it to that one.
* `FlashCardProofs`: `TypeCorrect`, `NothingErasedUnread`, `IdentitySurvivesARun`, for
  every set of layouts, with any number of entries and volumes. `FirstSettles` and
  `LeastElement` are about a scan for the first verdict; `BlankHoldsNothing` and
  `InspectableHoldsOnlyTheFirst` say what a verdict means for the card under
  `Tells`; `RunInv` follows the identity from the card into `salvaged` and back.
* `RemoteCaptureProofs`: `TypeCorrect` and `ImplementsFile`, the refinement of
  CaptureFile: `Create` from `Init`, `Truncate` from `Begin`, `Write` of the chunk
  given from `GetChunk`, stuttering otherwise. `TakenAsMeant` shows that the host takes
  an answer for what the camera means by it, through missing parameters, a size that
  claims too much and the sign of a position; `AssembledFacts` gives the length and
  every byte of an extended and overwritten array.
* `OwnTxtProofs`: `TypeCorrect`, `FindsTheFirst`, `ReadsBackWhatItWrote`. The
  second needs that a file which was written is still what `Format` made of
  the pair (`AsWritten`), and `FirstOfEach` at its end.

Every invariant and action property and both refinements that the passing runs check
are proved. Model-checked only are the liveness properties `CallsEnd`,
`PipelineServiced`, `DownloadEnds`, `EveryCameraStarts` and `RoundsEnd`: they rest on
fairness, and so on ENABLED, which is beyond this prover. Recursion and induction over
data are not used.

## Disagreements between code and documents

Three runs show a property violated that the repository states; PROJECT.json
quotes the lines.

* `FreshPicture`: `_shoot_streaming` takes whatever picture is ready. In the run no
  transaction fails: a streaming call times out while its script is still at work, the
  camera then makes the picture, and the next call finds it ready at its first poll and
  returns it for its own. `StalePictureOnlyAfterFailure` is what does hold.
* `OpenClaimsOrNothing`: a KeyboardInterrupt between the claim and the line that
  records it (usb_transport.py:169-170) leaves an interface claimed that nothing
  releases. `FailedOpenLeavesNothing` holds for every other failure.
* `InstallingTwiceIsHarmless`: a handler of the host that passes on to ours, set
  between two installations, is saved as our original, and a signal then
  goes round between the two.

Smaller ones, read off the models:

* TimeoutError of `wait_for_script` can be raised for a script that has ended
  since the last poll: the deadline is looked at first (chdk.py:517).
* `_is_open` is not what the camera's session is: where the camera refuses
  CLOSE_SESSION, `close` swallows the error and clears the flag (ptp.py:131-135), and
  the transactions after it succeed, since `transaction` asks no flag. The next `close`
  then returns early. `OpenFlagHonest` states what is left while no call
  was abandoned: the flag is not up over a session that is gone.
* After one lost read every later transaction returns the answer of an earlier
  command until the device is reset (ptp.py:166-200); `AnswerLag` says exactly
  how far behind. The swallowed exception of the drain behind a picture
  (device.py:495-498) can leave a session so without anyone being told.
* OPEN_SESSION and the first transaction of a session carry id 1
  (ptp.py:120-121, 156-157), where the tests number them 1 and 2.
* A run of the flasher that fails in the erase or between it and OWN.TXT loses the
  id, and the advised rerun finds a card without one (flash_chdk.py:629-637);
  `DoneKeepsIdentity` is therefore about one run. A partial archive left by an
  interrupted download makes every later run erase and then fail (line 42).
* An empty chunk that seeks beyond the end extends the image with zeroes, where
  a file would stay as long as it is; CaptureFile follows the code.

## Assumed, and left out

* In MultiCamPool a worker thread can always be started, and a caller whose wait for
  its workers was interrupted lets them finish before it calls again.
* ChdkCalls keeps the session in step; FileTransfers lets it fall out of step. The
  two are not composed, so the exception of the drain that device.py:495 swallows
  is a `TransactionFails` of the first and a `ReadTimeout` of the second.
* PTPSession has one caller at a time: two threads on one session, which
  device.py:604-618 describes, are not in it.
* What diskutil reports is free except that it leaves no filesystem out of an
  entry it fills in (`Tells`).
* In DeviceClaims a release always gives the claim back; a new MultiCam is built
  and an old one dropped only while no handler is at work; and a worker does not
  call `reconnect` (`Reconnects = FALSE`) while the handler may close beside it:
  device.py:607-633 describes that race and leaves it open to the host.
* A handler of the host is entered and left; nested signals inside handlers are
  not modelled. Installing from a thread other than the main one changes
  nothing and is left out.
* Not modelled: finding devices and the daemon that holds cameras on macOS (pure
  I/O); pyusb's finalizers; the pixels and headers of a live view frame (a data
  phase like any other); the refusal of DNG before any transaction; APEX arithmetic
  (floating point) and `to_camerapath` (a prefix).

## Plan

What is left to model is the composition of ChdkCalls with a session that has
fallen out of step: what a script's status then means, when the answer read is that
of the poll before. What is left to prove: how far a worker's reconnect beside the
handler can go wrong (what of `ConnectedIsUsable` survives without `~Reconnects`), and
the steps towards the liveness properties that are safety: that each turn of a loop
uses up something of which there is a bounded amount.
