# server-fw in TLA+

A verification project for `server-fw`, a TFTP firmware server in C++
(`src/source/`). It models the program from its command line to its end: the
settings, the daemon and its parent, the listener that starts, scans and joins
the session threads, the buffers and the parser a request goes through, the
protocol state machine of a session, a session together with an uploading or a
downloading client over an unreliable network, and the data managers of several
sessions on one file system. TLC checks the modules on small instances. TLAPS
proves the safety properties of a session, of a session with its client, of the
file store, of the listener and of the program for every value of the
constants, and that a transfer implements its abstract specification.

Contents: 1 the system, 2 the modules, 3 the runs, 4 the theorems,
5 disagreements between the code and what is said of it, 6 what is not
modelled, 7 further work.

## 1. The system

### Inventory

| Component | State | Operations | What makes it correct |
|---|---|---|---|
| `Session` (tftpSession) | `stat_`, `stage_`, `last_blk_processed_`, `retr_count`, the timeout, the first error, the socket, `local_buf`, the data manager | `prepare()`, `init()`, `run()`, `switch_to()`, `receive_no_wait()`, `transmit_no_wait()`, `construct_*()` | acknowledged blocks are stored; DATA n carries block n; a session that ends well has transferred everything; errors reach the peer; a session with a silent peer ends |
| `DataMgrFile` (tftpDataMgrFile) | `filename_`, `file_in_`, `file_out_`, `file_size_` | `init()`, `read()`, `write()`, `close()`, search by name and md5 | blocks land at their own place; an existing file is not overwritten; what is read is what the file has |
| `Srv` (tftpSrv) | `socket_`, `stop_`, `sessions_` (list of session and thread) | `init()`, `main_loop()`, `stop()`, destructor | no thread outlives its session object; finished sessions are erased; `stop()` ends the loop |
| `main()` (server-fw.cpp) | exit code | options, daemon, `init()`, `main_loop()` | a bad command line serves nothing; a failure in the foreground is never seen as success; the parent does not wait for ever |
| `Options` (tftpOptions) | the parsed request | `buffer_parse()` | the request is what its packet says, whatever stands behind it in the buffer |
| `SmBuf`, `SmBufEx` | octets, pushed size, two flags | `push_data()`, `set_*()`, `get_*()` | what was pushed can be read back; a push tells whether all of it fitted |
| `Settings`, `Base` | one shared settings object, a mutex per object | `load_options()`, getters, `log()` | the settings are what the command line as a whole says |
| `Addr` | a socket address | `set_string()`, `set_*()`, `str()`, compare | every format is taken for what it says |
| `tftpCommon` | - | string and id conversions, enumerations | - |

### Interaction

`main()` creates one `Srv`. `main_loop()` polls the listening socket; a packet
of 9 octets or more is given to `Session::prepare()`, and if that accepts it
the session is moved to the end of `sessions_` and a `std::thread` runs
`Session::run()` on it. Once per iteration the loop looks through `sessions_`
and joins and erases the first session that is finished. `stop()` may be
called from any thread. Each session has its own socket and its own
`DataMgrFile`; sessions share the settings object and the file system.

`run()` is a loop over `stat_`. It never blocks: `receive_no_wait()` polls, a
timeout leads to the state `retransmit`, and every change of state goes
through `switch_to()`, which turns a transition that is not in its table into
`finish`.

### What is hard

* Block numbers have 16 bits on the wire and are extended with the help of
  `stage_`; late and repeated packets move `stage_` backwards.
* Timeouts race with late answers, and `retransmit` re-enters `data_tx` or
  `ack_tx` with the `stage_` of the packet that is awaited.
* `local_buf` is both the receive and the send buffer, and the input stream
  keeps its failbit.
* `is_finished()` is true before `run()` has closed its file and returned.
* `stop_` is written by another thread.
* All requests are received into one buffer, and offsets are `size_t`
  differences that wrap.
* A daemon starts while its parent counts down, and has descriptor 0 free.
* Faults of sockets, files and disks arise between any two steps, and some of
  them throw out of a thread, which ends the process.

`PROJECT.json` lists each hazard with its line.

## 2. The modules

| Module | Models | Extends |
|---|---|---|
| `Session` | `Session::run()` and all it calls; `DataMgrFile` as one session sees it | - |
| `AnyPeer` | a session with a peer that sends any packet at any time | `Session` |
| `Datagrams` | what the two clients share: `Lag`, and the session's own steps | `Session` |
| `Upload` | a write session, the client of `tests/tftpSrv_test.h`, the network | `Datagrams` |
| `Download` | a read session, a downloading client (external), the network | `Datagrams` |
| `Transfer` | abstract: what the transfer of a file promises | - |
| `Lockstep` | a session with the client of its request, and the refinement mapping to `Transfer` | `Upload`, `Download` |
| `SmBuf`, `SmBufEx` | the buffers packets are received into and built in | -, `SmBuf` |
| `Options` | `Options::buffer_parse()` | `SmBufEx` |
| `Handshake` | a request from the client's buffer to the session's OACK | `Options` |
| `FileStore` | several `DataMgrFile` objects on one file system | - |
| `Server` | `Srv` with its session threads | - |
| `Addr`, `Settings` | addresses and the command line | -, `Addr` |
| `Startup` | `main()`, its daemon, and the listener it runs | `Server`, `Settings` |
| `SessionProofs` | theorems about a session with any peer | `AnyPeer` |
| `UploadProofs`, `DownloadProofs` | theorems about a session and its client | `Upload`, `Download`, with `SessionProofs` |
| `LockstepProofs` | theorems about both, and the refinement of `Transfer` | `Lockstep`, `UploadProofs`, `DownloadProofs` |
| `FileStoreProofs`, `ServerProofs` | theorems about the file system and the listener | `FileStore`, `Server` |
| `SettingsProofs` | lemmas about the command line and addresses | `Settings` |
| `StartupProofs` | theorems about the program | `Startup`, `ServerProofs`, `SettingsProofs` |
| `MCAnyPeer`, `MCUpload`, `MCDownload`, `MCLockstep`, `MCHandshake`, `MCServer`, `MCStartup`, `MCFileStore` | requests, scripts, command lines, faults and descriptors for TLC | the module named |

### Session

One action is one iteration of the loop in `run()` in one state; the action is
named after the state (`NeedInit`, `ErrorAndStop`, `AckOptions`, `DataTx`,
`AckTx`, `Retransmit`). The states that wait, `data_rx` and `ack_rx`, have one
action for each result of `receive_no_wait()`: `WrongNumber`, `DataRx`,
`DataRxThrows`, `DataRxDiskFault`, `AckRx`, `Ignore`, `RecvFault`, `Timeout`.
An iteration that receives nothing before the timeout changes nothing. `Tick`
is the clock passing the timeout. `Close` is what follows the loop.

`switch_to(new)` uses the table `Admitted`, so a refused transition ends the
modelled session as it ends the real one. In particular `error_and_stop` is
not admitted from `data_rx` and `ack_rx`.

Abstractions:

* Offsets are counted in blocks. Data is `full` (a whole block), `part` or
  `none`: the distinctions `run()` and `read()` make. A block's octets are the
  number of the block they come from; `body` follows them through `local_buf`.
* Packets carry the full block number; the session only reads it through
  `blk_num`, modulo `BlkMod` (65536 in the code).
* The retransmit counter is an integer modulo `RetrMod` (65536 in the code).
* `prepare()` is the choice of a request from `Requests`. A windowsize below 1
  is used as 1, as in the code; the other options do not change the control.
* A failing `sendto()` is only logged by the code. A packet that was not sent
  is one that nobody receives.
* `Faults` switches on the faults of the environment.
* `Upload` and `Download` never remove packets: what was sent may arrive any
  number of times, in any order, or never. `Lag` is the one limit: a packet is
  gone before its 16-bit number comes around again. Without it no protocol
  with finite numbers is correct.

Behaviour of the C++ library that matters and is modelled: `close()` of a file
stream that is not open sets failbit (and throws with `exceptions(failbit)`);
`seekp()` to a negative position fails; a short `read()` sets failbit, and a
failed stream neither seeks nor reads; `tellp()` after a failed write throws or
returns -1 depending on the library, so both are modelled.

### Transfer and Lockstep

`Transfer` knows neither packets nor timeouts. The receiving side comes to hold
the blocks 1, 2, .. in their order (`Deliver`), the sending side learns of
delivered blocks only (`Confirm`), and the transfer completes when the file is
delivered; a download may complete with its last block still missing, because
the session takes a repeated ACK for that of the last block. `Spoil` is the point
from which the code promises nothing: an upload that has retransmitted, a
download that has sent a block 0. `Lockstep` joins a session with the client of
its request and maps it to `Transfer`: `delivered` is the longest prefix in its
place in the file, or at the client; `confirmed` is what the client has an ACK
for, or the block before the highest one the session has sent.

### SmBuf, SmBufEx, Options, Handshake

A buffer is the sequence of its octets. A method that may throw comes with a
predicate `..._throws`; an object of `SmBufEx` is a record, and a push maps it
to the object after the call and to `true`, `false` or `throws`. Sizes are
computed modulo `SizeMod`, so that the sum in `is_valid()` and the difference
`buf_size-curr_pos` wrap as in the code. Where the wrapped end of a string lies
before its beginning, `std::string` gets a negative length and throws; this is
what the search of `std::find` in libstdc++ up to version 14 leads to, and the
model takes it for the outcome.

`Options` has one action per part of `buffer_parse()`: type, filename, mode,
and one per turn of the loop over the options. `Handshake` puts a client
(external) in front, which builds requests in an `SmBufEx` from a script of
strings, may stop early, leave out a zero end, swap the byte order, or fill its
buffer; and behind it the OACK of `construct_opt_reply()`. `pkt_buf` keeps the
octets of earlier packets. Verdict and meaning of a packet are stated again, of
the packet as a whole (`Verdict`, `Meaning`), as the reference the octet by
octet parse is compared with.

### Addr, Settings, Startup

The text of an address is a sequence of tokens: a dotted quad, a group of up to
five decimal digits, another hexadecimal group, a colon, a bracket. The two
regular expressions are predicates on it. `inet_pton()` is a table, of which
`TextAssumption` says the form of its texts; several texts may stand for one
address, and an IPv6 address may end with a quad. `load_option` is one turn of the
loop over `getopt_long()`; `SettingsOf` says what a command line means as a
whole. `Startup` is `main()`: an argument at a time, then help, `fork()`, or
the server in this process. The steps of `Server` are taken inside it, with the
descriptor that is free in that process. The parent of a daemon is the
variable `parent`; it polls, up to `MaxPolls` times, while the daemon runs, and
its exit code (`parentCode`) is success whatever it has seen. An
embedding program, like the tests, loads options, may leave out `init()`, and
calls `stop()` at any moment; `main()` never does.

### Server

`pc` is the position of the owner's thread in `main()` and `main_loop()`; each
group of statements between two accesses to shared state is an action. The
iterator of the scan is the variable `it`. A session thread is `running`,
`finished` (`stat_` is `finish`, `run()` still going) or `returned`. The flag
`stop_` is a plain `bool` that two threads use without synchronisation; the
model reads it afresh in every iteration, which the `recvfrom()` and
`usleep()` calls in the loop make the build do. `Descriptors` contains 0
because a daemon has closed its standard input, and `main_loop()` takes a
socket with descriptor 0 for none.

### FileStore

One manager per session, each in its session's thread. `init()`, `read()`,
`write()` and `close()` are split at every access to a file that others use: one
step per directory searched, the two opens of a download and the size it keeps
(the second open may fail, which nobody looks at, and the size is kept all the
same), the check for an existing file and the open of an upload, the streams,
the owner and the permissions in `close()`. A file is a sequence of blocks, a
block is known by its writer and its number. `Read` reads any block below
`file_size_`, for the call that returns it or ahead of it; a file that has become
shorter gives other bytes (`Hole`). `Write` puts the block at the position of the
stream into its buffer, `WriteElsewhere` empties the buffer by a seek and starts at
another place; what is skipped reads as zeros, `Hole` as well. `Flush` passes a
block on at any time, closing passes on the rest. Which blocks a session reads
and writes, in which order, is the subject of `Session`; here it is any. `known`
(the files there when `init()` began) and `stored` (the blocks passed on) are
history. `Crash` is the end of the process by an exception of any thread and a
new start: managers and buffers are gone, files stay. The order in which a
directory's .md5 files are met is unspecified, and a choice in the model. Names
stand for regular files.

## 3. The runs

| Run | Specification | Result | Properties |
|---|---|---|---|
| `any_peer` | `AnyPeer!Spec` | pass | `TypeOK`, `AckedIsStored`, `DownloadIsFile`, `ErrorReported`, `EndsAfterLastBlock` |
| `silent_peer` | `AnyPeer!FairSpec` | pass | `SilentPeerEnds` |
| `lockstep` | `LockstepSpec` | pass | `UploadTypeOK`, `BlocksInPlace`, `UploadIntact`, `NoNegativeSeek`, `DownloadIntact`, `NeverAhead`, `ShortByOneAtMost`, `ImplementsTransfer` |
| `handshake` | `Handshake!Spec` | pass | `HandshakeTypeOK`, `PushedReadsBack`, `PushTellsFit`, `VerdictOfPacket`, `ParsedAsMeant`, `OackEchoesRequest` |
| `server_sessions` | `StartupFairSpec` | pass | `StartupTypeOK`, `NoDanglingThread`, `OptionsAsGiven`, `AddressUnderstood`, `BadLineServesNothing`, `SuccessIsDaemon`, `FinishedIsErased`, `StopInLoopReturns`, `ParentTells` |
| `shared_files` | `FileStore!Spec` | pass | `TypeOK`, `InitialKept`, `ClosedIsWhole`, `UploadedInPlace`, `ServedFromFile`, `SearchOrder`, `FinalForGood` |
| `window_spin` | `AnyPeer!FairSpec` | violation | `SilentPeerEnds` |
| `open_throws` | `AnyPeer!Spec` | violation | `ErrorReported` |
| `ack_timeout` | `UploadSpec` | violation | `AckedPrefixStored` |
| `oack_timeout` | `DownloadSpec` | violation | `ClientHasPrefix` |
| `stop_lost` | `Server!FairSpec` | violation | `StopReturns` |
| `refused_chmod` | `FileStore!Spec` | violation | `OnlyCreatedChanged` |

What the passing runs show:

* **any_peer**: for reads and writes, with and without options, windows 0 to 2
  and all storage faults, whatever the peer sends: no block is acknowledged
  that is not stored (before the first timeout); DATA packets carry their own
  block; errors are sent to the peer except those met while receiving; a
  session that ends well has seen the last block.
* **silent_peer**: once no packet of the peer is taken any more the session
  ends, from every state and with every fault, if it has no window of several
  blocks. Packets of strangers may go on arriving: they do not set the timeout
  back.
* **lockstep**: late, repeated and reordered blocks of an upload never land at
  another block's place; without a timeout in the server the acknowledged
  prefix is stored and a good end means a whole file; no packet of a conforming
  client makes the stream seek below zero. The client of a download has a
  prefix of the file, retransmissions included, until an OACK times out; the
  session is never ahead of its client; at a good end at most the last block is
  missing. `ImplementsTransfer` says both in one: the session and its client
  take only steps of the abstract `Transfer`.
* **handshake**: everything pushed into a packet can be read back, with the
  flags it was pushed with, whatever was refused after it; a push returns
  whether all its items fitted with their zero ends, where it does not throw
  (section 5). A packet gets the verdict it deserves whatever an earlier one
  left behind it in the buffer, except one that ends with its filename; an
  accepted one means what it says; and the OACK repeats the options the packet
  gave, each with its number.
* **server_sessions**: the settings are what the command line as a whole says;
  the formats of an address are understood whatever was listened to before (but
  for two, section 5); a line with `-h`, an unknown option or permissions that do
  not convert opens no socket and starts no daemon; whoever starts `main()` sees
  success only of a line that asks for a daemon; the parent of a daemon does not
  wait for ever. In the
  listener a session object exists exactly while its thread may use it; every
  finished session is erased although one iteration erases only one and new
  ones keep coming; `stop()` in the loop ends the loop.
* **shared_files**: with two sessions on the same names, blocks in any order,
  buffered writes and crashes, a file from before the start keeps its content; a
  file that no upload is writing keeps its content for good; after `close()` the
  file has every block `write()` took, at its place, and nothing else; also where
  two uploads race no block lies at another place; a download of a file that is
  being uploaded reads what stands there; the search serves nothing while a file
  that comes before it was there when the request came. `ClosedIsWhole` and
  `ServedFromFile` exclude files for which two uploads raced (section 5).

### Bounds

* `BlkMod = 4` with 6 or 7 blocks: the block number wraps within a transfer,
  and `stage_` moves back and forth across the wrap. `Lag = 2` is the largest
  value `LagAssumption` allows with it.
* `RetransmitCount = 2`, `RetrMod = 4`: the limit is passed and the counter
  has a value beyond the limit, as any setting but the largest has.
* `MaxStage` stops `AnyPeer` from taking packets past the end of its file, and
  leaves room for one block past it.
* The handshake has an alphabet of 13 octets with three digits and one letter
  in two cases, two requests in a row, two options (the code treats its four
  alike), a client's buffer that is too short for the request or long enough,
  and numbers below and above 16 bits (`BlkMod`) and `int` (`IntMax`).
* Command lines: all of up to two arguments of 23, of every kind the code tells
  apart, and all of three listening addresses. Requests arrive only under the
  empty line and under `--daemon` (`BusyLines`): the listener does not look at
  the other settings. `MaxPolls = 3` for the 26 of the code; the daemon may end
  before, between and after the polls.
* Three slots for sessions: one being joined, one finished behind it and one
  new. `MaxBacklog = 1` suffices as a packet may arrive after every step.
* Two managers with files of three blocks: two uploads, or an upload and a
  download, of one name overlap, or one follows the crash of the other; blocks
  are written forwards, backwards and with gaps. What takes two uploads and a
  download at once is left to the theorems, which hold for any number. Two
  directories are enough for the order of the search.
* Deadlock is not checked where sessions end and the process may stop.

### Fairness

`AnyPeer!FairSpec` assumes that the operating system keeps running the thread
(`WF` of `Step`) and that the clock advances (`WF` of `Tick`). It assumes
nothing of the peer or the network. `StartupFairSpec` assumes the same of the
process that serves (`LoadOption`, `Loaded`, `Fork`, `Serve`) and of the parent
(`ParentPolls`), and that `run()` returns after it has set `finish`
(`SessionReturns`). `Server!FairSpec` assumes that the owner's
thread runs and that `run()` returns after it has set `finish` (there is no
loop after that point). It does not assume that a transfer ends, that `stop()`
is called or that packets arrive.

## 4. The theorems

All hold for every value of the constants that the named assumptions allow;
the runs evaluate those assumptions (`RequestsAssumption`,
`NumbersAssumption`, `SwitchesAssumption`, `MaxStageAssumption`,
`LagAssumption`, `StoreAssumption`, `BacklogAssumption`,
`DescriptorsAssumption`, `TextAssumption`, `SettingsAssumption`,
`MaxPollsAssumption`, `LinesAssumption`, `ArgumentsAssumption`). The column
"if" gives what a theorem assumes besides.

| Theorem | States | Of | If |
|---|---|---|---|
| `SessionProofs!TypeCorrect` | `[]TypeOK`; in particular `stage_` is never negative | `SessionSpec` | |
| `SessionProofs!AckSafe` | `[]AckedIsStored` | `SessionSpec` | counter |
| `SessionProofs!DownloadSafe` | `[]DownloadIsFile` | `SessionSpec` | |
| `SessionProofs!ErrorsSent` | `[]ErrorReported` | `SessionSpec` | `"open" \notin Faults` |
| `SessionProofs!EndsWhole` | `[]EndsAfterLastBlock` | `SessionSpec` | |
| `SessionProofs!AnyPeerSafe` | these five | `AnyPeer!Spec` | as above |
| `UploadProofs!UploadTypes` | `[]UploadTypeOK` | `UploadSpec` | |
| `UploadProofs!UploadInPlace` | `[](BlocksInPlace /\ NoNegativeSeek)` | `UploadSpec` | no window |
| `UploadProofs!UploadWhole` | `[]UploadIntact` | `UploadSpec` | no window, counter |
| `DownloadProofs!DownloadTypes` | `[]DownloadTypeOK` | `DownloadSpec` | |
| `DownloadProofs!DownloadNeverAhead` | `[]NeverAhead` | `DownloadSpec` | |
| `DownloadProofs!DownloadWhole` | `[]DownloadIntact` | `DownloadSpec` | no strangers |
| `DownloadProofs!DownloadEnds` | `[]ShortByOneAtMost` | `DownloadSpec` | |
| `LockstepProofs!LockstepSafe` | the eight invariants of uploads and downloads | `LockstepSpec` | no window, counter; `DownloadIntact`: no strangers |
| `LockstepProofs!LockstepRefines` | `ImplementsTransfer` | `LockstepSpec` | no window, counter, `"recv" \notin Faults` |
| `FileStoreProofs!FileStoreTypes` | `[]TypeOK` | `FileStore!Spec` | |
| `FileStoreProofs!InitialFilesKept` | `[]InitialKept` | `FileStore!Spec` | |
| `FileStoreProofs!FinalFiles` | `FinalForGood`, an action property | `FileStore!Spec` | |
| `FileStoreProofs!ClosedFilesWhole` | `[]ClosedIsWhole` | `FileStore!Spec` | |
| `FileStoreProofs!UploadsInPlace` | `[]UploadedInPlace` | `FileStore!Spec` | |
| `FileStoreProofs!SearchesInOrder` | `[]SearchOrder` | `FileStore!Spec` | |
| `FileStoreProofs!ReadsFromFile` | `[]ServedFromFile` | `FileStore!Spec` | |
| `ServerProofs!ThreadsHeld` | `[]NoDanglingThread` | `Server!Spec` | |
| `ServerProofs!ServerTypes` | `[]TypeOK` | `Server!Spec` | |
| `StartupProofs!ProgramIsServer` | `Server!Spec`: the program implements the listener | `StartupSpec` | |
| `StartupProofs!ProgramThreadsHeld` | `[]NoDanglingThread` | `StartupSpec` | |
| `StartupProofs!StartupTypes` | `[]StartupTypeOK` | `StartupSpec` | |
| `StartupProofs!OptionsTaken` | `[]OptionsAsGiven` | `StartupSpec` | |
| `StartupProofs!AddressesUnderstood` | `[]AddressUnderstood` | `StartupSpec` | |
| `StartupProofs!SuccessOfDaemons` | `[]SuccessIsDaemon` | `StartupSpec` | |
| `StartupProofs!BadLinesServeNothing` | `[]BadLineServesNothing` | `StartupSpec` | |

The hypotheses by name:

* *counter*, `RetransmitCount < RetrMod - 1`: the retransmit counter can exceed
  its limit. At the largest limit it starts again from 0, and a session with
  retransmissions passes for one without.
* *no window*, `OneBlockUploads`: no write request has a windowsize above 1. With
  a window a block lost inside it is skipped.
* *no strangers*, `"stray" \notin Faults`: a packet from another sender is read
  into the buffer that a failed stream sends its block from, before it is
  ignored. The refinement does without: only the last block of a download can
  be affected, which `Transfer` does not promise.
* `"recv" \notin Faults`: a failing `recvfrom()` ends a session as if it were
  complete. Only the refinement needs this; the invariants name the case.
* `"open" \notin Faults`: a file that is found but cannot be opened ends the
  process before the error is sent (section 5).

They are the conditions under which the code keeps the promise: without one of
them TLC finds a counterexample to the theorem that has it.

### Sessions

`SessionSpec` is a session with a peer that may send any packet, without the
bound `MaxStage`; `AnyPeer!Spec`, an uploading and a downloading client are
instances of it, so that what is proved of it is proved once.

* **TypeCorrect** is inductive as it stands. The one arithmetic step is that a
  number in range (`InRange`) is a natural number.
* **AckSafe**: `AckedIsStored` says nothing of the block about to be
  acknowledged, so it is strengthened with `AckPending` (in `ack_tx`, without
  retransmissions, block `stage_` is 0 or stored) and `GivenUp` (past the
  limit the session is about to end, so the counter does not come back to 0
  through its modulus). Stored blocks are replaced, never removed
  (`StoredGrows`).
* **DownloadSafe**: a failed stream delivers what is left in `local_buf`, so
  the invariant (`SentFromFile`) says when a stream may have failed
  (`FailedStream`: only the short last block was read, it is still in the
  buffer unless a stranger's packet is, and the session does not go on to
  another block), and that full blocks are the file's in any case. `Sides` keeps reads out of the write states.
* **ErrorsSent**: `ErrorEnds` follows an error from where it is recorded
  through `error_and_stop` to `finish`.
* **EndsWhole**: `EndIsLast` (only the last block leads to the end, errors and
  exhausted retransmissions aside), `LastIsSent`, and `MgrOpen` (the one end
  without a data manager takes the process down).

### A session and its client

The 16-bit number of a packet is extended in the epoch (`Epoch`, the number of
wraps) of `stage_`. `RxStage` says what comes out: the full number when the
epochs agree, at least a whole `BlkMod` above it for a packet of an earlier
epoch, at least a `BlkMod` below it for one of a later epoch.

* **UploadInPlace**: `UploadOrder` says that the client is never in a later
  epoch than the session. It is at most one block ahead of what was
  acknowledged, and once ACK m was sent the session has been at block m + 1,
  from where late packets take it back only within the epoch. A block of an
  earlier epoch would come out above what `InRange` admits, so what is stored
  is stored under its own number.
* **UploadWhole**: `UploadPrefix`: without retransmissions the file is a
  prefix of the client's, every block that was acknowledged closes a prefix
  that is stored, and `last_blk_processed_` means the whole file.
* **DownloadNeverAhead**: `DownloadOrder`: the session stays at or before the
  block its client expects. An acknowledgement is taken for its own number or
  for a lower one (`AckNumber`; here `LagAssumption` is used).
* **DownloadWhole**: the client takes only what was sent, in its order, and
  what was sent is the file (`DownloadSafe`, `GotBlocks`).
* **DownloadEnds** joins `EndsWhole` with `NeverAhead`: when the last block was
  sent, the client had taken all before it.
* **LockstepRefines**: initial states map to initial states, and each action
  of the session or its client to `Deliver`, `Confirm`, `Complete`, `Fail`,
  `Spoil` or a stutter. `Values` computes the mapping: in an upload the stored
  blocks are exactly the first `Delivered` ones; in a download `Delivered` is
  the length of what the client has taken, less a last block that is not the
  file's (`TakenWell`, `FullPrefix`), and `Confirmed` that length or one less, as
  block `Expected` was sent or not (`TakenWasSent`).

### Files

* `IInv` joins the types with `Where`, which says for each place of a manager
  what it has: what is being searched or read exists, an upload that has passed
  the check, or has opened its file, does not have an initial one, and only an
  opened stream has blocks. Most actions only move a manager on (`GoOn`), three
  pass blocks on (`Puts`); the lemmas are stated for these classes.
* **InitialFilesKept**: content changes only in a file that a manager has open for
  writing, and by `Where` that is no initial one.
* **FinalFiles** follows from the same invariant, one step at a time
  (`NoNewWriter`): only `CheckWrite` admits an upload, and only to a file that is
  not there.
* **ClosedFilesWhole**: `Owns` says that a file opened by one upload alone
  holds exactly what that upload's stream has passed on (`stored`), each block at
  its place; `HoldsMore` is what a write over a file adds to it. Another upload
  that opens the same file makes it raced for.
* **UploadsInPlace** needs no such condition: a truncation removes blocks, and
  what is passed on goes to its own places.
* **ReadsFromFile**: `Serves` says that a download has not read past the size it
  took and that the file has not become shorter than that. A file that is not
  raced for only grows, and a block in it is only written again with the same
  content or over zeros (`FileGrows`); `HasOpener` (every new file was opened by an
  upload) makes a second opening a race.
* **SearchesInOrder**: `Searched` says what a search has ruled out where it
  stands: an md5 search every sum in the directories it has passed, a search by
  name every sum anywhere and every file of that name so far, among the files
  that were there at its beginning. Files are never removed, so what was there
  is there when the search comes by.

### Listener and program

* **ThreadsHeld**: the list must not lose or double a session when one is
  erased from its middle (`EraseFacts`); in `join` the iterator is within
  the list.
* **ProgramIsServer**: each step of `Startup` is a step of `Server` or leaves
  its variables alone, so the theorems about the listener carry over.
* **SuccessOfDaemons**: `EndInv` follows the exit code, and that without a
  `stop()` the loop is left only by an `init()` that fails, for the second time in
  a daemon. `ForkInv` says that a process that was forked comes from a line that
  asks for a daemon, by the settings the line means (`GivenInv`), and `LineInv`
  that such a line has no bad argument.
* **BadLinesServeNothing**: `LineInv` relates the arguments still to be read to
  the whole line, and says that among those read none has thrown and none that
  asks for help was forgotten.
* **OptionsTaken**: `GivenInv`: while `load_options()` reads, the settings are
  what the arguments read so far mean as a whole. `SettingsProofs` shows the
  step: one argument more changes the meaning of a line in the one field that
  `load_option` writes. The last of the places of an option is the new one or
  the old one, the search directories become one more at the end, and the
  address takes family, port and address from `set_string()`.
* **StartupTypes**: `MainInv`, with `SettOK` for the settings: what is cut to
  the width of a field fits it.
* **AddressesUnderstood**: for every text that `TextAssumption` lets
  `inet_pton()` read, the two regular expressions find in each format of the
  text what it consists of (`MatchBare`, `MatchBracketed`), and only in a text
  with a quad nothing. Two texts may stand for one address.

### Only model-checked

* The liveness properties `SilentPeerEnds`, `FinishedIsErased`,
  `StopInLoopReturns` and `ParentTells`: fairness and `ENABLED` are out of the
  prover's reach.
* The properties of `Handshake` (`HandshakeTypeOK`, `PushedReadsBack`,
  `PushTellsFit`, `VerdictOfPacket`, `ParsedAsMeant`,
  `OackEchoesRequest`): they compare what a parse of octets has computed with a
  reference, both built from recursive functions and folds over the packet, and
  the prover cannot unfold those for every length. Where an induction runs over
  the steps of a specification instead, as over the arguments of a command line,
  it is proved.

## 5. Disagreements

The runs that end in a violation show behaviour that contradicts what the
repository says; `PROJECT.json` quotes the lines.

* **ack_timeout**: a timeout in `data_rx` goes to `ack_tx` with the `stage_`
  of the awaited block, acknowledges it and moves on. The block is then
  missing from the file while the client takes it for stored. This is why
  `AckedIsStored` and `UploadIntact` are limited to sessions without a
  retransmission.
* **oack_timeout**: after an OACK `stage_` is 0. A timeout then goes to
  `data_tx`, which reads at a negative position, fails the stream for good and
  sends stale octets from there on. `DownloadIsFile` and `DownloadIntact` hold
  until a block 0 was sent.
* **window_spin**: inside a window `data_tx` neither advances `stage_` nor
  looks at the time; a read with a windowsize above 1 sends one block for
  ever.
* **open_throws**: the exception of a failed `open()` is caught, but the
  `close()` after it throws again, out of the thread.
* **stop_lost**: `main_loop()` resets `stop_`, and a `stop()` before that
  statement is forgotten.
* **refused_chmod**: an upload refused with "File already exists" still ends
  with `close()`, which changes owner and permissions of the existing file.

Further behaviour seen while modelling, with the constants that show it:

* With `RetransmitCount = RetrMod - 1` the counter never exceeds the limit,
  and `SilentPeerEnds` fails (change `MCAnyPeer_ends.cfg`).
* With `windowsize` 2 in `Upload`, a block lost inside a window is skipped,
  and `UploadIntact` fails without any timeout.
* With the fault `"stray"` in `Download`, an ignored packet overwrites
  `local_buf`; a retransmitted short last block carries it, and
  `ClientHasPrefix` fails.
* Two uploads of one name may both find no file and both open it; the second
  open truncates what the first has written, even after its `close()`. Without
  the condition `~Raced(..)`, `ClosedIsWhole` and `ServedFromFile` fail.
* `close()` does not look at its stream afterwards: a block that was taken into
  the buffer and acknowledged may fail to reach the disk unnoticed. "Stored" in
  the properties of a session means taken by `write()`.
* The parent of a daemon returns `EXIT_SUCCESS` after "Failed" as well.
* `main_loop()` without `init()` polls the descriptor -1 until `stop()`.
* A daemon's socket has the descriptor 0, which `main_loop()` takes for none;
  when the second `init()` fails the program ends with the exit code of
  success (`SuccessIsDaemon` names this one case).
* A filename without its zero end, and a number beyond `int`, throw out of
  `main_loop()` (`Verdict`). A packet that ends with its filename is parsed on
  into the octets behind it, up to the mode.
* A block size above 16 bits is repeated in full in the OACK and cut in
  `block_size()`; `OackEchoesRequest` claims equality only below.
* `src/source/tftpAddr.h:209` lists "fe80::1 = only IPv6 address", but a bare
  IPv6 address with a decimal last group is taken for an address with a port,
  and an IPv6 address that ends with a quad, as `::ffff:8.8.8.8` does, is not
  taken at all, though `str()` may write one (`Understands` and `RoundTrip` leave
  the two cases out).
* `src/source/tftpSettings.cpp:211` offers `-L` beside `-l`; the option is read and
  ignored. `OptionsAsGiven` says nothing of the address of a line with it.
* `src/source/tftpSmBufEx.h:54` says of a push "True if success pushed value,
  else false"; a string that fits exactly without its zero end makes it throw,
  and so does an empty string without one behind a full buffer. `PushTellsFit`
  leaves both out.

## 6. Not modelled

* `SmBuf::raw()` and `SmBufEx::data_size_reset()`: access to memory, not used
  on the way of a request.
* `Base`: its getters, its logger and the mutex each object has. After
  `load_options()` nothing in the program writes the settings; an embedding
  program that calls `set_logger()` while sessions run is not modelled.
* `Addr`: copies and access to the raw `sockaddr`; user, group and md5
  conversions in `tftpCommon`; the text of log lines and help: no state over
  time.
* The Firebird settings are read and used nowhere else.
* `umask()`, `setsid()`, `chdir()` in a daemon.
* `Session::step_back_window()`: its only call in `run()` is commented out; only
  the tests use it.
* In `Session` and the modules on it: octets of packets, which `Handshake` has;
  the length of a timeout, whose sum with 1 may overflow; `tsize`; directories
  in the place of files.

## 7. Further work

1. `Handshake` in terms the prover can reason about: the parse as an invariant
   over its steps, as it was done for the command line.
2. `Server` composed with `FileStore` in one specification. Today a repeated
   request is two managers with the same name in `FileStore`, which is all that
   two sessions of one client share.
