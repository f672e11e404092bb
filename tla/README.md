# multi_port_convertor: a verification development in TLA+

The program is the firmware of a gateway (OpenWrt, C, pthreads). A device on a
serial line (here: the *peer*) reaches HID readers, a U-disk, a printer, the
network and a web service through it. The gateway speaks a framed protocol with
the peer: it sends *notifications*, which the peer answers and which are sent
again when no answer comes, and it answers the peer's *commands*.

This directory holds TLA+ modules that model the program, TLC runs that check
them on small instances, and theorems that TLAPS checks for every instance.
`PROJECT.json` lists runs, theorems, findings and hazards, and maps every
definition that models code to its lines.

## 1. Inventory

Threads: `main`, `uart_send_tsk`, `uart_recv_tsk`, `uart_poll_tsk`,
`hid_reopen_read_tsk`, `hid_timer_tsk`, `hid_data_tsk`, `net_detect_tsk`,
`udisk_tsk`. `add_new_thread` sets SCHED_FIFO priorities but not
`PTHREAD_EXPLICIT_SCHED`, so every thread inherits SCHED_OTHER: priorities order
nothing, and every thread that can run runs sooner or later.

| component | code | state | operations | hard part |
|---|---|---|---|---|
| UART reliable sender | `uart_communicat.c` 37-71, 159-288, `uart_protocol.c` 50-90, 478-562 | pool `g_uart_send_buf`, list `g_uart_send_list` + `uart_poll_mutex`, `/mq_uart`, `poll` field and frame of each buffer, `uart_send_sn` | produce, fill, link; poll pass (reply, first post, answered, wait, retry, give up); send; mark an answer | four kinds of threads on one pool; `free_flag` read by the send task without the mutex; a blocking post with the mutex held; retries that race answers |
| buffer pool and ring | `buf_factory.c`, `list.c` | ring of free nodes + `list_mutex` | produce (head), recycle (tail) | empty pool ends the process; a node linked twice breaks the ring |
| mailboxes | `mailbox.c` | POSIX queue of pointers | post, pend, timed pend | blocks when full; survives the process |
| UART receiver | `uart_communicat.c` 73-157, `uart_protocol.c` 428-459 | parser state, `uart_recv_buf` | one byte; one frame | lost bytes, resynchronisation |
| command dispatch | `uart_protocol.c` | `Data_p`, static `Respdata`, `uart_send_sn` | one callback per command | statics shared by several threads |
| upload and time | `http_protocol.c`, `uart_protocol.c` 315-406 | `heart_err_time`, `net_state[3]`, system time | three tries of a POST; GET every minute | duplicates, lost results, month and zone conversions, an answer read while the time is set |
| HID readers | `usb_communicat.c`, `usb.c` | `hid_fd`, pool, `/mq_hid`, `hid_key_buf`, `timer`, `hid_dev_type` | open, read, key, time-out, close | time-out against next key; unplug with keys queued; a burst |
| U-disk | `udisk.c` | mounts, `g_udisk[3]` | mount, read parameters, unmount | a disk replaced quickly, a bad disk |
| network state | `net.c` 186-267, `udp.c` | `net_state[4]` | detect cable and WiFi, wait for DHCP | waiting loops; errors never cleared; torn reads |
| boot | `main.c`, `system.c` | `system_info`, `net_state` | init order, minute timer | results overwritten, flags cleared early |
| dormant | `net.c` 26-181, `tcp.c`, `net_protocol.c`, `wifi.c` | - | never called or started | - |

Interactions: every thread that has something to report calls a `*_ntf`
function, hence `uart_protocol_dispose`, hence the pool, the list and the mutex
of the reliable sender. `uart_recv_tsk` runs the command callbacks, the HTTP
upload included, and marks answers on the same list. `net_state` is written by
four threads and copied by `que_sta_rsp`.

What makes each component correct, in short:

* sender: a buffer is in one place at a time; every buffer comes back; no
  notification is dropped before its answer or its last try, none is sent after
  its answer was seen, none is overtaken at its first posting; no thread waits
  for ever;
* pool: the pointers of the ring are a FIFO of the free buffers;
* receiver: a frame sent without loss is delivered as it is; one lost byte costs
  a bounded number of frames;
* upload: one result to the peer per upload, one record on the server;
* HID: a scan is reported in one piece, with the type of its device, between the
  insertion and the pull-out;
* network state: what the peer is told is what the link is, after a bounded time.

## 2. The sender: `UartSend.tla`

State: `free` is the ring of the pool as a sequence; `sendList` the send list;
`mbx` the mailbox; `poll[b]` and `frame[b]` what buffer `b` carries. The frame is
abstracted to its sequence number and to whether it is a notification
(`poll_type` 1) or a reply (0); `type`, `times`, `delay` and `free_flag` are the
fields of `uart_poll_t`. `pollPc`/`cursor` is where `uart_poll_tsk` is,
`sendPc`/`sendBuf` where `uart_send_tsk` is, `held[t]` the buffer a thread
has taken and not linked yet. `posts`, `answered` and `heard` record history for
the properties (`heard` also says for which frames the peer may answer).

| code | actions |
|---|---|
| `uart_protocol_dispose` | `DisposeFill` (take, fill, number), `Link` |
| `uart_protocol_parse` | `RecvCommand` + `Link`, `RecvResponse`, `RecvUpload` (with any number of `DisposeFill(Recv, 0)`) + `RecvUploadMark` |
| `uart_poll_tsk` | `PollBegin`; per entry `PollReply`+`PollPostUnlink`, `PollFirst`+`PollCount`, `PollAnswered`, `PollWait`, `PollTimeout`+`PollPost`, `PollGiveUp`; `PollEnd` |
| `uart_send_tsk` | `SendPend`, `SendWrite`, `SendCheck` |
| `ERROR` of the pool | `BufFactoryCrash` |

One action ends where another thread can see the difference: the mutex is held
exactly while `pollPc # "sleep"`, so steps on the list are merged, and those on
the mailbox, on `free_flag` and `times` are apart, since `uart_send_tsk` uses
them without the mutex. A double link of a node (which loses a part of the ring
in `list.c`) sets `status = "corrupt"`, and an empty pool `status = "exit"`; the model
stops there.

A frame that is posted may be lost (`SendWrite`): an error of `write`, a short
write (whose rest is sent from a wrong address, line 57), or the line. The peer
answers a notification it has heard any number of times, at any time.

### The timing assumptions

The protocol has no state that tells an answer to this posting from another
answer, and `uart_send_tsk` looks at `free_flag` after its write. It is the
timing of the device that keeps these apart. `Timely = TRUE` makes it explicit:

* `TimelyRefill`: a sequence number is not used again while a notification with
  it waits (256 numbers, 1.5 s);
* `TimelyAnswer`: nor while an answer to its former owner is on its way;
* `TimelyMark`: a frame with the number of a notification arrives only when the
  send task is done with it (the peer answers what it has received; the send
  task has then to finish one `write` and one test);
* `TimelyPost`: a frame leaves the mailbox within the 500 ms of a retry (16
  frames of 140 bytes at 115200 baud take 0.2 s).

`Timely = FALSE` drops all four. `FreshPoll` is what `malloc` left in the poll
field of a new buffer: `uart_protocol_dispose` sets only `type`. The runs and
proofs take it with `times` and `free_flag` zero (`CleanPoll`) and anything in `delay` and `type`. (With
other contents the first notification of a buffer can be taken for an answered one and
be dropped unsent: `times` and `free_flag` not zero are all it needs.)

### Runs

| run | instance | shows |
|---|---|---|
| `uart_timely` | 2 producers + receiver, 2 buffers, mailbox 2, 3 tries, time-out after 2 passes, numbers mod 3, timely | `TypeOK`, `BufferOwnership`, `Discipline`, `PollNeverBlocks`, `NtfFate`, `ImplementsDelivery`: 924 k states |
| `uart_live` | 1 producer, 2 tries, mailbox of 1 for 2 buffers, timely, fair | `BuffersReturn`; `FramesMove`: no deadlock between mutex and mailbox, every pass ends |
| `uart_late_answer` | 1 producer, not timely | violates `RepliesOnly` |
| `uart_upload_marks` | uploads numbered like notifications | violates `FlagMeansAnswered` |

Bounds. Two buffers are enough for every interference the code has: an entry and
its successor on the list, an entry on the list and one in the mailbox, a buffer
recycled and taken again while another waits; `Discipline` is proved for any
number. `SnMod = 3` lets a number come back while the peer still answers.
`PollLimit / PollStep = 2` gives a pass that waits and one that times out.
`PeerSn` has one number that collides with the gateway's. In `uart_timely`
`UploadSn = {9}` never collides: that an upload collides is the finding. `posts`
needs no bound: a buffer is posted at most `MaxTimes` times before it returns, and
in the runs without `Timely` `status` ends the behaviours that would exceed it.

Fairness. `WF(PollTask)` and `WF(SendTask)`: both tasks are endless loops that
block only on the mailbox. `SF(Link(t))` and `SF(RecvUploadMark)`: they wait for the
mutex, which the poll task releases for 5 ms in every pass; a thread that
waits for it gets it in one of them. Nothing is assumed of the producers, of
the peer, or of the line.

### What the sender promises: `Delivery.tla`

`Delivery` is the sender without its machinery: no pool, no poll field, no passes and no
tasks. A frame is submitted in an unused slot; it is transmitted in its turn, a reply
once, a notification until its answer is seen or it has been transmitted `MaxTries`
times; a slot is used again only when its frame is neither waiting nor on its way to the
line. `UartDelivery.tla` maps `UartSend` to it: the send list is the queue, with `posts` and
`answered` of each entry; the mailbox and the frame that the send task is writing are the
line. `ImplementsDelivery` (run `uart_timely`) says that every behaviour of `UartSend` is one
of `Delivery`; the steps of the two tasks that move no frame are stutters. It
contains what would be single properties otherwise: first posts keep the order of the
list, across passes and retries; nothing is posted after its answer was seen or beyond
its tries; a reply is posted once; the content of a frame does not change before its
write has ended; and no listed frame disappears without a reason.

### Findings

* **`RepliesOnly`** (`uart_communicat.c:65`). When the answer to a notification is
  marked between the write and the send task's look at `free_flag`, the send
  task zeroes the poll field and recycles a buffer that is still linked. The next
  pass reads `type = 0`, posts it as a reply and recycles it again.
* **`FlagMeansAnswered`** (`uart_protocol.c:549`). The marking loop also runs for
  `CMD_HTTP_UP_DATA`, a command of the peer with the peer's numbering; it stops the
  retries of a notification that nobody answered.

### Proofs

`QueueLemmas.tla`: elements of a sequence after Append, Tail and RemoveAt, that these keep
injectivity, and what they do to a queue whose entries stand for something else (`Mapped`,
for the refinement). `UartSendProofs.tla`, for any pool, mailbox, threads, numbers and retry
constants:

* **`TypeCorrect`**, `Spec => []TypeOK`, without assumptions on timing or memory.
* **`DisciplineHolds`** (from here on `Timely` and `CleanPoll`). `BufferOwnership` is not
  inductive: that the send task recycles only what is nowhere else depends on the poll
  fields. `Discipline` says which fields a buffer has in each place: idle buffers are clean
  (`IdleClean`); a buffer that is nowhere is a posted reply with its flag up (`PostedReply`);
  a linked reply is not queued (`LinkedReply`); a linked notification with its flag up is
  posted and not queued, and one that was never counted is queued only between the post and
  `times++` (`LinkedNtf`); and what the poll task knows at its cursor between two steps
  (`AtCursor`). The proof has one lemma for each way a step changes the queues
  (`ProduceStep`, `LinkStep`, `MarkStep`, `AtEntry`, `UpdateStep`, `PostStep`, `UnlinkStep`,
  `ReleaseStep`), then one step per action.
* **`OwnershipHolds`**: `Discipline => BufferOwnership`.
* **`PollNeverBlocksHolds`**: with `NumBuf <= MaxMsg`, mailbox entries are distinct buffers
  and the one about to be posted is not among them, so there is a place. The program has 16
  and 16.
* **`NtfFateHolds`** and **`DeliveryHolds`**, which is `ImplementsDelivery`. `Discipline` knows
  nothing of the history, so these need a second invariant, `Record`: the numbers of
  notifications that are not back in the pool differ (`Numbers`); entries the pass has gone by
  have been posted (`Passed`); the type of a held or listed buffer is that of its frame
  (`KindOfType`); for a listed notification `posts` is `times`, but for the steps between a post
  and its count, and its flag is up if and only if it was answered (`Counted`); what is held,
  and a reply still listed, has not been posted (`Unposted`); what is on its way or may be
  answered was (`OutIsPosted`); and what has left list, hands and pool is a reply
  (`GoneIsReply`). `DeliveryInit` maps the initial states, and `StepDelivers` each step to one of
  `Delivery` or to a stutter: `Link` submits, a post transmits, the first mark of an answer
  is `SeeAnswer`, an unlink `Dismiss`, the end of a write `Finish`.
* **`FlagsHold`**: `FlagMeansAnswered` and `RepliesOnly` hold under the same conditions.

`Record` has one hypothesis beyond `Timely` and `CleanPoll`: `[]UploadsApart`, that no upload
is handled whose number is that of a notification waiting for its answer. Without it
`Counted` is false, and that is the finding `FlagMeansAnswered`; a peer whose uploads come when
nothing waits, or which numbers them elsewhere, as in run `uart_timely`, satisfies it.

The liveness properties are only model-checked.

### Inside `uart_protocol_dispose`: `UartDispose.tla`

`DisposeFill` takes, numbers and fills a buffer in one step. The code does it through
`static Respdata` (line 53), which every thread writes, with `uart_send_sn++` in between
(line 73), and without a lock. `UartDispose` has one action per access: `Take`, `Point`,
`WriteHead`, `WriteSn`, `Increment`, `WriteBody`, `WriteSum`, `Link`. Each write goes through the
pointer as it is now or through the caller's own value of it (`Target`), since a compiler may
do either; the number is read once or twice. A field holds the production that wrote it,
so that the properties can say whose it is. `BuildReply` is a reply of `uart_recv_tsk`, which
has pointers of its own, and `Leave` an entry whose buffer is recycled.

That frames of overlapping calls are mixed up, or get one number, is a fact of the code.
Run `dispose` (2 callers beside the replies, 2 buffers, 4 productions; 2.7 M states: a caller
stuck in mid-frame while the other's buffer is recycled and used again) shows where the
damage ends:

* `OwnBufferLinked`: each call links the buffer it took, once, with its own poll type;
* `AloneIntact`: a frame whose production ran beside no other is complete and its own, for as
  long as it is listed: a pointer left over from an earlier call never reaches it;
* `AloneNumbersGrow`: a call that ran alone has a higher number than all before it that did: a
  late store of the counter is never behind one of them.

This is what `DisposeFill` of `UartSend` takes for granted for calls that do not overlap; for
calls that do, `UartSend` still has the buffers right (`OwnBufferLinked`), not the
contents. Proved for any number of callers, buffers and productions
(`UartDisposeProofs.tla`): **`DisposeOwnBufferLinked`**, **`DisposeAloneIntact`**,
**`DisposeAloneNumbersGrow`**, and the types. The inductive invariant `DisposeInv` adds where a
buffer can be and which production has it (`Places`), that the pointer has left the
listed frames of calls that ran alone (`Left`), how far such a call has come
(`Progress`, `AloneRules`), and that a number that was read but not stored yet is
already above those of such calls (`Numbers`).

## 3. The list ring: `ListRing.tla`

`UartSend` and `Hid` speak of sequences where the program has rings of pointers.
`ListRing` has the functions of `list.c` as operators on a heap (the `next` and
`prev` of every node), assignment by assignment, and what the pool and the walk of
`uart_poll_tsk` do with them. `IsList(h, head, s)` says that heap `h` holds the
sequence `s` behind `head`: both pointer directions agree with it and no node
occurs twice. There is no state machine here, hence no run: the second part of `QueueLemmas.tla`
proves for every heap and list that `list_add_tail` is `Append` (**`AddTail`**),
`list_del` is `RemoveAt` (**`DelAt`**), the pool is a FIFO (**`PoolIsQueue`**), and that
`p = p->next; list_del(p->prev)` leaves `p` where `UartSend` has its `cursor`
(**`WalkUnlinks`**). The hypothesis of `AddTail`, that the node is not in the list, is
what `BufferOwnership` guarantees. All users of a list hold its mutex, so each
operation is one step.

## 4. The receiver: `UartFrame.tla`

| code | definitions |
|---|---|
| `uart_get_data`: statics `proctol_start`, `recv_len`, `data_len`, `uart_recv_buf` | variables of the same names |
| one byte: skipped, header, body | `SkipByte`, `HeaderByte`, `BodyByte` |
| limit on the length, reset | `TooLong`, `Restart` |
| `procotol_check`, `check_sum_cal` | operators of the same names; a frame that passes goes to `handled` |
| the peer and the line | `PeerSends`, `LoseByte`, `AddByte` |

Each byte on the line knows its frame and position, so that the properties can say
which frame was delivered. Run `frame` (bytes of 3 bits, length limit 6, buffer 9, up to
3 frames of 4 kinds, up to 2 faults anywhere, any added byte; 2.1 M states):

* `CleanLine`: without faults exactly the frames sent are handled, in order, also
  those with head bytes, or what looks like a frame, inside;
* `WithinBuffer`: `uart_recv_buf` is never overrun;
* `InStepAgain`: a fault costs no frame that starts more than `HeaderLen + MaxLen`
  bytes after it. The bound is tight. It needs frames without head bytes inside: with
  them nothing bounds the loss, as there is no time-out between bytes.

A three-bit byte keeps what matters: lengths above and below the limit exist, checksums
wrap and collide, and the head byte is a possible length, checksum and datum.
The system may stop when the frames are used up, so deadlock is not checked.

Proved (`UartFrameProofs.tla`), for every byte width, limit and buffer with
`MaxLen + HeaderLen <= RecvBuf` (129 + 3 <= 136 in the code), any number of frames and faults:

* **`WithinBufferHolds`** and **`FrameTypeCorrect`**, for every stream of bytes. `BufferInv` adds
  to `WithinBuffer` that the bytes are bytes: then the two length bytes are a natural
  number, `TooLong` bounds it, and a body byte moves one from `data_len` to `recv_len`.
* **`CleanLineHolds`** and **`InStepAgainHolds`**, for frames that `procotol_check` accepts
  (`FramesValid`: head byte, a length that is right and not too long, checksum; the frames a
  peer sends are such, and a peer that sends others has them refused by design). Both rest on
  `Stream`, what the bytes on the line and in the buffer are: the line holds the stream from
  `Taken + 1` on, in order and without a gap behind the last fault (`Line`), and each frame
  sent was one of the peer's, lies between its neighbours, and no byte of it lies elsewhere
  (`Frames`). `Clean` then follows the parser on a line without faults: it holds a beginning of
  the first frame not handled yet, or stands right before it. `Again` follows it behind a fault,
  when no frame has the head byte inside: it is in a frame that began behind the fault, or
  what it has in the buffer began before, and then it ends within `HeaderLen + MaxLen` bytes, so
  that a frame that starts later is still ahead, being received, or handled (`Kept`). The
  checksum needs no induction: the buffer becomes byte for byte the frame (`FramePrefix`,
  `WholeFrame`), whose checksum was right when it was sent.

## 5. The HID readers: `Hid.tla`

| code | actions |
|---|---|
| `open_hid` | `CheckSlot` (`do_check`), `OpenFile`: one device name (`slot`) after the other, with devices that come and go in between |
| `hid_reopen_read_tsk` | `IdentifyHid` (`set_hid`, `find_hid_type`), `HidInsert`, `HidProduce`, `HidRead`, `HidReadError`, `HidPullout`, `HidPost` |
| `hid_timer_tsk` | `TimerTick` |
| `hid_data_tsk` | `DataTake`, `DataReset`, `DataChar`, `DataEnter`, `DataOther`, `DataRecycle`; after a millisecond without report `DataTimeout`, `DataCheck`, `DataRestart` |
| devices and users | `Plug`, `Unplug`, `HidRead(kind)`, `EndScan` |

A report is its index in `emitted`, where its kind (a character, Enter, or a code
that `hid_id_tab` does not have), its scan and its session (plugging) are recorded;
`ntfs` records what was handed to `uart_protocol_dispose`. An empty pool ends the process
(`status = "exit"`), an overrun of `hid_key_buf` is `status = "corrupt"`.

Timing assumptions, in force when `Timely` holds: the reports of a scan come less
than `HID_TIME_OUT` apart and are posted at once (`TimelyTick`), a user pauses after a
scan without Enter (`TimelyScan`), a reader is pulled out between scans and not while
it is being opened (`TimelyUnplug`), and the data task is never a whole pool
behind (`TimelyData`).

| run | instance | shows |
|---|---|---|
| `hid_timely` | 4 reports, 2 pluggings, types 0-2, time-out of 2 ticks, gaps of 1; 2.9 M states | `ScanWhole`: a "data" notification holds the characters of one scan, all of them; `ReportsInSession`: with the type of its device, between its insertion and its pull-out; `ScanFits`: `hid_key_buf` is overrun only by a scan that is itself too long for it |
| `hid_any` | 2 reports, 2 pluggings, 2 buffers, 2 device names, no assumptions, fair; 264 k states | `TypeOK`; `KeysInOrder`: no character lost, repeated or overtaken; `BuffersAccounted`: no leak on any path, and the pool is exhausted before the mailbox; `KeysReported`: what is in the mailbox is reported, Enter or not; `ReaderServed`: a known device with no other name in use before its own is opened, whatever failed before |

Four reports give two scans of two characters, which together overrun the `hid_key_buf` of
three bytes in `hid_timely`, while each fits with the zero that ends it; two buffers and two reports suffice
to exhaust the pool (the reader holds one more) and to fill `hid_key_buf`. Two
names give a device behind another, known or not. Fairness: weak, of the data task, the
timer and the steps of the reader task outside `read`, which never block for good.

`ReaderServed` promises no more than the code keeps: an unknown device at the first name is
opened and closed for ever and hides the others (`usb.c:36`). A name that could not be
opened stays in `absolute_file_name` (`usb.c:42`) and spoils the later names of the same
call, but not the next call.

Without the assumptions `ScanWhole` and `ReportsInSession` are false: a pause splits a scan, two
quick scans are joined (and may overrun `hid_key_buf` together: only an Enter ends a scan in
`hid_any`, so `ScanFits`, which is not checked there, would take them for one), a reader that goes while it is identified has any type (`usb_communicat.c:88`), keys still queued at a pull-out are reported
afterwards, as those of the next device. The code has nothing to tell these apart;
no document promises it.

Proved (`HidProofs.tla`) for any number of buffers, devices, reports and every time-out:

* whatever the timing, **`HidTypeCorrect`**, **`BuffersAccountedHolds`** and
  **`KeysInOrderHolds`**. The account of the buffers needs to know what each task holds where
  it is (`Hands`). The order of the characters is that of their indices, so `KeysInv` says where
  the indices are: the mailbox is a run of consecutive ones that ends at the last report
  posted (`Marks`), the strings and `hid_key_buf` rise and follow one another (`Strings`), and
  every character treated is in one of them (`Covered`).
* with `Timely`, **`ScanWholeHolds`**, **`ScanFitsHolds`** and **`ReportsInSessionHolds`**. `ScansInv` adds that what
  is not treated yet goes on where `hid_key_buf` ends, in the same scan or behind an Enter, and
  that scans reported are over; `Quiet`, that the timer is not ahead of the reader's gap while
  more of a scan is to come, so that the time-out waits for it. `ScanFits` follows: `hid_key_buf` holds different characters
  of one scan (`BufferOfScan`), and only the step from a full one overruns it (`OverrunFull`),
  for a buffer of any size. `SessionInv` adds that all that
  is pending belongs to the device that is open, whose insertion was the last notification
  that is not a string.

## 6. The web service and the boot: `Server.tla`

`main` boots (`TimeRequest`, `TimeParse`, `TimeZone`, `TimeValid`, `TimeJudge`, `PoweronDone`, `NetStateInit`,
`ContextInit` for each `*_context_init`) and then asks for the time every minute (`Minute`);
`uart_recv_tsk`, which exists once the UART context does, uploads records (`UploadBegin`,
`PostRequest`, `PostParse`, `PostJudge`, `PostResult`: three tries) and answers the peer's
question for the time (`SyncClock`, `SyncByte`, `TimeSync`). They share
`net_state[3].err` and `time` (is the clock set, `timezone`, `time_valid`), which
`get_time_parse` sets and `time_sync_rsp` reads one by one; `heart_err_time` is `main`'s own. The server answers with one of
the kinds of body that the callbacks tell apart, or not at all; a transfer may also
fail after its callback has run. `curl_easy_init` is assumed to succeed.

Run `server` (all bodies; 124 k states, complete as it stands):

* `OnlineMeansContact`: the server is not reported on line after three failed requests in
  a row, unless an upload succeeded since, however the two threads overlap;
* `OfflineMeansFailure`: nor off line when the last request of either thread has succeeded.
  Two exceptions are in the code: the third try of an upload puts the server off line before
  its result is looked at (line 254), until `PostResult`; and `NetStateInit` forgets what the
  server answered at boot (`last` counts from there);
* `ResultsHonest`: a failure is reported once, as the last result, and only if all tries
  failed; no other result without the server having the record;
* `SyncHonest`: an answer that calls its time valid has the server's zone, never half of it,
  and a clock that was set. One answer is excepted, as the code gives it: when the clock, the
  zone and `time_valid` are all set between its reading of the clock and that of
  `time_valid`, it calls the unset clock valid. The zone keeps its value after the first
  answer: a server that changes its zone could be read in halves;
* `UploadAnswered`: every upload ends, and with a result unless the transfer succeeds.
  The exception is in the code (line 260): a successful transfer whose body has no
  numeric `errno`, or no body, reports nothing, though line 263 says that the callback
  does.

Fairness: `CURLOPT_TIMEOUT` is 3 s, so a thread that has begun a transfer goes on.

Proved (`ServerProofs.tla`) for every set of bodies that the server may send:
**`ServerTypeCorrect`**, **`OnlineMeansContactHolds`**, **`OfflineMeansFailureHolds`** (inductive
with the types and `Boot`), **`ResultsHonestHolds`** and **`SyncHonestHolds`**. The invariant `Inv` has a part for each: `Heart`, that `heart_err_time`
counts at least the failures since the last success (an upload resets only the failures);
`Upload`, what has been sent so far of an upload under way (`Underway`) and that one that is
over stays what it was (`Over`); `Clock`, that the clock is set before the zone and the zone
before `time_valid`; `Answer`, that the answer reads `time_valid` before the zone; and `Boot`, that
`uart_recv_tsk` does not run before `sys_context_init` is over.

Also seen here: `main` and `uart_recv_tsk` can be in `cJSON_Parse` together, which the comment at
`http_protocol.c:69` rules out "by the structure of this project"; only a pointer that is
printed depends on it. `poweron` is cleared before the other contexts exist, so that
`drv_poweron_rsp` never answers 1; and the `memset` of `net_state` after the first
`get_time_Url` erases its result.

### Dates and zones: `RecordTime.tla`

`RecordTime` follows one day through `get_time_parse` (`ClockFrom`, `ZoneStored`), the clock,
`time_sync_rsp` (`ZoneBytes`), the peer's clock, and `http_up_data_rsp` (`DatePrinted`,
`ZonePrinted`). The calendar of the C library, `mktime` with its normalisation included, is
written out and external. Days pass (`NextDay`), the server is asked (`GetTime`), the peer takes
over an answer (`TimeSync`) and uploads (`Upload`), in any order.

The server's month goes into `tm_mon` as it is, so the clock is a month ahead; a record's
`tm_mon` is printed as it is, so a date that was taken and printed in one month comes out
right. Run `record_time` (each day of 2015 to 2017 as the first, two more days, four zones;
228 k states) says exactly when:

* `DateKept`: a record of the month in which the clock was set has the server's date if and
  only if it is not December and the next month has such a day: in December the upload
  has month 00 of the next year, and 29 to 31 January, 31 March, 31 May, 31 August and 31
  October become the first days of the next month;
* `ZoneKept`: the zone survives if and only if it is in whole hours and not west of Greenwich:
  two bytes make an `int` that is never negative, so the branches for zones west of it are dead
  and -0500 is uploaded as +3276300; and of a zone in hhmm half an hour is lost when it is
  stored (line 123: 530/50 is 10 half hours, five hours);
* `ClockSteady`: within a month the clock is never moved by another answer; after the
  end of one it moves by up to three days, either way. This is the step that
  `hid_data_tsk`, whose wait of 1 ms is an absolute time, has to live with.

Three years, one of them with a 29 February, contain each kind of month and year end; two
days cross the end of a month.

Proved (`RecordTimeProofs.tla`) for every first year, any days, any number of days that pass,
and all zones: **`DateKeptHolds`**, **`ZoneKeptHolds`**, **`ClockSteadyHolds`**. The argument has
three layers.

* The calendar. The first day of a month is written in closed form (`FirstDayOf`, with the
  leap years counted by `Leaps`), so that it needs no recursion. `FirstDayNext` shows that a
  month begins where the one before ends, over the ends of years and centuries too; `FirstDayBounds` and
  `FirstDayRises`, that months rise by 28 to 31 days each; `MonthOfDay` and `MonthUnique`, that
  each day is in one month and in no other. Induction over the months goes by the least
  counterexample (`Least`, from the well-foundedness of `<`).
* The conversions. A clock that was set by the server's answer of a day is ahead by the length
  of that day's month (`AheadIs`), hence `SetAgain`; what is printed of it later in the month is
  the date if the next month has the day and the same year (`DateComesBack`); and a zone comes
  back from two bytes if it is even in half hours and not negative (`ZoneComesBack`).
* The state. `Dates` says that both clocks and the record are ahead since the day of their
  setting, `ZoneSame` how far the zone has come; each is inductive.

All of this takes the gateway to run with `TZ=UTC`: `mktime`
(`http_protocol.c:109`) reads the server's date as local time, while `gmtime`
(`uart_protocol.c:369`) prints the record's in UTC, so with another `TZ` the time of day would
be shifted, and the day with it near midnight. Nothing in the repository sets `TZ`.

The one assumption on a zone is that it is below 50 * 65536, so that its half hours fit two bytes: a
zone of four digits is. These are statements about the code, not findings: no document
says which month the clock should have.

## 7. The links: `NetState.tla`

| code | actions |
|---|---|
| `net_detect_tsk` | `Look`, `LookUnclear`, `LinkUp`, `WaitAddress` (`check_dhcp_state`), `LinkReady`, `LinkDown`, `LinkError`, for the LAN and then for WiFi |
| `read_wifi_param` without a file | `DiskCourse`, `DiskError` |
| `que_sta_rsp` | `QueryCourse`, `QueryError`: the entry is copied byte by byte |
| cable, access point, DHCP | `LinkChanges`, `AddressChanges` |

Every write of a field of `net_state` is a step. `known` records what the last look
said, until the link changes or another thread writes the entry. Run `net` (two changes
of the links, any number of changes of addresses, disks and queries; 220 k states):

* `SeenMeansTold`: apart from the link the task is busy with, an entry says what was
  seen: up is course 2, down is course 0 with an error. Proved for any number of
  changes (**`SeenMeansToldHolds`**, `DetectionProofs.tla`; the invariant needs what the task
  knows while it is busy, `Midway`);
* `LinksReported`: when links and disk have come to rest the entries become right,
  provided that the task does not stay in a wait for an address. That proviso is the
  hazard at `net.c:210`: a cable pulled out during the wait is not noticed, and the other
  link is not looked at. The course of a link that works is 1 for a moment in
  every pass (`net.c:208`), so the property asks for "now and then 2".

Fairness: the tasks run (weak); the tools give a clear answer for each link
now and then (strong, `Look`).

Also seen here: `err` is never cleared, so after one disconnection a query finds course 2
("DHCP succeeded", line 217) with error 1 ("cable disconnected", line 227). No line says what
the two mean together, so this is an observation.

## 8. The U-disk: `Udisk.tla`

`Check`, `MountFails`, `Mount`, `Insert`, `ReadParam`, `Gone`, `Umount`, `Pullout` are the steps
of `udisk_tsk`; disks of three kinds (with parameters, without, not mountable) are
plugged and pulled (`Plug`, `Pull`) between any two of them. Run `udisk` (2 names, 3 disks;
27 k states; two names give one in use and one waiting, three disks a swap
with a third beside it):

* `PeerBelieves`: what the peer was told, `g_udisk` and the mount points agree at every step.
  Proved for any number of names and disks (**`PeerBelievesHolds`**, **`UdiskTypeCorrect`**,
  `DetectionProofs.tla`, which extends `NetState` too): with the types it is inductive as it stands;
* `DiskServed`: a good disk that stays, with no other good one beside it, is told, and
  its parameters are taken: bad disks do not hide it. The exception is a disk swapped
  in for a mounted one before the task looked at the device file (`swapped`); it is not
  served and keeps others waiting. The task does not look while it reads the
  parameters, which restarts the network: seconds;
* `PulloutTold`: disks that are out for good are unmounted and told.

Fairness: weak, of the task. `umount` is assumed to succeed (the gateway keeps no file open).

## 9. Plan

In this order: the sender, its proofs and its ring; the receiver; the readers; the web service;
the links; the U-disk; then the abstract `Delivery` and its refinement, the accesses of
`uart_protocol_dispose`, the time in `Server`, `RecordTime`, and the device names of the
readers.

The theorems: ownership and types of the sender; the ring; the buffer of the receiver; the
accesses of `uart_protocol_dispose`; the links; then `NtfFate` and the refinement of `Delivery`,
the readers, the web service, the frames of the receiver, the U-disk; and last the calendar with
the dates and zones, and `OfflineMeansFailure`.

Nothing is left of the plan. That a frame is posted at most `MaxTimes` times is no property of its own: it is part of
`ImplementsDelivery`. A process that is restarted would be the next thing to model, once
somebody has said what it may expect of the mailboxes it finds.

## 10. What is only model-checked, and what is not modelled

Liveness (`BuffersReturn`, `FramesMove`, `KeysReported`, `ReaderServed`, `UploadAnswered`,
`LinksReported`, `DiskServed`, `PulloutTold`) is out of the prover's reach and stays with TLC.
Everything else that a passing run checks is also proved: every invariant, the action
properties, and the refinement.

Not modelled, and why:

* a process that is restarted: `/mq_uart` and `/mq_hid` outlive it with pointers of the former
  process in them. Nothing in the repository restarts the process or says what it may
  expect then, and using such a pointer is undefined;
* the rest of a frame after a short `write` (line 57): it is read from behind the buffer and
  means nothing to the peer; the frame counts as lost;
* what a record holds apart from its date and zone, `print_ask`, the version numbers of
  `drv_poweron_rsp`, the MAC address and the domain, which are read once at boot;
* vendored cJSON; termios settings (`uart.c`); the key file (`key_file.c`, a wrapper of glib);
  shell commands; generated build files;
* the dormant TCP client and the WiFi scan: nothing starts or calls them, so that no
  behaviour of the program contains a step of theirs.
