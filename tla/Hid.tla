-------------------------------- MODULE Hid --------------------------------
(***************************************************************************)
(* The HID readers (card reader, bar code scanner) of usb_communicat.c:    *)
(*   - hid_reopen_read_tsk opens a device, reads its reports into buffers  *)
(*     of g_hid_buf and posts them to /mq_hid;                             *)
(*   - hid_data_tsk turns reports into characters of hid_key_buf and       *)
(*     reports a string at Enter, or after HID_TIME_OUT ticks of silence;  *)
(*   - hid_timer_tsk counts the ticks.                                     *)
(* The devices are the environment: they come and go, and send reports in  *)
(* scans, one scan being what a user passes over the reader.  A report is  *)
(* the index of its entry in `emitted'.                                    *)
(***************************************************************************)
EXTENDS Integers, SequencesExt

CONSTANTS
    NumBuf,        \* buffers of g_hid_buf (16 in hid_context_init)
    MaxMsg,        \* capacity of /mq_hid (16 in hid_context_init)
    KeyBuf,        \* size of hid_key_buf (128)
    HID_TIME_OUT,  \* ticks of 1 ms (10)
    NumSlots,      \* names of possible_hid (3: hidraw0, hidraw1, hidraw2)
    Gap,           \* ticks a reader leaves between two reports of a scan
    Types,         \* what find_hid_type returns: 0 for an unknown product
    MaxKeys, MaxPlugs,  \* bounds: reports sent, devices plugged in
    Timely         \* the timing assumptions TimelyTick ... TimelyUnplug hold

ASSUME BoundsAssumption ==
    /\ {NumBuf, MaxMsg, KeyBuf, NumSlots, HID_TIME_OUT, MaxKeys, MaxPlugs} \subseteq Nat \ {0}
    /\ Gap \in 0 .. HID_TIME_OUT - 1
    /\ Types \subseteq Nat /\ Timely \in BOOLEAN

VARIABLES
    status,              \* "running", "exit" (ERROR) or "corrupt" (hid_key_buf overrun)
    devs, slots,         \* types of the devices plugged in so far; the device, a place in
                         \* devs, or NoDev of each name
    emitted, inScan,     \* reports sent so far; is a scan under way
    gap,                 \* ticks since the last report of the scan was posted
    rdPc, fd, rdKey,     \* hid_reopen_read_tsk: where it is, device open, report read
    slot, spoiled,       \* open_hid: its loop; has absolute_file_name the name of a slot
                         \* that could not be opened
    hid_dev_type,
    free, mq,            \* g_hid_buf: number of free buffers; /mq_hid
    dataPc, dataKey,     \* hid_data_tsk: where it is, report taken
    hid_key_buf,         \* its first hid_key_length entries
    timer,
    ntfs                 \* notifications handed to uart_protocol_dispose

env == <<devs, slots, emitted, inScan, gap>>
opening == <<slot, spoiled>>
reader == <<rdPc, fd, rdKey, opening, hid_dev_type>>
data == <<dataPc, dataKey, hid_key_buf>>
vars == <<status, env, reader, free, mq, data, timer, ntfs>>

NoKey == 0
Kinds == {"char", "enter", "other"}   \* "other": not in hid_id_tab, as a key release
NoDev == 0
Slots == 0 .. NumSlots - 1
Present(d) == d # NoDev /\ \E s \in Slots : slots[s] = d
Scan == IF emitted = <<>> THEN 0 ELSE Last(emitted).scan

Ntf(cmd, type, keys) == [cmd |-> cmd, type |-> type, keys |-> keys, session |-> fd]

Init ==
    /\ status = "running"
    /\ devs = <<>> /\ slots = [s \in Slots |-> NoDev]
    /\ emitted = <<>> /\ inScan = FALSE /\ gap = 0
    /\ rdPc = "open" /\ fd = 0 /\ rdKey = NoKey /\ hid_dev_type = 0
    /\ slot = 0 /\ spoiled = FALSE
    /\ free = NumBuf /\ mq = <<>>
    /\ dataPc = "pend" /\ dataKey = NoKey /\ hid_key_buf = <<>>
    /\ timer = 0 /\ ntfs = <<>>

-----------------------------------------------------------------------------
(* The timing assumptions, in force when Timely is TRUE.                     *)

\* Nothing of former scans is under way.
Drained == rdKey = NoKey /\ mq = <<>> /\ dataPc = "pend" /\ hid_key_buf = <<>>

\* A reader sends the reports of a scan less than HID_TIME_OUT apart, they are
\* posted at once, and less than a tick passes between the end of a wait and
\* the look at the timer.
TimelyTick ==
    Timely => /\ inScan => gap < Gap
              /\ rdPc # "post" /\ dataPc # "check"

\* The user pauses after a scan without Enter, ...
TimelyScan ==
    Timely /\ ~inScan /\ emitted # <<>> =>
       Last(emitted).kind = "enter" \/ Drained

\* ... and pulls the reader out between scans, and not while it is opened.
TimelyUnplug == Timely => ~inScan /\ Drained /\ rdPc \notin {"openfile", "identify", "insert"}

\* The data task is never NumBuf - 1 reports behind.
TimelyData == Timely => free > 0

-----------------------------------------------------------------------------
(* The environment.                                                          *)

\* The kernel gives a device the first name that is free.
Plug(type, s) ==
    /\ status = "running" /\ Len(devs) < MaxPlugs
    /\ slots[s] = NoDev /\ \A t \in 0 .. s - 1 : slots[t] # NoDev
    /\ devs' = Append(devs, type) /\ slots' = [slots EXCEPT ![s] = Len(devs')]
    /\ UNCHANGED <<status, emitted, inScan, gap, reader, free, mq, data, timer, ntfs>>

Unplug(s) ==
    /\ status = "running" /\ slots[s] # NoDev /\ TimelyUnplug
    /\ slots' = [slots EXCEPT ![s] = NoDev]
    /\ UNCHANGED <<status, devs, emitted, inScan, gap, reader, free, mq, data, timer, ntfs>>

\* A scan ends without Enter, which only the timing assumptions look at.
EndScan ==
    /\ status = "running" /\ Timely
    /\ inScan /\ inScan' = FALSE
    /\ UNCHANGED <<status, devs, slots, emitted, gap, reader, free, mq, data, timer, ntfs>>

-----------------------------------------------------------------------------
(* hid_reopen_read_tsk.                                                      *)

\* NextSlot that begins again after the first name.
NextSlotFirst(bad) == slot' = 0 /\ spoiled' = FALSE

\* The next name of the loop; after the last one open_hid returns without a device
\* and is called again, with a new absolute_file_name.
NextSlot(bad) ==
    /\ slot' = (slot + 1) % NumSlots
    /\ spoiled' = (bad /\ slot' # 0)

\* open_hid: do_check, ...
CheckSlot ==
    /\ status = "running" /\ rdPc = "open"
    /\ IF slots[slot] = NoDev
       THEN NextSlot(spoiled) /\ rdPc' = rdPc
       ELSE rdPc' = "openfile" /\ UNCHANGED opening
    /\ UNCHANGED <<status, env, fd, rdKey, hid_dev_type, free, mq, data, timer, ntfs>>

\* ... and open, which fails if the device has gone since.  The names of later slots
\* are then appended to this one, and cannot be opened either.
OpenFile ==
    /\ status = "running" /\ rdPc = "openfile"
    /\ IF slots[slot] # NoDev /\ ~spoiled
       THEN /\ fd' = slots[slot] /\ rdPc' = "identify"
            /\ slot' = 0 /\ spoiled' = FALSE
       ELSE NextSlot(TRUE) /\ fd' = fd /\ rdPc' = "open"
    /\ UNCHANGED <<status, env, rdKey, hid_dev_type, free, mq, data, timer, ntfs>>

\* IdentifyHid that leaves hid_dev_type as it was.
IdentifyHidStale ==
    /\ status = "running" /\ rdPc = "identify"
    /\ hid_dev_type' = IF hid_dev_type = 0 THEN devs[fd] ELSE hid_dev_type
    /\ IF hid_dev_type' = 0
       THEN fd' = 0 /\ rdPc' = "open"
       ELSE fd' = fd /\ rdPc' = "insert"
    /\ UNCHANGED <<status, env, rdKey, opening, free, mq, data, timer, ntfs>>

\* What set_hid and find_hid_type may come to.  The ioctl of a device that has gone
\* leaves `product' uninitialised.
TypesFound == IF Present(fd) THEN {devs[fd]} ELSE Types

\* The type of an unknown product is stored too, and the device closed.
IdentifyHid ==
    /\ status = "running" /\ rdPc = "identify"
    /\ hid_dev_type' \in TypesFound
    /\ IF hid_dev_type' = 0
       THEN fd' = 0 /\ rdPc' = "open"
       ELSE fd' = fd /\ rdPc' = "insert"
    /\ UNCHANGED <<status, env, rdKey, opening, free, mq, data, timer, ntfs>>

HidInsert ==
    /\ status = "running" /\ rdPc = "insert"
    /\ ntfs' = Append(ntfs, Ntf("insert", hid_dev_type, <<>>))
    /\ rdPc' = "produce"
    /\ UNCHANGED <<status, env, fd, rdKey, opening, hid_dev_type, free, mq, data, timer>>

\* The next buffer is taken before there is a report for it; an empty pool
\* ends the process.
HidProduce ==
    /\ status = "running" /\ rdPc = "produce" /\ TimelyData
    /\ IF free = 0
       THEN status' = "exit" /\ UNCHANGED <<free, rdPc>>
       ELSE status' = status /\ free' = free - 1 /\ rdPc' = "read"
    /\ UNCHANGED <<env, fd, rdKey, opening, hid_dev_type, mq, data, timer, ntfs>>

\* A report of the open device: of the scan under way, or the first of a new one.
\* Reports queued by the kernel are read after the device has gone.
HidRead(kind) ==
    LET scan == IF inScan THEN Scan ELSE Scan + 1 IN
    /\ status = "running" /\ rdPc = "read" /\ Len(emitted) < MaxKeys
    /\ TimelyScan /\ (Timely => Present(fd))
    /\ emitted' = Append(emitted, [kind |-> kind, scan |-> scan, session |-> fd])
    /\ inScan' = (kind # "enter")
    /\ rdKey' = Len(emitted') /\ rdPc' = "post"
    /\ UNCHANGED <<status, devs, slots, gap, fd, opening, hid_dev_type, free, mq, data, timer, ntfs>>

\* The pull-out without the recycling of the buffer.
HidReadErrorLeak ==
    /\ status = "running" /\ rdPc = "read" /\ ~Present(fd)
    /\ fd' = 0 /\ rdPc' = "pullout"
    /\ UNCHANGED <<status, env, rdKey, opening, hid_dev_type, free, mq, data, timer, ntfs>>

\* The read fails: the buffer goes back, the device is closed, ...
HidReadError ==
    /\ status = "running" /\ rdPc = "read" /\ ~Present(fd)
    /\ free' = free + 1
    /\ fd' = 0 /\ rdPc' = "pullout"
    /\ UNCHANGED <<status, env, rdKey, opening, hid_dev_type, mq, data, timer, ntfs>>

\* ... and its pull-out is reported.
HidPullout ==
    /\ status = "running" /\ rdPc = "pullout"
    /\ ntfs' = Append(ntfs, Ntf("pullout", hid_dev_type, <<>>))
    /\ rdPc' = "open"
    /\ UNCHANGED <<status, env, fd, rdKey, opening, hid_dev_type, free, mq, data, timer>>

HidPost ==
    /\ status = "running" /\ rdPc = "post" /\ Len(mq) < MaxMsg
    /\ mq' = Append(mq, rdKey)
    /\ rdKey' = NoKey /\ rdPc' = "produce" /\ gap' = 0
    /\ UNCHANGED <<status, devs, slots, emitted, inScan, fd, opening, hid_dev_type, free, data, timer, ntfs>>

-----------------------------------------------------------------------------
\* hid_timer_tsk.  Only timer >= HID_TIME_OUT matters: it is capped there.
TimerTick ==
    /\ status = "running" /\ TimelyTick
    /\ timer' = IF timer < HID_TIME_OUT THEN timer + 1 ELSE timer
    /\ gap' = IF inScan /\ gap < Gap THEN gap + 1 ELSE gap
    /\ UNCHANGED <<status, devs, slots, emitted, inScan, reader, free, mq, data, ntfs>>

-----------------------------------------------------------------------------
(* hid_data_tsk.                                                             *)

\* mailbox_timedpend returns a report, ...
DataTake ==
    /\ status = "running" /\ dataPc = "pend" /\ mq # <<>>
    /\ dataKey' = Head(mq) /\ mq' = Tail(mq)
    /\ dataPc' = "reset"
    /\ UNCHANGED <<status, env, reader, free, hid_key_buf, timer, ntfs>>

\* DataReset without timer = 0.
DataResetForgotten ==
    /\ status = "running" /\ dataPc = "reset"
    /\ dataPc' = "key"
    /\ UNCHANGED <<status, env, reader, free, mq, dataKey, hid_key_buf, timer, ntfs>>

\* ... and the silence starts anew.
DataReset ==
    /\ status = "running" /\ dataPc = "reset"
    /\ timer' = 0 /\ dataPc' = "key"
    /\ UNCHANGED <<status, env, reader, free, mq, dataKey, hid_key_buf, ntfs>>

\* Report without hid_key_length = 0.
ReportKept ==
    /\ IF Len(hid_key_buf) < KeyBuf
       THEN status' = status
       ELSE status' = "corrupt"
    /\ ntfs' = Append(ntfs, Ntf("data", hid_dev_type, hid_key_buf))
    /\ hid_key_buf' = hid_key_buf

\* The string in hid_key_buf is ended and reported.
Report ==
    /\ IF Len(hid_key_buf) < KeyBuf
       THEN status' = status
       ELSE status' = "corrupt"
    /\ ntfs' = Append(ntfs, Ntf("data", hid_dev_type, hid_key_buf))
    /\ hid_key_buf' = <<>>

DataChar ==
    /\ status = "running" /\ dataPc = "key" /\ emitted[dataKey].kind = "char"
    /\ IF Len(hid_key_buf) < KeyBuf
       THEN status' = status /\ hid_key_buf' = Append(hid_key_buf, dataKey)
       ELSE status' = "corrupt" /\ hid_key_buf' = hid_key_buf
    /\ dataPc' = "recycle"
    /\ UNCHANGED <<env, reader, free, mq, dataKey, timer, ntfs>>

DataEnter ==
    /\ status = "running" /\ dataPc = "key" /\ emitted[dataKey].kind = "enter"
    /\ Report
    /\ dataPc' = "recycle"
    /\ UNCHANGED <<env, reader, free, mq, dataKey, timer>>

\* DataOther that recycles the buffer, as the end of the loop does again.
DataOtherRecycles ==
    /\ status = "running" /\ dataPc = "key" /\ emitted[dataKey].kind = "other"
    /\ free' = free + 1
    /\ dataPc' = "recycle"
    /\ UNCHANGED <<status, env, reader, mq, dataKey, hid_key_buf, timer, ntfs>>

DataOther ==
    /\ status = "running" /\ dataPc = "key" /\ emitted[dataKey].kind = "other"
    /\ dataPc' = "recycle"
    /\ UNCHANGED <<status, env, reader, free, mq, dataKey, hid_key_buf, timer, ntfs>>

DataRecycle ==
    /\ status = "running" /\ dataPc = "recycle"
    /\ free' = free + 1
    /\ dataKey' = NoKey /\ dataPc' = "pend"
    /\ UNCHANGED <<status, env, reader, mq, hid_key_buf, timer, ntfs>>

\* A millisecond without a report: look at the timer, ...
DataTimeout ==
    /\ status = "running" /\ dataPc = "pend" /\ mq = <<>>
    /\ dataPc' = "check"
    /\ UNCHANGED <<status, env, reader, free, mq, dataKey, hid_key_buf, timer, ntfs>>

\* Silent at the first silent millisecond.
SilentAtOnce == TRUE

Silent == timer >= HID_TIME_OUT

\* DataCheck that restarts the timer after every wait.
DataCheckRestarts ==
    /\ status = "running" /\ dataPc = "check"
    /\ IF Silent /\ hid_key_buf # <<>>
       THEN Report
       ELSE UNCHANGED <<status, hid_key_buf, ntfs>>
    /\ dataPc' = "restart"
    /\ UNCHANGED <<env, reader, free, mq, dataKey, timer>>

DataCheck ==
    /\ status = "running" /\ dataPc = "check"
    /\ IF Silent /\ hid_key_buf # <<>>
       THEN Report
       ELSE UNCHANGED <<status, hid_key_buf, ntfs>>
    /\ dataPc' = IF Silent THEN "restart" ELSE "pend"
    /\ UNCHANGED <<env, reader, free, mq, dataKey, timer>>

\* ... and count from zero.
DataRestart ==
    /\ status = "running" /\ dataPc = "restart"
    /\ timer' = 0 /\ dataPc' = "pend"
    /\ UNCHANGED <<status, env, reader, free, mq, dataKey, hid_key_buf, ntfs>>

-----------------------------------------------------------------------------
\* The steps of hid_reopen_read_tsk that do not wait for a report.
ReadSteps ==
    \/ CheckSlot \/ OpenFile \/ IdentifyHid \/ HidInsert \/ HidProduce \/ HidPost
    \/ HidReadError \/ HidPullout

ReadTask == ReadSteps \/ \E kind \in Kinds : HidRead(kind)

DataTask ==
    \/ DataTake \/ DataReset \/ DataChar \/ DataEnter \/ DataOther \/ DataRecycle
    \/ DataTimeout \/ DataCheck \/ DataRestart

Halted == status # "running" /\ UNCHANGED vars

Next ==
    \/ \E s \in Slots : Unplug(s) \/ \E type \in Types : Plug(type, s)
    \/ EndScan
    \/ ReadTask \/ TimerTick \/ DataTask
    \/ Halted

\* The threads run.  Nothing is assumed of the devices: the reader may wait for a
\* report for ever.
Spec == Init /\ [][Next]_vars
FairSpec == Spec /\ WF_vars(DataTask) /\ WF_vars(TimerTick) /\ WF_vars(ReadSteps)

-----------------------------------------------------------------------------
(* Properties.                                                               *)

Reports == [kind : Kinds, scan : Nat, session : DOMAIN devs]
Notices == [cmd : {"insert", "pullout", "data"}, type : Types \cup {0},
            keys : Seq(DOMAIN emitted), session : 0 .. Len(devs)]

TypeOK ==
    /\ status \in {"running", "exit", "corrupt"}
    /\ devs \in Seq(Types) /\ slots \in [Slots -> 0 .. Len(devs)]
    /\ emitted \in Seq(Reports)
    /\ inScan \in BOOLEAN /\ gap \in 0 .. Gap
    /\ rdPc \in {"open", "openfile", "identify", "insert", "produce", "read", "post", "pullout"}
    /\ fd \in 0 .. Len(devs) /\ rdKey \in 0 .. Len(emitted)
    /\ slot \in Slots /\ spoiled \in BOOLEAN
    /\ hid_dev_type \in Types \cup {0}
    /\ free \in 0 .. NumBuf /\ mq \in Seq(DOMAIN emitted)
    /\ dataPc \in {"pend", "reset", "key", "recycle", "check", "restart"}
    /\ dataKey \in 0 .. Len(emitted) /\ (dataPc = "key" => dataKey # NoKey)
    /\ hid_key_buf \in Seq(DOMAIN emitted)
    /\ timer \in 0 .. HID_TIME_OUT
    /\ ntfs \in Seq(Notices)

IsChar(i) == emitted[i].kind = "char"
Rising(keys) == \A i, j \in DOMAIN keys : i < j => keys[i] < keys[j]
Before(keys, later) == \A i \in ToSet(keys), j \in ToSet(later) : i < j

\* The places of reports, the oldest first: the strings reported, hid_key_buf, the hands
\* of the data task, the mailbox, the hands of the reader.
Key(i) == IF i = NoKey THEN <<>> ELSE <<i>>
Places ==
    [n \in DOMAIN ntfs |-> ntfs[n].keys]
       \o <<hid_key_buf, IF dataPc \in {"reset", "key"} THEN Key(dataKey) ELSE <<>>,
            mq, Key(rdKey)>>

\* Every character read is, in the order of reading, in a reported string, in
\* hid_key_buf, in the hands of the data task, in the mailbox or in those of the
\* reader: none is lost, reported twice or overtaken, across time-outs,
\* pull-outs and insertions.  The strings hold nothing else.
KeysInOrder ==
    status = "running" =>
       LET places == Places
           strings == 1 .. Len(ntfs) + 1
       IN  /\ \A p \in DOMAIN places : Rising(places[p])
           /\ \A p, q \in DOMAIN places : p < q => Before(places[p], places[q])
           /\ \A i \in DOMAIN emitted :
                 IsChar(i) => \E p \in DOMAIN places : i \in ToSet(places[p])
           /\ \A p \in strings : \A i \in ToSet(places[p]) : IsChar(i)

\* Every buffer of the pool is free, in the mailbox or with one of the tasks; so
\* /mq_hid always has room: it is the pool, whose exhaustion ends the process,
\* that a burst meets first.
BuffersAccounted ==
    /\ free + Len(mq) + (IF rdPc \in {"read", "post"} THEN 1 ELSE 0)
            + (IF dataKey # NoKey THEN 1 ELSE 0) = NumBuf
    /\ NumBuf <= MaxMsg /\ rdPc = "post" => Len(mq) < MaxMsg

\* A scan is reported in one piece: under the timing assumptions a "data"
\* notification holds all the characters of one scan, and nothing else.
ScanWhole ==
    \A n \in DOMAIN ntfs :
       LET keys == ntfs[n].keys
           scans == {emitted[k].scan : k \in ToSet(keys)}
       IN  /\ \A s, t \in scans : s = t
           /\ \A k \in DOMAIN emitted :
                 emitted[k].kind = "char" /\ emitted[k].scan \in scans => k \in ToSet(keys)

\* hid_key_buf, whose length nothing checks, is overrun only by a scan that does not
\* fit in it with the zero that ends the string: neither by scans that are joined
\* nor by what is left of a former one.
ScanChars(scan) == {k \in DOMAIN emitted : emitted[k].kind = "char" /\ emitted[k].scan = scan}
ScanFits ==
    status = "corrupt" =>
       \E k \in DOMAIN emitted : Cardinality(ScanChars(emitted[k].scan)) >= KeyBuf

\* A scan is reported between the insertion and the pull-out of its own
\* device, with the type of that device.
ReportsInSession ==
    \A n \in DOMAIN ntfs : \A k \in ToSet(ntfs[n].keys) :
       LET session == emitted[k].session IN
       /\ ntfs[n].type = devs[session]
       /\ \E m \in DOMAIN ntfs :
             /\ ntfs[m].cmd = "insert" /\ ntfs[m].session = session
             /\ m < n /\ \A i \in m + 1 .. n : ntfs[i].cmd = "data"

\* What has been read is reported sooner or later: the time-out ends a string
\* that has no Enter, whatever the reader and the user do next.
KeysReported ==
    \A k \in 1 .. MaxKeys :
       k \in DOMAIN emitted /\ k \in ToSet(mq) /\ emitted[k].kind = "char" ~>
          (\E i \in DOMAIN ntfs : k \in ToSet(ntfs[i].keys)) \/ status # "running"

\* A known device is first if no device has a name before its own.  When a call of
\* open_hid begins while one is, it is opened, unless it goes or another one comes
\* before it: names that could not be opened, and unknown devices that have gone, do
\* no harm.
First(d) ==
    /\ devs[d] # 0
    /\ \E s \in Slots : slots[s] = d /\ \A t \in 0 .. s - 1 : slots[t] = NoDev
Unserved == status = "running" /\ \E d \in DOMAIN devs : First(d) /\ fd # d
ReaderServed == Unserved /\ rdPc = "open" /\ slot = 0 ~> ~Unserved
=============================================================================
