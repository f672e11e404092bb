----------------------------- MODULE HidProofs ------------------------------
(***************************************************************************)
(* Theorems about Hid, for every number of buffers, devices, reports and   *)
(* every time-out: whatever the timing, the types, the account of the      *)
(* buffers and the order of the characters; and under the timing           *)
(* assumptions, that a scan is reported whole and within the session of    *)
(* its device, and overruns hid_key_buf only if it is too long for it.     *)
(***************************************************************************)
EXTENDS Hid, QueueLemmas, FiniteSetTheorems, TLAPS

-----------------------------------------------------------------------------
(* Types, and who has a buffer in hand.                                      *)

\* What the tasks hold where they are.
Hands ==
    /\ fd = 0 <=> rdPc \in {"open", "openfile", "pullout"}
    /\ rdKey # NoKey <=> rdPc = "post"
    /\ dataKey # NoKey <=> dataPc \in {"reset", "key", "recycle"}

Accounted ==
    free + Len(mq) + (IF rdPc \in {"read", "post"} THEN 1 ELSE 0)
       + (IF dataKey # NoKey THEN 1 ELSE 0) = NumBuf

\* A sequence over a set is one over every larger set.
LEMMA SeqWider ==
    ASSUME NEW S, NEW T, S \subseteq T, NEW s \in Seq(S)
    PROVE  s \in Seq(T)
  OBVIOUS

\* The reports and notifications there are remain so when more are plugged in and read.
LEMMA Wider ==
    ASSUME TypeOK, devs' \in Seq(Types), emitted' \in Seq(Reports'),
           Len(devs) <= Len(devs'), Len(emitted) <= Len(emitted')
    PROVE  /\ Reports \subseteq Reports' /\ Notices \subseteq Notices'
           /\ DOMAIN emitted \subseteq DOMAIN emitted' /\ 0 .. Len(devs) \subseteq 0 .. Len(devs')
           /\ ntfs \in Seq(Notices') /\ mq \in Seq(DOMAIN emitted')
           /\ hid_key_buf \in Seq(DOMAIN emitted')
<1>1. /\ Len(devs) \in Nat /\ Len(devs') \in Nat /\ DOMAIN devs = 1 .. Len(devs)
      /\ DOMAIN devs' = 1 .. Len(devs')
  BY DEF TypeOK
<1>2. /\ Len(emitted) \in Nat /\ Len(emitted') \in Nat /\ DOMAIN emitted = 1 .. Len(emitted)
      /\ DOMAIN emitted' = 1 .. Len(emitted')
  BY DEF TypeOK
<1>3. /\ DOMAIN emitted \subseteq DOMAIN emitted' /\ 0 .. Len(devs) \subseteq 0 .. Len(devs')
      /\ DOMAIN devs \subseteq DOMAIN devs'
  BY <1>1, <1>2
<1>4. Reports \subseteq Reports'
  BY <1>3 DEF Reports
<1>5. Seq(DOMAIN emitted) \subseteq Seq(DOMAIN emitted')
  BY <1>3, SeqWider
<1>6. Notices \subseteq Notices'
  BY <1>3, <1>5 DEF Notices
<1> QED BY <1>3, <1>4, <1>5, <1>6, SeqWider DEF TypeOK

\* Handing over a notification.
LEMMA NotifyType ==
    ASSUME TypeOK, NEW cmd \in {"insert", "pullout", "data"}, NEW keys \in Seq(DOMAIN emitted),
           ntfs' = Append(ntfs, Ntf(cmd, hid_dev_type, keys))
    PROVE  ntfs' \in Seq(Notices)
<1>1. Ntf(cmd, hid_dev_type, keys) \in Notices
  BY DEF TypeOK, Ntf, Notices
<1> QED BY <1>1 DEF TypeOK

\* At first every buffer is in the pool and no task holds one.
LEMMA HidInitType == Init => TypeOK /\ Hands /\ Accounted
<1> SUFFICES ASSUME Init PROVE TypeOK /\ Hands /\ Accounted
  OBVIOUS
<1>1. devs \in Seq(Types) /\ emitted \in Seq(Reports) /\ ntfs \in Seq(Notices)
  BY DEF Init
<1>2. /\ mq \in Seq(DOMAIN emitted) /\ hid_key_buf \in Seq(DOMAIN emitted)
      /\ Len(devs) = 0 /\ Len(emitted) = 0 /\ Len(mq) = 0
  BY DEF Init
<1>3. slots \in [Slots -> 0 .. Len(devs)] /\ slot \in Slots
  BY <1>2, BoundsAssumption DEF Init, Slots, NoDev
<1>4. free \in 0 .. NumBuf /\ timer \in 0 .. HID_TIME_OUT /\ gap \in 0 .. Gap
  BY BoundsAssumption DEF Init
<1>5. TypeOK
  BY <1>1, <1>2, <1>3, <1>4 DEF Init, TypeOK, NoKey
<1>6. Hands /\ Accounted
  BY <1>2, BoundsAssumption DEF Init, Hands, Accounted, NoKey
<1> QED BY <1>5, <1>6

\* Every step keeps them, whatever the timing.
LEMMA HidNextType ==
    TypeOK /\ Hands /\ Accounted /\ [Next]_vars => TypeOK' /\ Hands' /\ Accounted'
<1> SUFFICES ASSUME TypeOK, Hands, Accounted, [Next]_vars
             PROVE  TypeOK' /\ Hands' /\ Accounted'
  OBVIOUS
<1> USE DEF Hands, Accounted, env, reader, opening, data, NoKey
<1>0. /\ mq \in Seq(DOMAIN emitted) /\ emitted \in Seq(Reports) /\ devs \in Seq(Types)
      /\ ntfs \in Seq(Notices) /\ hid_key_buf \in Seq(DOMAIN emitted)
  BY DEF TypeOK
<1>bounds. /\ NumBuf \in Nat \ {0} /\ HID_TIME_OUT \in Nat \ {0} /\ Gap \in Nat
           /\ NumSlots \in Nat \ {0} /\ 0 \in 0 .. Gap /\ 0 \in 0 .. HID_TIME_OUT
  BY BoundsAssumption
<1>len. /\ Len(mq) \in Nat /\ Len(emitted) \in Nat /\ Len(devs) \in Nat
        /\ DOMAIN devs = 1 .. Len(devs) /\ DOMAIN emitted = 1 .. Len(emitted)
  BY <1>0
<1>same. devs' = devs /\ emitted' = emitted => Reports' = Reports /\ Notices' = Notices
  BY DEF Reports, Notices
<1>1. ASSUME NEW s \in Slots, NEW type \in Types, Plug(type, s) PROVE TypeOK' /\ Hands' /\ Accounted'
  <2>1. devs' \in Seq(Types) /\ Len(devs') = Len(devs) + 1 /\ UNCHANGED emitted
    BY <1>0, <1>1 DEF Plug
  <2>2. emitted' \in Seq(Reports')
    <3>1. DOMAIN devs \subseteq DOMAIN devs'
      BY <1>len, <2>1
    <3>2. Reports \subseteq Reports'
      BY <3>1 DEF Reports
    <3> QED BY <1>0, <2>1, <3>2, SeqWider
  <2>3. slots' \in [Slots -> 0 .. Len(devs')]
    <3>1. slots \in [Slots -> 0 .. Len(devs)] /\ slots' = [slots EXCEPT ![s] = Len(devs')]
      BY <1>1 DEF Plug, TypeOK
    <3>2. 0 .. Len(devs) \subseteq 0 .. Len(devs') /\ Len(devs') \in 0 .. Len(devs')
      BY ONLY <1>len, <2>1
    <3> QED BY ONLY <3>1, <3>2
  <2>4. ntfs \in Seq(Notices') /\ 0 .. Len(devs) \subseteq 0 .. Len(devs')
    BY <1>len, <2>1, <2>2, Wider
  <2> QED BY <1>1, <2>1, <2>2, <2>3, <2>4 DEF Plug, TypeOK
<1>2. ASSUME NEW s \in Slots, Unplug(s) PROVE TypeOK' /\ Hands' /\ Accounted'
  BY <1>2, <1>same, <1>len DEF Unplug, NoDev, TypeOK
<1>3. CASE EndScan
  BY <1>3, <1>same DEF EndScan, TypeOK
<1>next. ASSUME NEW bad \in BOOLEAN, NextSlot(bad) PROVE slot' \in Slots /\ spoiled' \in BOOLEAN
  <2>1. slot \in 0 .. NumSlots - 1
    BY DEF Slots, TypeOK
  <2>2. (slot + 1) % NumSlots \in 0 .. NumSlots - 1
    BY <2>1, <1>bounds
  <2> QED BY <1>next, <2>2 DEF NextSlot, Slots
<1>4. CASE CheckSlot
  BY <1>4, <1>same, <1>next DEF CheckSlot, TypeOK
<1>5. CASE OpenFile
  <2>1. 0 \in Slots
    BY <1>bounds DEF Slots
  <2>2. slot' \in Slots /\ spoiled' \in BOOLEAN
    BY <1>5, <1>next, <2>1 DEF OpenFile
  <2>3. fd' \in 0 .. Len(devs) /\ (fd' = 0 <=> rdPc' = "open") /\ rdPc' \in {"open", "identify"}
    BY <1>5, <1>len DEF OpenFile, NoDev, TypeOK
  <2> QED BY <1>5, <1>same, <2>2, <2>3 DEF OpenFile, TypeOK
<1>6. CASE IdentifyHid
  <2>1. fd \in 1 .. Len(devs)
    BY <1>6, <1>len DEF IdentifyHid, TypeOK
  <2>2. hid_dev_type' \in Types
    BY <1>0, <1>6, <1>len, <2>1 DEF IdentifyHid, TypesFound
  <2>3. fd' \in 0 .. Len(devs) /\ (fd' = 0 <=> rdPc' = "open") /\ rdPc' \in {"open", "insert"}
    BY <1>6, <1>len, <2>1 DEF IdentifyHid
  <2> QED BY <1>6, <2>2, <2>3, <1>same DEF IdentifyHid, TypeOK
<1>7. CASE HidInsert
  <2>1. <<>> \in Seq(DOMAIN emitted)
    OBVIOUS
  <2>2. ntfs' \in Seq(Notices)
    BY <1>7, <2>1, NotifyType DEF HidInsert
  <2> QED BY <1>7, <2>2, <1>same DEF HidInsert, TypeOK
<1>8. CASE HidProduce
  <2>1. /\ status' \in {"running", "exit", "corrupt"} /\ free' \in 0 .. NumBuf
        /\ \/ free' = free /\ rdPc' = rdPc
           \/ free' = free - 1 /\ rdPc' = "read"
    BY <1>8, <1>len, <1>bounds DEF HidProduce, TypeOK
  <2>2. UNCHANGED <<mq, dataKey>> /\ rdPc = "produce" /\ free \in Nat
    BY <1>8 DEF HidProduce, TypeOK
  <2>3. Accounted'
    BY <2>1, <2>2, <1>len, <1>bounds
  <2> QED BY <1>8, <2>1, <2>3, <1>same DEF HidProduce, TypeOK
<1>9. ASSUME NEW kind \in Kinds, HidRead(kind) PROVE TypeOK' /\ Hands' /\ Accounted'
  <2>1. Scan \in Nat
    <3>1. emitted # <<>> => Last(emitted) \in Reports
      BY <1>0, <1>len DEF Last
    <3> QED BY <3>1 DEF Scan, Reports
  <2> PICK scan \in Nat : emitted' = Append(emitted, [kind |-> kind, scan |-> scan, session |-> fd])
    BY <1>9, <2>1 DEF HidRead
  <2>2. [kind |-> kind, scan |-> scan, session |-> fd] \in Reports
    <3>1. fd \in DOMAIN devs
      BY <1>9, <1>len DEF HidRead, TypeOK
    <3> QED BY <3>1 DEF Reports
  <2>3. Reports' = Reports /\ devs' = devs
    BY <1>9 DEF HidRead, Reports
  <2>4. emitted' \in Seq(Reports') /\ Len(emitted') = Len(emitted) + 1
    BY <1>0, <2>2, <2>3
  <2>5. devs' \in Seq(Types) /\ Len(devs) <= Len(devs') /\ Len(emitted) <= Len(emitted')
    BY <1>0, <1>len, <2>3, <2>4
  <2>6. /\ ntfs \in Seq(Notices') /\ mq \in Seq(DOMAIN emitted')
        /\ hid_key_buf \in Seq(DOMAIN emitted')
    BY <2>4, <2>5, Wider
  <2>7. 0 .. Len(emitted) \subseteq 0 .. Len(emitted') /\ Len(emitted') \in 0 .. Len(emitted')
    BY <1>len, <2>4
  <2> QED BY <1>9, <1>len, <2>3, <2>4, <2>6, <2>7 DEF HidRead, TypeOK
<1>10. CASE HidReadError
  <2>1. free + 1 \in 0 .. NumBuf /\ dataKey = dataKey'
    BY <1>10, <1>len, <1>bounds DEF HidReadError, TypeOK
  <2>2. 0 \in 0 .. Len(devs)
    BY <1>len
  <2> QED BY <1>10, <2>1, <2>2, <1>same, <1>len, <1>bounds DEF HidReadError, TypeOK
<1>11. CASE HidPullout
  <2>1. <<>> \in Seq(DOMAIN emitted)
    OBVIOUS
  <2>2. ntfs' \in Seq(Notices)
    BY <1>11, <2>1, NotifyType DEF HidPullout
  <2> QED BY <1>11, <2>2, <1>same DEF HidPullout, TypeOK
<1>12. CASE HidPost
  <2>1. rdKey \in DOMAIN emitted
    BY <1>12, <1>len DEF HidPost, TypeOK
  <2>2. mq' \in Seq(DOMAIN emitted) /\ Len(mq') = Len(mq) + 1
    BY <1>0, <1>12, <2>1 DEF HidPost
  <2>3. gap' \in 0 .. Gap /\ 0 \in 0 .. Len(emitted)
    BY <1>12, <1>bounds, <1>len DEF HidPost
  <2> QED BY <1>12, <2>2, <2>3, <1>same, <1>len, <1>bounds DEF HidPost, TypeOK
<1>13. CASE TimerTick
  <2>1. timer \in 0 .. HID_TIME_OUT /\ gap \in 0 .. Gap
    BY DEF TypeOK
  <2>2. timer' \in 0 .. HID_TIME_OUT /\ gap' \in 0 .. Gap
    BY <1>13, <1>bounds, <2>1 DEF TimerTick
  <2> QED BY <1>13, <2>2, <1>same DEF TimerTick, TypeOK
<1>14. CASE DataTake
  <2>1. /\ Head(mq) \in DOMAIN emitted /\ mq' \in Seq(DOMAIN emitted)
        /\ Len(mq') = Len(mq) - 1
    BY <1>0, <1>14 DEF DataTake
  <2>2. dataKey' \in 1 .. Len(emitted)
    BY <1>14, <2>1, <1>len DEF DataTake
  <2>3. UNCHANGED <<free, rdPc, fd, rdKey>> /\ dataPc = "pend" /\ dataPc' = "reset" /\ free \in Nat
    BY <1>14 DEF DataTake, TypeOK
  <2>4. dataKey = 0 /\ dataKey' # 0
    BY <2>2, <2>3, <1>len
  <2>5. Accounted'
    <3> PICK n \in Nat : n = IF rdPc \in {"read", "post"} THEN 1 ELSE 0
      OBVIOUS
    <3>1. free + Len(mq) + n + 0 = NumBuf
      BY <2>4
    <3>2. free + (Len(mq) - 1) + n + 1 = NumBuf
      BY <3>1, <2>3, <1>len, <1>bounds
    <3> QED BY <3>2, <2>1, <2>3, <2>4
  <2>6. Hands' /\ 1 .. Len(emitted) \subseteq 0 .. Len(emitted)
    BY <2>3, <2>4, <1>len
  <2> QED BY <1>14, <2>1, <2>2, <2>5, <2>6, <1>same DEF DataTake, TypeOK
<1>15. CASE DataReset
  BY <1>15, <1>bounds, <1>same DEF DataReset, TypeOK
<1>16. CASE DataChar
  <2>1. dataKey \in DOMAIN emitted
    BY <1>16, <1>len DEF DataChar, TypeOK
  <2>2. Append(hid_key_buf, dataKey) \in Seq(DOMAIN emitted)
    BY <1>0, <2>1
  <2>3. hid_key_buf' \in Seq(DOMAIN emitted) /\ status' \in {"running", "exit", "corrupt"}
    BY <1>0, <1>16, <2>2 DEF DataChar
  <2> QED BY <1>16, <2>3, <1>same DEF DataChar, TypeOK
<1>report. ASSUME Report
           PROVE  /\ ntfs' \in Seq(Notices) /\ hid_key_buf' \in Seq(DOMAIN emitted)
                  /\ status' \in {"running", "exit", "corrupt"}
  <2>1. ntfs' \in Seq(Notices)
    BY <1>0, <1>report, NotifyType DEF Report
  <2> QED BY <1>report, <2>1 DEF Report, TypeOK
<1>17. CASE DataEnter
  BY <1>17, <1>report, <1>same DEF DataEnter, TypeOK
<1>18. CASE DataOther
  BY <1>18, <1>same DEF DataOther, TypeOK
<1>19. CASE DataRecycle
  <2>1. free + 1 \in 0 .. NumBuf /\ 0 \in 0 .. Len(emitted)
    BY <1>19, <1>len, <1>bounds DEF DataRecycle, TypeOK
  <2> QED BY <1>19, <2>1, <1>same, <1>len, <1>bounds DEF DataRecycle, TypeOK
<1>20. CASE DataTimeout
  BY <1>20, <1>same DEF DataTimeout, TypeOK
<1>21. CASE DataCheck
  BY <1>21, <1>report, <1>same DEF DataCheck, TypeOK
<1>22. CASE DataRestart
  BY <1>22, <1>bounds, <1>same DEF DataRestart, TypeOK
<1>23. CASE UNCHANGED vars
  BY <1>23, <1>same DEF vars, TypeOK
<1> QED
  BY <1>1, <1>2, <1>3, <1>4, <1>5, <1>6, <1>7, <1>8, <1>9, <1>10, <1>11, <1>12, <1>13,
     <1>14, <1>15, <1>16, <1>17, <1>18, <1>19, <1>20, <1>21, <1>22, <1>23
  DEF Next, ReadTask, ReadSteps, DataTask, Halted

\* The readers' state keeps its types under any timing.
THEOREM HidTypeCorrect == Spec => []TypeOK
<1>1. Spec => [](TypeOK /\ Hands /\ Accounted)
  BY HidInitType, HidNextType, PTL DEF Spec
<1> QED BY <1>1, PTL

\* Every buffer of g_hid_buf is accounted for, and /mq_hid never fills up.
THEOREM BuffersAccountedHolds == Spec => []BuffersAccounted
<1>1. TypeOK /\ Hands /\ Accounted => BuffersAccounted
  <2> SUFFICES ASSUME TypeOK, Hands, Accounted PROVE BuffersAccounted
    OBVIOUS
  <2>1. Len(mq) \in Nat /\ free \in Nat /\ NumBuf \in Nat /\ MaxMsg \in Nat
    BY BoundsAssumption DEF TypeOK
  <2> QED BY <2>1 DEF Accounted, BuffersAccounted
<1>2. Spec => [](TypeOK /\ Hands /\ Accounted)
  BY HidInitType, HidNextType, PTL DEF Spec
<1> QED BY <1>1, <1>2, PTL

-----------------------------------------------------------------------------
(* The order of the characters.  Reports are read, posted, taken and treated *)
(* in the order of their indices.                                            *)

\* The numbers of reports that have left the hands of the reader, the mailbox, and the
\* hands of the data task.
Posted == Len(emitted) - (IF rdKey # NoKey THEN 1 ELSE 0)
Taken == Posted - Len(mq)
Seen == Taken - (IF dataPc \in {"reset", "key"} THEN 1 ELSE 0)

Marks ==
    /\ Seen \in Nat
    /\ rdKey # NoKey => rdKey = Len(emitted)
    /\ \A i \in DOMAIN mq : mq[i] = Taken + i
    /\ dataKey # NoKey => dataKey = Taken

\* The strings reported and hid_key_buf: characters treated, in order.
IsString(keys) == Rising(keys) /\ \A i \in ToSet(keys) : i <= Seen /\ IsChar(i)
Strings ==
    /\ \A n \in DOMAIN ntfs : IsString(ntfs[n].keys) /\ Before(ntfs[n].keys, hid_key_buf)
    /\ \A m, n \in DOMAIN ntfs : m < n => Before(ntfs[m].keys, ntfs[n].keys)
    /\ IsString(hid_key_buf)

\* Every character treated is in one of them.
Gone(i) == \E n \in DOMAIN ntfs : i \in ToSet(ntfs[n].keys)
Buffered(i) == i \in ToSet(hid_key_buf)
Covered == status = "running" => \A i \in 1 .. Seen : IsChar(i) => Gone(i) \/ Buffered(i)

KeysInv == Marks /\ Strings /\ Covered

\* One more notification.
LEMMA Notified ==
    ASSUME TypeOK, NEW cmd \in {"insert", "pullout", "data"}, NEW keys \in Seq(DOMAIN emitted),
           ntfs' = Append(ntfs, Ntf(cmd, hid_dev_type, keys))
    PROVE  /\ Len(ntfs) \in Nat /\ Len(ntfs') = Len(ntfs) + 1
           /\ DOMAIN ntfs = 1 .. Len(ntfs) /\ DOMAIN ntfs' = 1 .. Len(ntfs')
           /\ \A n \in DOMAIN ntfs : n \in DOMAIN ntfs' /\ ntfs'[n] = ntfs[n] /\ n < Len(ntfs')
           /\ ntfs'[Len(ntfs')] = Ntf(cmd, hid_dev_type, keys)
           /\ ntfs'[Len(ntfs')].keys = keys
           /\ ntfs'[Len(ntfs')].cmd = cmd /\ ntfs'[Len(ntfs')].type = hid_dev_type
           /\ ntfs'[Len(ntfs')].session = fd
           /\ \A n \in DOMAIN ntfs' : n # Len(ntfs') => n \in DOMAIN ntfs
<1>1. ntfs \in Seq(Notices) /\ Ntf(cmd, hid_dev_type, keys) \in Notices
  BY DEF TypeOK, Ntf, Notices
<1>2. /\ Len(ntfs) \in Nat /\ Len(ntfs') = Len(ntfs) + 1
      /\ DOMAIN ntfs = 1 .. Len(ntfs) /\ DOMAIN ntfs' = 1 .. Len(ntfs')
  BY <1>1
<1>3. \A n \in 1 .. Len(ntfs) : ntfs'[n] = ntfs[n]
  BY <1>1
<1>4. ntfs'[Len(ntfs) + 1] = Ntf(cmd, hid_dev_type, keys)
  BY <1>1
<1> QED BY <1>2, <1>3, <1>4 DEF Ntf

\* The strings when one is reported and hid_key_buf shrinks.
LEMMA StringsNotified ==
    ASSUME TypeOK, Strings, UNCHANGED emitted, Seen \in Nat, Seen' \in Nat, Seen <= Seen',
           NEW cmd \in {"insert", "pullout", "data"}, NEW keys \in Seq(DOMAIN emitted),
           ntfs' = Append(ntfs, Ntf(cmd, hid_dev_type, keys)),
           IsString(keys), \A n \in DOMAIN ntfs : Before(ntfs[n].keys, keys),
           Before(keys, hid_key_buf'), Rising(hid_key_buf'),
           ToSet(hid_key_buf') \subseteq ToSet(hid_key_buf)
    PROVE  Strings'
<1>1. /\ DOMAIN ntfs' = 1 .. Len(ntfs')
      /\ \A n \in DOMAIN ntfs' : n = Len(ntfs') \/ (n \in DOMAIN ntfs /\ ntfs'[n] = ntfs[n])
      /\ \A n \in DOMAIN ntfs : n < Len(ntfs')
      /\ ntfs'[Len(ntfs')].keys = keys /\ Len(ntfs') \in Nat
  BY Notified
<1>2. /\ hid_key_buf \in Seq(DOMAIN emitted)
      /\ \A n \in DOMAIN ntfs : ntfs[n].keys \in Seq(DOMAIN emitted)
  <2>1. ntfs \in Seq(Notices) /\ hid_key_buf \in Seq(DOMAIN emitted)
    BY DEF TypeOK
  <2>2. \A n \in DOMAIN ntfs : ntfs[n] \in Notices
    BY ONLY <2>1
  <2> QED BY <2>1, <2>2 DEF Notices
<1>3. /\ \A i \in ToSet(keys) : i \in Nat /\ i <= Seen
      /\ \A i \in ToSet(hid_key_buf) : i \in Nat /\ i <= Seen /\ IsChar(i)
      /\ \A n \in DOMAIN ntfs : \A i \in ToSet(ntfs[n].keys) : i \in Nat /\ i <= Seen /\ IsChar(i)
  <2>1. \A i \in DOMAIN emitted : i \in Nat
    <3>1. emitted \in Seq(Reports)
      BY DEF TypeOK
    <3> QED BY ONLY <3>1
  <2> QED BY <1>2, <2>1, ToSetElements DEF Strings, IsString
<1>4. ASSUME NEW n \in DOMAIN ntfs'
      PROVE  /\ Rising(ntfs'[n].keys) /\ Before(ntfs'[n].keys, hid_key_buf')
             /\ \A i \in ToSet(ntfs'[n].keys) : i <= Seen' /\ emitted'[i].kind = "char"
  <2>1. CASE n = Len(ntfs')
    BY <2>1, <1>1, <1>3 DEF IsString, IsChar
  <2>2. CASE n # Len(ntfs')
    BY <2>2, <1>1, <1>3 DEF Strings, IsString, IsChar, Before
  <2> QED BY <2>1, <2>2
<1>5. ASSUME NEW m \in DOMAIN ntfs', NEW n \in DOMAIN ntfs', m < n
      PROVE  Before(ntfs'[m].keys, ntfs'[n].keys)
  <2>1. m \in DOMAIN ntfs /\ ntfs'[m] = ntfs[m]
    BY <1>1, <1>5
  <2>2. CASE n = Len(ntfs')
    BY <2>1, <2>2, <1>1
  <2>3. CASE n # Len(ntfs')
    BY <2>1, <2>3, <1>1, <1>5 DEF Strings
  <2> QED BY <2>2, <2>3
<1>6. /\ Rising(hid_key_buf')
      /\ \A i \in ToSet(hid_key_buf') : i <= Seen' /\ emitted'[i].kind = "char"
  BY <1>3 DEF IsChar
<1> QED BY <1>4, <1>5, <1>6 DEF Strings, IsString, IsChar

\* One more report.
LEMMA OneMoreReport ==
    ASSUME TypeOK, NEW kind \in Kinds, HidRead(kind)
    PROVE  /\ Len(emitted') = Len(emitted) + 1 /\ rdKey' = Len(emitted') /\ Len(emitted') # 0
           /\ DOMAIN emitted' = 1 .. Len(emitted')
           /\ \A i \in DOMAIN emitted : i \in DOMAIN emitted' /\ emitted'[i] = emitted[i]
           /\ emitted'[Len(emitted')] =
                 [kind |-> kind, scan |-> IF inScan THEN Scan ELSE Scan + 1, session |-> fd]
<1> PICK r : /\ r = [kind |-> kind, scan |-> IF inScan THEN Scan ELSE Scan + 1, session |-> fd]
             /\ emitted' = Append(emitted, r) /\ rdKey' = Len(emitted')
  BY DEF HidRead
<1>1. emitted \in Seq(Reports \cup {r})
  BY SeqWider DEF TypeOK
<1>2. /\ Len(emitted') = Len(emitted) + 1 /\ DOMAIN emitted' = 1 .. Len(emitted) + 1
      /\ DOMAIN emitted = 1 .. Len(emitted) /\ Len(emitted) \in Nat
      /\ \A i \in DOMAIN emitted : emitted'[i] = emitted[i]
      /\ emitted'[Len(emitted) + 1] = r
  BY <1>1
<1> QED BY <1>2

\* Steps that neither move a report nor touch a string.
LEMMA KeysKept ==
    ASSUME KeysInv, UNCHANGED <<emitted, rdKey, mq, ntfs, hid_key_buf>>,
           dataKey' = dataKey \/ dataKey' = NoKey,
           dataPc' \in {"reset", "key"} <=> dataPc \in {"reset", "key"},
           status = "running"
    PROVE  KeysInv'
<1>1. Posted' = Posted /\ Taken' = Taken /\ Seen' = Seen
  BY DEF Posted, Taken, Seen
<1>2. Marks'
  BY <1>1 DEF KeysInv, Marks
<1>3. Strings'
  BY <1>1 DEF KeysInv, Strings, IsString, IsChar
<1>4. Covered'
  BY <1>1 DEF KeysInv, Covered, IsChar, Gone, Buffered
<1> QED BY <1>2, <1>3, <1>4 DEF KeysInv

\* Steps of the reader and the timer.
LEMMA KeysReader ==
    ASSUME TypeOK, Hands, KeysInv, (ReadTask \/ TimerTick)
    PROVE  KeysInv'
<1> USE DEF reader, opening, data, env, NoKey
<1>0. /\ emitted \in Seq(Reports) /\ mq \in Seq(DOMAIN emitted) /\ Len(emitted) \in Nat
      /\ Len(mq) \in Nat /\ DOMAIN emitted = 1 .. Len(emitted) /\ DOMAIN mq = 1 .. Len(mq)
      /\ hid_key_buf \in Seq(DOMAIN emitted) /\ <<>> \in Seq(DOMAIN emitted)
      /\ \A n \in DOMAIN ntfs : ntfs[n] \in Notices
  BY DEF TypeOK
<1>strings. \A n \in DOMAIN ntfs : ntfs[n].keys \in Seq(DOMAIN emitted)
  BY <1>0 DEF Notices
<1>1. ASSUME NEW cmd \in {"insert", "pullout", "data"}, ntfs' = Append(ntfs, Ntf(cmd, hid_dev_type, <<>>)),
             UNCHANGED <<status, emitted, rdKey, mq, dataKey, dataPc, hid_key_buf>>
      PROVE  KeysInv'
  <2>1. Posted' = Posted /\ Taken' = Taken /\ Seen' = Seen /\ Seen \in Nat
    BY <1>1 DEF Posted, Taken, Seen, KeysInv, Marks
  <2>2. Marks'
    BY <1>1, <2>1 DEF KeysInv, Marks
  <2>3. ToSet(<<>>) = {} /\ Rising(<<>>)
    BY DEF ToSet, Rising
  <2>4. IsString(<<>>) /\ \A keys : Before(keys, <<>>) /\ Before(<<>>, keys)
    BY <2>3 DEF IsString, Before
  <2>5. Strings'
    <3>1. /\ Strings /\ Rising(hid_key_buf') /\ ToSet(hid_key_buf') \subseteq ToSet(hid_key_buf)
          /\ UNCHANGED emitted /\ Seen <= Seen'
      BY <1>1, <2>1 DEF KeysInv, Strings, IsString
    <3> QED BY <1>0, <1>1, <2>1, <2>4, <3>1, StringsNotified
  <2>6. \A n \in DOMAIN ntfs : n \in DOMAIN ntfs' /\ ntfs'[n] = ntfs[n]
    BY <1>0, <1>1, Notified
  <2>7. Covered'
    BY <1>1, <2>1, <2>6 DEF KeysInv, Covered, IsChar, Gone, Buffered
  <2> QED BY <2>2, <2>5, <2>7 DEF KeysInv
<1>2. ASSUME NEW kind \in Kinds, HidRead(kind) PROVE KeysInv'
  <2>1. /\ Len(emitted') = Len(emitted) + 1 /\ rdKey' = Len(emitted') /\ Len(emitted') # 0
        /\ \A i \in DOMAIN emitted : emitted'[i] = emitted[i]
    BY <1>0, <1>2, OneMoreReport
  <2>2. rdKey = NoKey /\ UNCHANGED <<status, mq, dataPc, dataKey, ntfs, hid_key_buf>>
    BY <1>2 DEF HidRead, Hands
  <2>3. Posted' = Posted /\ Taken' = Taken /\ Seen' = Seen
    BY <1>0, <2>1, <2>2 DEF Posted, Taken, Seen
  <2>4. Marks'
    BY <2>1, <2>2, <2>3 DEF KeysInv, Marks
  <2>5. \A i \in DOMAIN emitted : IsChar(i)' <=> IsChar(i)
    BY <2>1 DEF IsChar
  <2>6. /\ \A i \in ToSet(hid_key_buf) : i \in DOMAIN emitted
        /\ \A n \in DOMAIN ntfs : \A i \in ToSet(ntfs[n].keys) : i \in DOMAIN emitted
    BY <1>0, <1>strings, ToSetElements
  <2>7. Strings'
    BY <2>2, <2>3, <2>5, <2>6 DEF KeysInv, Strings, IsString
  <2>8. 1 .. Seen \subseteq DOMAIN emitted
    <3>1. Posted \in Int /\ Posted <= Len(emitted)
      BY <1>0 DEF Posted
    <3>2. Taken \in Int /\ Taken <= Posted
      BY <1>0, <3>1 DEF Taken
    <3>3. Seen \in Nat /\ Seen <= Taken
      BY <3>2 DEF Seen, KeysInv, Marks
    <3> QED BY <1>0, <3>1, <3>2, <3>3
  <2>9. Covered'
    BY <2>2, <2>3, <2>5, <2>8 DEF KeysInv, Covered, Gone, Buffered
  <2> QED BY <2>4, <2>7, <2>9 DEF KeysInv
<1>3. CASE HidPost
  <2>1. /\ rdPc = "post" /\ rdKey # NoKey /\ rdKey' = NoKey /\ mq' = Append(mq, rdKey)
        /\ UNCHANGED <<status, emitted, dataPc, dataKey, ntfs, hid_key_buf>>
    BY <1>3 DEF HidPost, Hands
  <2>2. rdKey \in DOMAIN emitted
    BY <1>0, <2>1 DEF TypeOK
  <2>3. Len(mq') = Len(mq) + 1 /\ DOMAIN mq' = 1 .. Len(mq) + 1
    BY <1>0, <2>1, <2>2
  <2>4. \A i \in 1 .. Len(mq) + 1 : mq'[i] = IF i <= Len(mq) THEN mq[i] ELSE rdKey
    BY <1>0, <2>1, <2>2
  <2>5. Posted = Len(emitted) - 1 /\ Posted' = Len(emitted) /\ Taken' = Taken /\ Seen' = Seen
    BY <1>0, <2>1, <2>3 DEF Posted, Taken, Seen
  <2>6. rdKey = Taken + Len(mq) + 1
    BY <1>0, <2>1, <2>5 DEF KeysInv, Marks, Taken
  <2>7. ASSUME NEW i \in DOMAIN mq' PROVE mq'[i] = Taken + i
    <3>1. CASE i \in DOMAIN mq
      <4>1. mq[i] = Taken + i
        BY <3>1 DEF KeysInv, Marks
      <4>2. mq'[i] = mq[i]
        BY <2>4, <3>1
      <4> QED BY ONLY <2>5, <4>1, <4>2
    <3>2. CASE i = Len(mq) + 1
      BY <1>0, <2>4, <2>6, <3>2, <2>5 DEF Taken
    <3> QED BY <1>0, <2>3, <3>1, <3>2
  <2>8. Marks'
    BY <2>1, <2>5, <2>7 DEF KeysInv, Marks
  <2>9. Strings' /\ Covered'
    BY <2>1, <2>5 DEF KeysInv, Strings, IsString, Covered, IsChar, Gone, Buffered
  <2> QED BY <2>8, <2>9 DEF KeysInv
<1>4. CASE HidInsert
  BY <1>1, <1>4 DEF HidInsert
<1>5. CASE HidPullout
  BY <1>1, <1>5 DEF HidPullout
<1>6. CASE CheckSlot \/ OpenFile \/ IdentifyHid \/ HidReadError \/ TimerTick
  BY <1>6, KeysKept DEF CheckSlot, OpenFile, IdentifyHid, HidReadError, TimerTick
<1>7. CASE HidProduce
  <2>1. /\ UNCHANGED <<emitted, rdKey, mq, ntfs, hid_key_buf, dataKey, dataPc>>
        /\ status = "running"
    BY <1>7 DEF HidProduce
  <2> QED BY <2>1, KeysKept
<1> QED BY <1>2, <1>3, <1>4, <1>5, <1>6, <1>7 DEF ReadTask, ReadSteps

\* Steps of the data task.
LEMMA KeysData ==
    ASSUME TypeOK, Hands, KeysInv, DataTask
    PROVE  KeysInv'
<1> USE DEF reader, opening, data, env, NoKey
<1>0. /\ emitted \in Seq(Reports) /\ mq \in Seq(DOMAIN emitted) /\ Len(emitted) \in Nat
      /\ Len(mq) \in Nat /\ DOMAIN emitted = 1 .. Len(emitted) /\ DOMAIN mq = 1 .. Len(mq)
      /\ hid_key_buf \in Seq(DOMAIN emitted) /\ <<>> \in Seq(DOMAIN emitted)
      /\ \A n \in DOMAIN ntfs : ntfs[n] \in Notices
  BY DEF TypeOK
<1>buf. hid_key_buf \in Seq(DOMAIN emitted)
  BY DEF TypeOK
<1>ints. Posted \in Int /\ Taken \in Int /\ Seen \in Nat
  BY <1>0 DEF Posted, Taken, KeysInv, Marks
<1>strings. \A n \in DOMAIN ntfs : ntfs[n].keys \in Seq(DOMAIN emitted)
  BY <1>0 DEF Notices
<1>elems. /\ \A i \in ToSet(hid_key_buf) : i \in DOMAIN emitted
          /\ \A n \in DOMAIN ntfs : \A i \in ToSet(ntfs[n].keys) : i \in DOMAIN emitted
  BY <1>0, <1>strings, ToSetElements
<1>1. CASE DataTake
  <2>1. /\ mq # <<>> /\ dataPc = "pend" /\ dataPc' = "reset" /\ dataKey' = Head(mq) /\ mq' = Tail(mq)
        /\ UNCHANGED <<status, emitted, rdKey, ntfs, hid_key_buf>>
    BY <1>1 DEF DataTake
  <2>2. /\ Len(mq') = Len(mq) - 1 /\ DOMAIN mq' = 1 .. Len(mq) - 1 /\ 1 \in DOMAIN mq
        /\ \A i \in 1 .. Len(mq) - 1 : mq'[i] = mq[i + 1]
        /\ dataKey' = mq[1]
    BY <1>0, <2>1
  <2>3. Posted' = Posted /\ Taken' = Taken + 1 /\ Seen' = Seen
    BY <1>0, <1>ints, <2>1, <2>2 DEF Posted, Taken, Seen
  <2>4. dataKey' = Taken + 1
    BY <2>2, <1>0 DEF KeysInv, Marks
  <2>5. ASSUME NEW i \in DOMAIN mq' PROVE mq'[i] = Taken + 1 + i
    <3>1. i + 1 \in DOMAIN mq /\ mq'[i] = mq[i + 1] /\ i \in Nat
      BY <1>0, <2>2
    <3> QED BY <3>1, <1>ints DEF KeysInv, Marks
  <2>6. Marks'
    BY <2>1, <2>3, <2>4, <2>5 DEF KeysInv, Marks
  <2>7. Strings' /\ Covered'
    BY <2>1, <2>3 DEF KeysInv, Strings, IsString, Covered, IsChar, Gone, Buffered
  <2> QED BY <2>6, <2>7 DEF KeysInv
<1>key. ASSUME dataPc = "key", dataPc' = "recycle", UNCHANGED <<emitted, rdKey, mq, dataKey>>
        PROVE  /\ Marks' /\ Seen' = Seen + 1 /\ Seen' \in Nat /\ dataKey = Seen + 1
               /\ dataKey \in DOMAIN emitted
  <2>1. Posted' = Posted /\ Taken' = Taken
    BY <1>key DEF Posted, Taken
  <2>2. Seen = Taken - 1 /\ Seen' = Taken /\ dataKey # NoKey
    BY <1>key, <2>1, <1>ints DEF Seen, Hands
  <2>3. dataKey = Taken /\ dataKey \in DOMAIN emitted
    <3>1. dataKey \in 0 .. Len(emitted) /\ dataKey # 0
      BY <2>2 DEF TypeOK
    <3> QED BY <1>0, <2>2, <3>1 DEF KeysInv, Marks
  <2>4. Marks'
    BY <1>key, <1>ints, <2>1, <2>2 DEF KeysInv, Marks
  <2> QED BY <1>ints, <2>2, <2>3, <2>4
<1>later. ASSUME UNCHANGED <<emitted, ntfs, hid_key_buf>>, Seen' \in Nat, Seen <= Seen'
             PROVE  Strings'
  <2>1. ASSUME NEW keys, \A i \in ToSet(keys) : i \in DOMAIN emitted, IsString(keys)
        PROVE  Rising(keys) /\ \A i \in ToSet(keys) : i <= Seen' /\ IsChar(i)'
    <3>1. \A i \in ToSet(keys) : i \in Nat /\ i <= Seen /\ IsChar(i)
      BY <1>0, <2>1 DEF IsString
    <3> QED BY <1>ints, <1>later, <2>1, <3>1 DEF IsString, IsChar
  <2>2. \A n \in DOMAIN ntfs : Rising(ntfs[n].keys) /\ \A i \in ToSet(ntfs[n].keys) : i <= Seen' /\ IsChar(i)'
    BY <1>elems, <2>1 DEF KeysInv, Strings
  <2>3. Rising(hid_key_buf) /\ \A i \in ToSet(hid_key_buf) : i <= Seen' /\ IsChar(i)'
    BY <1>elems, <2>1 DEF KeysInv, Strings
  <2> QED BY <1>later, <2>2, <2>3 DEF KeysInv, Strings, IsString
<1>2. CASE DataChar
  <2>1. /\ dataPc = "key" /\ dataPc' = "recycle" /\ IsChar(dataKey)
        /\ UNCHANGED <<emitted, rdKey, mq, dataKey, ntfs>>
    BY <1>2 DEF DataChar, IsChar
  <2>2. /\ Marks' /\ Seen' = Seen + 1 /\ Seen' \in Nat /\ dataKey = Seen + 1
        /\ dataKey \in DOMAIN emitted
    BY <2>1, <1>key
  <2>3. CASE hid_key_buf' = hid_key_buf /\ status' = "corrupt"
    <3>1. Strings'
      BY <1>ints, <2>1, <2>2, <2>3, <1>later
    <3> QED BY <2>2, <2>3, <3>1 DEF KeysInv, Covered
  <2>4. CASE hid_key_buf' = Append(hid_key_buf, dataKey) /\ UNCHANGED status
    <3>1. ToSet(hid_key_buf') = ToSet(hid_key_buf) \cup {dataKey}
      BY <1>buf, <2>2, <2>4, AppendSet
    <3>2. /\ Len(hid_key_buf') = Len(hid_key_buf) + 1 /\ DOMAIN hid_key_buf' = 1 .. Len(hid_key_buf) + 1
          /\ DOMAIN hid_key_buf = 1 .. Len(hid_key_buf) /\ Len(hid_key_buf) \in Nat
          /\ \A i \in 1 .. Len(hid_key_buf) : hid_key_buf'[i] = hid_key_buf[i]
          /\ hid_key_buf'[Len(hid_key_buf) + 1] = dataKey
      BY <1>0, <2>2, <2>4
    <3>3. \A i \in ToSet(hid_key_buf) : i <= Seen /\ IsChar(i) /\ i < dataKey
      BY <1>0, <1>elems, <1>ints, <2>2 DEF KeysInv, Strings, IsString
    <3>4. \A i \in 1 .. Len(hid_key_buf) : hid_key_buf[i] < dataKey
      BY <1>0, <3>3, ToSetElements
    <3>5. Rising(hid_key_buf')
      <4>1. SUFFICES ASSUME NEW i \in DOMAIN hid_key_buf', NEW j \in DOMAIN hid_key_buf', i < j
                     PROVE  hid_key_buf'[i] < hid_key_buf'[j]
        BY DEF Rising
      <4>2. i \in 1 .. Len(hid_key_buf)
        BY <3>2, <4>1
      <4>3. CASE j = Len(hid_key_buf) + 1
        BY <3>2, <3>4, <4>2, <4>3
      <4>4. CASE j \in 1 .. Len(hid_key_buf)
        BY <3>2, <4>1, <4>2, <4>4 DEF KeysInv, Strings, IsString, Rising
      <4> QED BY <3>2, <4>3, <4>4
    <3>6. \A i \in ToSet(hid_key_buf') : i <= Seen' /\ IsChar(i)'
      BY <1>ints, <1>elems, <1>0, <2>1, <2>2, <3>1, <3>3 DEF IsChar
    <3>7. \A n \in DOMAIN ntfs : \A i \in ToSet(ntfs[n].keys) : i <= Seen /\ i < dataKey
      <4>1. \A n \in DOMAIN ntfs : \A i \in ToSet(ntfs[n].keys) : i <= Seen
        BY DEF KeysInv, Strings, IsString
      <4>2. \A i \in DOMAIN emitted : i \in Nat
        BY <1>0
      <4> QED BY <4>1, <4>2, <1>elems, <1>ints, <2>2
    <3>8. Strings'
      <4>1. \A n \in DOMAIN ntfs : Before(ntfs[n].keys, hid_key_buf')
        BY <3>1, <3>7 DEF KeysInv, Strings, Before
      <4>2. \A n \in DOMAIN ntfs : Rising(ntfs[n].keys) /\ \A i \in ToSet(ntfs[n].keys) : i <= Seen' /\ IsChar(i)'
        <5>1. \A n \in DOMAIN ntfs : \A i \in ToSet(ntfs[n].keys) : i \in Nat /\ i <= Seen /\ IsChar(i)
          <6>1. \A n \in DOMAIN ntfs : \A i \in ToSet(ntfs[n].keys) : i <= Seen /\ IsChar(i)
            BY DEF KeysInv, Strings, IsString
          <6>2. \A i \in DOMAIN emitted : i \in Nat
            BY ONLY <1>0
          <6> QED BY <6>1, <6>2, <1>elems
        <5> QED BY <5>1, <1>ints, <2>1, <2>2 DEF KeysInv, Strings, IsString, IsChar
      <4> QED BY <2>1, <3>5, <3>6, <4>1, <4>2 DEF KeysInv, Strings, IsString
    <3>9. Covered'
      <4>1. SUFFICES ASSUME status = "running", NEW i \in 1 .. Seen + 1, IsChar(i)
                     PROVE  Gone(i) \/ i \in ToSet(hid_key_buf')
        BY <2>1, <2>2, <2>4 DEF Covered, IsChar, Gone, Buffered
      <4>2. CASE i \in 1 .. Seen
        BY <3>1, <4>1, <4>2 DEF KeysInv, Covered, Buffered
      <4>3. CASE i = dataKey
        BY <3>1, <4>3
      <4> QED BY <1>ints, <2>2, <4>2, <4>3
    <3> QED BY <2>2, <3>8, <3>9 DEF KeysInv
  <2> QED BY <1>2, <2>3, <2>4 DEF DataChar
<1>3. CASE DataOther
  <2>1. /\ dataPc = "key" /\ dataPc' = "recycle" /\ emitted[dataKey].kind = "other"
        /\ UNCHANGED <<status, emitted, rdKey, mq, dataKey, ntfs, hid_key_buf>>
    BY <1>3 DEF DataOther
  <2>2. /\ Marks' /\ Seen' = Seen + 1 /\ dataKey = Seen + 1 /\ ~IsChar(dataKey)
    BY <2>1, <1>key DEF IsChar
  <2>3. Strings'
    BY <1>ints, <2>1, <2>2, <1>later
  <2>4. Covered'
    <3>1. \A i \in 1 .. Seen + 1 : IsChar(i) => i \in 1 .. Seen
      BY <1>ints, <2>2
    <3> QED BY <2>1, <2>2, <3>1 DEF KeysInv, Covered, IsChar, Gone, Buffered
  <2> QED BY <2>2, <2>3, <2>4 DEF KeysInv
<1>report. ASSUME Report, UNCHANGED <<emitted, rdKey, mq, dataKey>>, Seen' \in Nat, Seen <= Seen',
                  status = "running",
                  \A i \in Seen + 1 .. Seen' : ~IsChar(i)
           PROVE  Strings' /\ Covered'
  <2>1. ntfs' = Append(ntfs, Ntf("data", hid_dev_type, hid_key_buf)) /\ hid_key_buf' = <<>>
    BY <1>report DEF Report
  <2>2. ToSet(<<>>) = {} /\ Rising(<<>>) /\ \A keys : Before(keys, <<>>)
    BY DEF ToSet, Rising, Before
  <2>3. IsString(hid_key_buf) /\ \A n \in DOMAIN ntfs : Before(ntfs[n].keys, hid_key_buf)
    BY DEF KeysInv, Strings
  <2>4. Strings'
    BY <1>0, <1>ints, <1>report, <2>1, <2>2, <2>3, StringsNotified DEF KeysInv
  <2>5. /\ \A n \in DOMAIN ntfs : n \in DOMAIN ntfs' /\ ntfs'[n] = ntfs[n]
        /\ Len(ntfs') \in DOMAIN ntfs' /\ ntfs'[Len(ntfs')].keys = hid_key_buf
    BY <1>0, <2>1, Notified
  <2>6. ASSUME NEW i \in 1 .. Seen', IsChar(i) PROVE Gone(i)'
    <3>1. i \in 1 .. Seen
      BY <1>ints, <1>report, <2>6
    <3>2. Gone(i) \/ i \in ToSet(hid_key_buf)
      BY <1>report, <2>6, <3>1 DEF KeysInv, Covered, Buffered
    <3> QED BY <2>5, <3>2 DEF Gone
  <2>7. Covered'
    BY <1>report, <2>6 DEF Covered, IsChar
  <2> QED BY <2>4, <2>7
<1>4. CASE DataEnter
  <2>1. /\ dataPc = "key" /\ dataPc' = "recycle" /\ emitted[dataKey].kind = "enter" /\ Report
        /\ status = "running" /\ UNCHANGED <<emitted, rdKey, mq, dataKey>>
    BY <1>4 DEF DataEnter
  <2>2. /\ Marks' /\ Seen' = Seen + 1 /\ Seen' \in Nat /\ dataKey = Seen + 1 /\ ~IsChar(dataKey)
    BY <2>1, <1>key DEF IsChar
  <2>3. Seen <= Seen' /\ \A i \in Seen + 1 .. Seen' : i = dataKey
    BY <1>ints, <2>2
  <2> QED BY <2>1, <2>2, <2>3, <1>report DEF KeysInv
<1>5. CASE DataCheck /\ Silent /\ hid_key_buf # <<>>
  <2>1. /\ dataPc = "check" /\ dataPc' \in {"restart", "pend"} /\ Report
        /\ status = "running" /\ UNCHANGED <<emitted, rdKey, mq, dataKey>>
    BY <1>5 DEF DataCheck
  <2>2. Posted' = Posted /\ Taken' = Taken /\ Seen' = Seen
    BY <2>1 DEF Posted, Taken, Seen
  <2>3. Marks'
    BY <2>1, <2>2 DEF KeysInv, Marks
  <2>4. Seen <= Seen' /\ \A i \in Seen + 1 .. Seen' : ~IsChar(i)
    BY <1>ints, <2>2
  <2> QED BY <1>ints, <2>1, <2>2, <2>3, <2>4, <1>report DEF KeysInv
<1>6. CASE DataCheck /\ ~(Silent /\ hid_key_buf # <<>>)
  BY <1>6, KeysKept DEF DataCheck
<1>7. CASE DataReset \/ DataRecycle \/ DataTimeout \/ DataRestart
  BY <1>7, KeysKept DEF DataReset, DataRecycle, DataTimeout, DataRestart
<1> QED BY <1>1, <1>2, <1>3, <1>4, <1>5, <1>6, <1>7 DEF DataTask

\* No report, no key.
LEMMA KeysInit == Init => KeysInv
<1> SUFFICES ASSUME Init PROVE KeysInv
  OBVIOUS
<1>1. Len(emitted) = 0 /\ Len(mq) = 0 /\ DOMAIN mq = {} /\ DOMAIN ntfs = {} /\ DOMAIN hid_key_buf = {}
  BY DEF Init
<1>2. Posted = 0 /\ Taken = 0 /\ Seen = 0
  <2>1. rdKey = NoKey /\ dataPc = "pend"
    BY DEF Init
  <2>2. Posted = 0
    BY <1>1, <2>1 DEF Posted
  <2>3. Taken = 0
    BY <1>1, <2>2 DEF Taken
  <2>4. dataPc \notin {"reset", "key"}
    BY <2>1
  <2>5. Seen = Taken - 0
    BY <2>4 DEF Seen
  <2> QED BY <2>2, <2>3, <2>5
<1>3. ToSet(hid_key_buf) = {}
  BY <1>1 DEF ToSet
<1> QED BY <1>1, <1>2, <1>3 DEF Init, KeysInv, Marks, Strings, IsString, Rising, Covered, NoKey

\* The indices stay in order from the mailbox to the strings reported, one case per action.
LEMMA KeysNext == TypeOK /\ Hands /\ KeysInv /\ [Next]_vars => KeysInv'
<1> SUFFICES ASSUME TypeOK, Hands, KeysInv, [Next]_vars PROVE KeysInv'
  OBVIOUS
<1> USE DEF env, reader, opening, data
<1>1. ASSUME NEW s \in Slots, Unplug(s) \/ \E type \in Types : Plug(type, s) PROVE KeysInv'
  BY <1>1, KeysKept DEF Unplug, Plug
<1>2. CASE EndScan
  BY <1>2, KeysKept DEF EndScan
<1>3. CASE UNCHANGED vars
  <2>1. Posted' = Posted /\ Taken' = Taken /\ Seen' = Seen
    BY <1>3 DEF vars, Posted, Taken, Seen
  <2> QED BY <1>3, <2>1 DEF vars, KeysInv, Marks, Strings, IsString, IsChar, Covered, Gone, Buffered
<1> QED BY <1>1, <1>2, <1>3, KeysReader, KeysData DEF Next, Halted

\* The places: the strings reported, hid_key_buf, the hands, the mailbox, the hands.
LEMMA PlacesAre ==
    ASSUME TypeOK, NEW N, N = Len(ntfs)
    PROVE  /\ N \in Nat /\ DOMAIN Places = 1 .. N + 4 /\ DOMAIN ntfs = 1 .. N
           /\ \A n \in 1 .. N : Places[n] = ntfs[n].keys
           /\ Places[N + 1] = hid_key_buf
           /\ Places[N + 2] = IF dataPc \in {"reset", "key"} THEN Key(dataKey) ELSE <<>>
           /\ Places[N + 3] = mq /\ Places[N + 4] = Key(rdKey)
<1> DEFINE E == Seq(Nat)
<1> PICK strings : strings = [n \in DOMAIN ntfs |-> ntfs[n].keys]
  OBVIOUS
<1> PICK hands : hands = IF dataPc \in {"reset", "key"} THEN Key(dataKey) ELSE <<>>
  OBVIOUS
<1> PICK rest : rest = <<hid_key_buf, hands, mq, Key(rdKey)>>
  OBVIOUS
<1>1. N \in Nat /\ DOMAIN ntfs = 1 .. N /\ \A n \in 1 .. N : ntfs[n] \in Notices
  BY DEF TypeOK
<1>2. \A s : s \in Seq(DOMAIN emitted) => s \in Seq(Nat)
  <2>1. emitted \in Seq(Reports)
    BY DEF TypeOK
  <2>2. DOMAIN emitted \subseteq Nat
    BY ONLY <2>1
  <2> QED BY <2>2, SeqWider
<1>3. /\ \A n \in 1 .. N : ntfs[n].keys \in Seq(Nat)
      /\ hid_key_buf \in Seq(Nat) /\ mq \in Seq(Nat)
  BY <1>1, <1>2 DEF TypeOK, Notices
<1>4. hands \in Seq(Nat) /\ Key(rdKey) \in Seq(Nat)
  BY DEF TypeOK, Key
<1>5. strings \in Seq(E) /\ Len(strings) = N /\ \A n \in 1 .. N : strings[n] = ntfs[n].keys
  <2>1. strings \in [1 .. N -> E]
    BY <1>1, <1>3
  <2> QED BY <1>1, <2>1
<1> HIDE DEF E
<1>6. /\ rest \in Seq(E) /\ Len(rest) = 4 /\ rest[1] = hid_key_buf /\ rest[2] = hands
      /\ rest[3] = mq /\ rest[4] = Key(rdKey)
  <2>1. hid_key_buf \in E /\ hands \in E /\ mq \in E /\ Key(rdKey) \in E
    BY <1>3, <1>4 DEF E
  <2> QED BY <2>1
<1>7. Places = strings \o rest
  BY DEF Places
<1>8. /\ Places \in Seq(E) /\ Len(Places) = N + 4
      /\ \A i \in 1 .. N + 4 : Places[i] = IF i <= N THEN strings[i] ELSE rest[i - N]
  BY <1>5, <1>6, <1>7, ConcatProperties
<1>9. DOMAIN Places = 1 .. N + 4
  BY <1>8
<1>10. /\ N + 1 \in 1 .. N + 4 /\ N + 2 \in 1 .. N + 4 /\ N + 3 \in 1 .. N + 4 /\ N + 4 \in 1 .. N + 4
       /\ (N + 1) - N = 1 /\ (N + 2) - N = 2 /\ (N + 3) - N = 3 /\ (N + 4) - N = 4
       /\ ~(N + 1 <= N) /\ ~(N + 2 <= N) /\ ~(N + 3 <= N) /\ ~(N + 4 <= N)
       /\ \A i \in 1 .. N : i \in 1 .. N + 4 /\ i <= N
  BY ONLY <1>1
<1>11. \A n \in 1 .. N : Places[n] = ntfs[n].keys
  BY ONLY <1>5, <1>8, <1>10
<1>12. /\ Places[N + 1] = rest[1] /\ Places[N + 2] = rest[2]
       /\ Places[N + 3] = rest[3] /\ Places[N + 4] = rest[4]
  BY ONLY <1>8, <1>10
<1> QED BY <1>1, <1>6, <1>9, <1>11, <1>12

\* Reports in order: nothing is lost, reported twice or overtaken.
LEMMA KeysOrdered == TypeOK /\ Hands /\ KeysInv => KeysInOrder
<1> SUFFICES ASSUME TypeOK, Hands, KeysInv, status = "running" PROVE KeysInOrder
  BY DEF KeysInOrder
<1> PICK N : N = Len(ntfs)
  OBVIOUS
<1> PICK hands : hands = IF dataPc \in {"reset", "key"} THEN Key(dataKey) ELSE <<>>
  OBVIOUS
<1>1. /\ N \in Nat /\ DOMAIN Places = 1 .. N + 4 /\ DOMAIN ntfs = 1 .. N
      /\ \A n \in 1 .. N : Places[n] = ntfs[n].keys
      /\ Places[N + 1] = hid_key_buf /\ Places[N + 2] = hands
      /\ Places[N + 3] = mq /\ Places[N + 4] = Key(rdKey)
  BY PlacesAre
<1>2. /\ DOMAIN emitted = 1 .. Len(emitted) /\ Len(emitted) \in Nat
      /\ mq \in Seq(DOMAIN emitted) /\ hid_key_buf \in Seq(DOMAIN emitted)
      /\ DOMAIN mq = 1 .. Len(mq) /\ Len(mq) \in Nat
      /\ \A n \in 1 .. N : ntfs[n] \in Notices
  <2>1. /\ emitted \in Seq(Reports) /\ mq \in Seq(DOMAIN emitted) /\ ntfs \in Seq(Notices)
        /\ hid_key_buf \in Seq(DOMAIN emitted)
    BY DEF TypeOK
  <2>2. DOMAIN emitted = 1 .. Len(emitted) /\ Len(emitted) \in Nat
    BY ONLY <2>1
  <2>3. DOMAIN mq = 1 .. Len(mq) /\ Len(mq) \in Nat
    BY ONLY <2>1
  <2>4. \A n \in DOMAIN ntfs : ntfs[n] \in Notices
    BY ONLY <2>1
  <2> QED BY <1>1, <2>1, <2>2, <2>3, <2>4
<1>3. /\ Posted \in Int /\ Posted <= Len(emitted) /\ Taken \in Int /\ Taken <= Posted
      /\ Seen \in Nat /\ Seen <= Taken
  <2>1. Posted \in Int /\ Posted <= Len(emitted)
    BY <1>2 DEF Posted
  <2>2. Taken \in Int /\ Taken <= Posted
    BY <1>2, <2>1 DEF Taken
  <2> QED BY <2>1, <2>2 DEF Seen, KeysInv, Marks
<1>4. \A i \in ToSet(hands) : i = Seen + 1 /\ i = Taken /\ dataPc \in {"reset", "key"} /\ i = dataKey
  <2>1. CASE dataPc \in {"reset", "key"}
    <3>1. dataKey # NoKey /\ dataKey = Taken /\ Taken = Seen + 1
      BY <2>1, <1>3 DEF Hands, KeysInv, Marks, Seen
    <3>2. ToSet(<<dataKey>>) = {dataKey}
      BY DEF ToSet
    <3> QED BY <2>1, <3>1, <3>2 DEF Key
  <2>2. CASE dataPc \notin {"reset", "key"}
    BY <2>2 DEF ToSet
  <2> QED BY <2>1, <2>2
<1>5. \A i \in ToSet(mq) : i \in Nat /\ Taken < i /\ i <= Posted
  <2>1. \A i \in ToSet(mq) : \E j \in 1 .. Len(mq) : mq[j] = i
    BY <1>2, ToSetElements
  <2>2. \A j \in 1 .. Len(mq) : mq[j] = Taken + j /\ mq[j] \in Nat
    <3>1. \A j \in 1 .. Len(mq) : mq[j] = Taken + j
      BY <1>2 DEF KeysInv, Marks
    <3>2. \A j \in 1 .. Len(mq) : mq[j] \in DOMAIN emitted
      BY <1>2
    <3> QED BY <1>2, <3>1, <3>2
  <2>3. Posted = Taken + Len(mq)
    BY <1>2, <1>3 DEF Taken
  <2> QED BY <1>2, <1>3, <2>1, <2>2, <2>3
<1>6. \A i \in ToSet(Key(rdKey)) : i = Posted + 1 /\ i = rdKey
  <2>1. CASE rdKey # NoKey
    <3>1. rdKey = Len(emitted) /\ Posted = Len(emitted) - 1
      BY <2>1 DEF KeysInv, Marks, Posted
    <3>2. ToSet(<<rdKey>>) = {rdKey}
      BY DEF ToSet
    <3> QED BY <1>2, <2>1, <3>1, <3>2 DEF Key
  <2>2. CASE rdKey = NoKey
    BY <2>2 DEF ToSet, Key
  <2> QED BY <2>1, <2>2
<1>7. \A p \in 1 .. N + 1 : \A i \in ToSet(Places[p]) : i \in Nat /\ i <= Seen /\ IsChar(i)
  <2>1. \A n \in 1 .. N : ntfs[n].keys \in Seq(DOMAIN emitted)
    BY <1>2 DEF Notices
  <2>2. \A n \in 1 .. N : \A i \in ToSet(ntfs[n].keys) : i \in DOMAIN emitted
    BY <2>1, ToSetElements
  <2>3. \A i \in ToSet(hid_key_buf) : i \in DOMAIN emitted
    BY <1>2, ToSetElements
  <2>4. \A n \in 1 .. N : \A i \in ToSet(ntfs[n].keys) : i \in Nat /\ i <= Seen /\ IsChar(i)
    <3>1. \A n \in 1 .. N : \A i \in ToSet(ntfs[n].keys) : i <= Seen /\ IsChar(i)
      BY <1>1 DEF KeysInv, Strings, IsString
    <3>2. \A i \in DOMAIN emitted : i \in Nat
      BY <1>2
    <3> QED BY <2>2, <3>1, <3>2
  <2>5. \A i \in ToSet(hid_key_buf) : i \in Nat /\ i <= Seen /\ IsChar(i)
    BY <1>2, <2>3 DEF KeysInv, Strings, IsString
  <2> QED BY <1>1, <2>4, <2>5
<1>8. \A p \in DOMAIN Places : Rising(Places[p])
  <2>1. Rising(mq)
    <3>1. \A i, j \in DOMAIN mq : mq[i] = Taken + i /\ mq[j] = Taken + j /\ i \in Nat /\ j \in Nat
      BY <1>2 DEF KeysInv, Marks
    <3> QED BY <1>3, <3>1 DEF Rising
  <2>2. \A i : Rising(Key(i)) /\ Rising(<<>>)
    BY DEF Rising, Key
  <2>3. Rising(hands)
    BY <2>2
  <2>4. \A p \in 1 .. N + 1 : Rising(Places[p])
    BY <1>1 DEF KeysInv, Strings, IsString
  <2> QED BY <1>1, <2>1, <2>2, <2>3, <2>4
<1>9. ASSUME NEW p \in DOMAIN Places, NEW q \in DOMAIN Places, p < q
      PROVE  Before(Places[p], Places[q])
  <2>1. CASE q <= N + 1
    BY <1>1, <1>9, <2>1 DEF KeysInv, Strings
  <2>2. CASE q = N + 2
    <3>1. p \in 1 .. N + 1
      BY <1>1, <1>9, <2>2
    <3>2. \A i \in ToSet(Places[p]) : i \in Nat /\ i <= Seen
      BY <1>7, <3>1
    <3>3. \A i \in ToSet(Places[q]) : i = Seen + 1
      BY <1>1, <1>4, <2>2
    <3>4. \A i, j : i \in Nat /\ i <= Seen /\ j = Seen + 1 => i < j
      BY ONLY <1>3
    <3> QED BY <3>2, <3>3, <3>4 DEF Before
  <2>3. CASE q = N + 3
    <3>1. \A i \in ToSet(Places[p]) : i \in Nat /\ i <= Taken
      <4>1. CASE p \in 1 .. N + 1
        <5>1. \A i \in ToSet(Places[p]) : i \in Nat /\ i <= Seen
          BY <1>7, <4>1
        <5>2. \A i : i \in Nat /\ i <= Seen => i <= Taken
          BY ONLY <1>3
        <5> QED BY ONLY <5>1, <5>2
      <4>2. CASE p = N + 2
        BY <1>1, <1>3, <1>4, <4>2
      <4> QED BY <1>1, <1>9, <2>3, <4>1, <4>2
    <3> QED BY <1>1, <1>3, <1>5, <2>3, <3>1 DEF Before
  <2>4. CASE q = N + 4
    <3>1. \A i \in ToSet(Places[p]) : i \in Nat /\ i <= Posted
      <4>1. CASE p \in 1 .. N + 1
        <5>1. \A i \in ToSet(Places[p]) : i \in Nat /\ i <= Seen
          BY <1>7, <4>1
        <5>2. \A i : i \in Nat /\ i <= Seen => i <= Posted
          BY ONLY <1>3
        <5> QED BY ONLY <5>1, <5>2
      <4>2. CASE p = N + 2
        BY <1>1, <1>3, <1>4, <4>2
      <4>3. CASE p = N + 3
        BY <1>1, <1>3, <1>5, <4>3
      <4> QED BY <1>1, <1>9, <2>4, <4>1, <4>2, <4>3
    <3> QED BY <1>1, <1>3, <1>6, <2>4, <3>1 DEF Before
  <2> QED BY <1>1, <2>1, <2>2, <2>3, <2>4
<1>10. ASSUME NEW i \in DOMAIN emitted, IsChar(i)
       PROVE  \E p \in DOMAIN Places : i \in ToSet(Places[p])
  <2>1. CASE i <= Seen
    <3>1. Gone(i) \/ i \in ToSet(hid_key_buf)
      BY <1>2, <1>3, <1>10, <2>1 DEF KeysInv, Covered, Buffered
    <3> QED BY <1>1, <3>1 DEF Gone
  <2>2. CASE Seen < i /\ i <= Taken
    <3>1. dataPc \in {"reset", "key"} /\ Taken = Seen + 1
      BY <1>2, <1>3, <2>2 DEF Seen
    <3>2. dataKey # NoKey /\ dataKey = i
      BY <1>2, <1>3, <2>2, <3>1 DEF Hands, KeysInv, Marks
    <3>3. i \in ToSet(hands)
      BY <3>1, <3>2 DEF Key, ToSet
    <3> QED BY <1>1, <3>3
  <2>3. CASE Taken < i /\ i <= Posted
    <3>1. i - Taken \in DOMAIN mq /\ mq[i - Taken] = Taken + (i - Taken)
      BY <1>2, <1>3, <2>3 DEF Taken, KeysInv, Marks
    <3>2. i \in ToSet(mq)
      BY <1>2, <1>3, <3>1 DEF ToSet
    <3> QED BY <1>1, <3>2
  <2>4. CASE Posted < i
    <3>1. rdKey # NoKey /\ i = Len(emitted)
      BY <1>2, <1>3, <2>4 DEF Posted
    <3>2. i \in ToSet(Key(rdKey))
      BY <3>1 DEF Key, ToSet, KeysInv, Marks
    <3> QED BY <1>1, <3>2
  <2> QED BY <1>2, <1>3, <2>1, <2>2, <2>3, <2>4
<1> QED BY <1>1, <1>7, <1>8, <1>9, <1>10 DEF KeysInOrder

\* Whatever the timing, no character that was read is lost, reported twice or overtaken.
THEOREM KeysInOrderHolds == Spec => []KeysInOrder
<1>1. Spec => [](TypeOK /\ Hands /\ Accounted)
  BY HidInitType, HidNextType, PTL DEF Spec
<1>2. Spec => []KeysInv
  BY <1>1, KeysInit, KeysNext, PTL DEF Spec
<1> QED BY <1>1, <1>2, KeysOrdered, PTL

-----------------------------------------------------------------------------
(* Scans, under the timing assumptions.                                      *)

\* Scans follow one another, and an Enter ends one.
ScansGrow ==
    /\ \A i, j \in DOMAIN emitted : i < j =>
          /\ emitted[i].scan <= emitted[j].scan
          /\ emitted[i].kind = "enter" => emitted[i].scan < emitted[j].scan
    /\ inScan => emitted # <<>> /\ Last(emitted).kind # "enter"

\* What is not treated yet follows what is in hid_key_buf, or one another, in the same
\* scan or after its Enter; hid_key_buf is of one scan.
Unbroken(j) ==
    j + 1 \in DOMAIN emitted =>
       (emitted[j + 1].scan = emitted[j].scan \/ emitted[j].kind = "enter")
OneScan ==
    /\ \A j \in DOMAIN emitted : (j > Seen \/ (j = Seen /\ hid_key_buf # <<>>)) => Unbroken(j)
    /\ \A k \in ToSet(hid_key_buf) : \A j \in k .. Seen :
          emitted[j].scan = emitted[k].scan /\ emitted[j].kind # "enter"

\* The scans reported are over.
ScansApart ==
    \A i \in DOMAIN emitted : Gone(i) =>
        /\ inScan => emitted[i].scan # Scan
        /\ \A j \in DOMAIN emitted : (j > Seen \/ Buffered(j)) => emitted[j].scan # emitted[i].scan

\* A string of one scan that has all its characters.
Whole(keys) ==
    \A i \in ToSet(keys) :
       /\ \A j \in ToSet(keys) : emitted[i].scan = emitted[j].scan
       /\ \A k \in DOMAIN emitted : (IsChar(k) /\ emitted[k].scan = emitted[i].scan) => k \in ToSet(keys)
AllWhole == \A n \in DOMAIN ntfs : Whole(ntfs[n].keys)

ScansInv == ScansGrow /\ OneScan /\ ScansApart /\ AllWhole

\* While more of a scan is to come after what is in hid_key_buf, the timer is not ahead
\* of the gap of the reader: the time-out waits for it.
Awaits == \/ dataPc \in {"recycle", "pend", "check"} /\ hid_key_buf # <<>>
          \/ dataPc = "key" /\ emitted[dataKey].kind # "enter"
Quiet ==
    /\ dataPc = "restart" => hid_key_buf = <<>>
    /\ (Awaits /\ mq = <<>> /\ (inScan \/ rdKey # NoKey)) => timer <= gap
    /\ (dataPc = "check" /\ hid_key_buf # <<>> /\ (inScan \/ mq # <<>> \/ rdKey # NoKey))
          => timer < HID_TIME_OUT

\* Where the reports are.
LEMMA Counted ==
    ASSUME TypeOK, Hands, KeysInv
    PROVE  /\ Len(emitted) \in Nat /\ DOMAIN emitted = 1 .. Len(emitted)
           /\ Posted \in Int /\ Posted <= Len(emitted) /\ Taken \in Int /\ Taken <= Posted
           /\ Seen \in Nat /\ Seen <= Taken /\ Seen <= Len(emitted)
           /\ \A i \in ToSet(hid_key_buf) : i \in DOMAIN emitted /\ i <= Seen
           /\ hid_key_buf # <<>> => \E k : k \in ToSet(hid_key_buf)
           /\ \A i : Gone(i) => (i \in DOMAIN emitted /\ i <= Seen)
           /\ dataPc = "key" => (dataKey = Seen + 1 /\ dataKey \in DOMAIN emitted)
           /\ (mq = <<>> /\ rdKey = NoKey) =>
                 Seen = Len(emitted) - (IF dataPc \in {"reset", "key"} THEN 1 ELSE 0)
<1>1. /\ emitted \in Seq(Reports) /\ mq \in Seq(DOMAIN emitted) /\ hid_key_buf \in Seq(DOMAIN emitted)
      /\ \A n \in DOMAIN ntfs : ntfs[n] \in Notices
  BY DEF TypeOK
<1>2. /\ Len(emitted) \in Nat /\ DOMAIN emitted = 1 .. Len(emitted) /\ Len(mq) \in Nat
  BY <1>1
<1>3. Posted \in Int /\ Posted <= Len(emitted)
  BY <1>2 DEF Posted
<1>4. Taken \in Int /\ Taken <= Posted
  BY <1>2, <1>3 DEF Taken
<1>5. Seen \in Nat /\ Seen <= Taken
  BY <1>4 DEF Seen, KeysInv, Marks
<1>6. /\ \A i \in ToSet(hid_key_buf) : i \in DOMAIN emitted /\ i <= Seen
      /\ hid_key_buf # <<>> => \E k : k \in ToSet(hid_key_buf)
  <2>1. \A i \in ToSet(hid_key_buf) : i \in DOMAIN emitted
    BY <1>1, ToSetElements
  <2>2. hid_key_buf # <<>> => 1 \in DOMAIN hid_key_buf
    BY <1>1
  <2> QED BY <2>1, <2>2 DEF KeysInv, Strings, IsString, ToSet
<1>7. \A i : Gone(i) => (i \in DOMAIN emitted /\ i <= Seen)
  <2>1. ASSUME NEW n \in DOMAIN ntfs, NEW i \in ToSet(ntfs[n].keys) PROVE i \in DOMAIN emitted /\ i <= Seen
    <3>1. ntfs[n].keys \in Seq(DOMAIN emitted)
      BY <1>1 DEF Notices
    <3>2. i \in DOMAIN emitted
      BY <3>1, ToSetElements
    <3> QED BY <3>2, <2>1 DEF KeysInv, Strings, IsString
  <2> QED BY <2>1 DEF Gone
<1>8. dataPc = "key" => (dataKey = Seen + 1 /\ dataKey \in DOMAIN emitted)
  <2>1. SUFFICES ASSUME dataPc = "key" PROVE dataKey = Seen + 1 /\ dataKey \in DOMAIN emitted
    OBVIOUS
  <2>2. Seen = Taken - 1 /\ dataKey # NoKey
    BY <2>1 DEF Seen, Hands
  <2>3. dataKey = Taken /\ dataKey \in 0 .. Len(emitted)
    BY <2>2 DEF KeysInv, Marks, TypeOK
  <2> QED BY <1>2, <1>4, <2>2, <2>3 DEF NoKey
<1>9. (mq = <<>> /\ rdKey = NoKey) =>
         Seen = Len(emitted) - (IF dataPc \in {"reset", "key"} THEN 1 ELSE 0)
  <2>1. SUFFICES ASSUME mq = <<>>, rdKey = NoKey
                 PROVE  Seen = Len(emitted) - (IF dataPc \in {"reset", "key"} THEN 1 ELSE 0)
    OBVIOUS
  <2>2. Len(mq) = 0 /\ Posted = Len(emitted)
    BY <1>2, <2>1 DEF Posted
  <2>3. Taken = Len(emitted)
    BY <1>2, <2>2 DEF Taken
  <2> QED BY <2>3 DEF Seen
<1>10. Seen <= Len(emitted)
  BY <1>2, <1>3, <1>4, <1>5
<1> QED BY <1>2, <1>3, <1>4, <1>5, <1>6, <1>7, <1>8, <1>9, <1>10, Zenon

\* Reports are treated one by one, with the look at the key.
LEMMA SeenMoves ==
    ASSUME TypeOK, Hands, KeysInv, [Next]_vars
    PROVE  /\ (DataChar \/ DataOther \/ DataEnter) =>
                 (Seen' = Seen + 1 /\ dataKey = Seen + 1 /\ dataKey \in DOMAIN emitted)
           /\ ~(DataChar \/ DataOther \/ DataEnter) => Seen' = Seen
<1> USE DEF reader, opening, data, env
<1>0. /\ emitted \in Seq(Reports) /\ mq \in Seq(DOMAIN emitted)
      /\ Len(emitted) \in Nat /\ Len(mq) \in Nat
      /\ Posted \in Int /\ Taken \in Int /\ Seen \in Nat
  BY Counted DEF TypeOK
<1>1. ASSUME DataChar \/ DataOther \/ DataEnter
      PROVE  Seen' = Seen + 1 /\ dataKey = Seen + 1 /\ dataKey \in DOMAIN emitted
  <2>1. dataPc = "key" /\ dataPc' = "recycle" /\ UNCHANGED <<emitted, rdKey, mq>>
    BY <1>1 DEF DataChar, DataOther, DataEnter
  <2>2. Taken' = Taken
    BY <2>1 DEF Posted, Taken
  <2>3. Seen = Taken - 1 /\ Seen' = Taken - 0
    BY <2>1, <2>2 DEF Seen
  <2> QED BY <1>0, <2>1, <2>3, Counted
<1>kept. ASSUME UNCHANGED <<emitted, rdKey, mq>>, dataPc' \in {"reset", "key"} <=> dataPc \in {"reset", "key"}
         PROVE  Seen' = Seen
  BY <1>kept DEF Posted, Taken, Seen
<1>2. CASE \E kind \in Kinds : HidRead(kind)
  <2>1. Len(emitted') = Len(emitted) + 1 /\ rdKey' # NoKey
    BY <1>0, <1>2, OneMoreReport DEF NoKey
  <2>2. rdKey = NoKey /\ UNCHANGED <<mq, dataPc>>
    BY <1>2 DEF HidRead, Hands
  <2> QED BY <1>0, <2>1, <2>2 DEF Posted, Taken, Seen, HidRead, DataChar, DataOther, DataEnter
<1>3. CASE HidPost
  <2>1. /\ rdKey # NoKey /\ rdKey' = NoKey /\ mq' = Append(mq, rdKey)
        /\ UNCHANGED <<emitted, dataPc>>
    BY <1>3 DEF HidPost, Hands
  <2>2. Len(mq') = Len(mq) + 1
    <3>1. rdKey \in DOMAIN emitted
      BY <1>0, <2>1 DEF TypeOK, NoKey
    <3> QED BY <1>0, <2>1, <3>1
  <2>3. Posted = Len(emitted) - 1 /\ Posted' = Len(emitted)
    BY <1>0, <2>1 DEF Posted
  <2>4. Taken' = Taken
    BY <1>0, <2>2, <2>3 DEF Taken
  <2> QED BY <1>1, <2>1, <2>4 DEF Seen
<1>4. CASE DataTake
  <2>1. /\ dataPc = "pend" /\ dataPc' = "reset" /\ mq # <<>> /\ mq' = Tail(mq)
        /\ UNCHANGED <<emitted, rdKey>>
    BY <1>4 DEF DataTake
  <2>2. Len(mq') = Len(mq) - 1
    BY <1>0, <2>1
  <2>3. Posted' = Posted
    BY <2>1 DEF Posted
  <2>4. Taken' = Taken + 1
    BY <1>0, <2>2, <2>3 DEF Taken
  <2>5. Seen = Taken - 0 /\ Seen' = Taken' - 1
    BY <2>1 DEF Seen
  <2> QED BY <1>0, <1>1, <2>4, <2>5
<1>5. CASE UNCHANGED vars
  BY <1>5, <1>1, <1>kept DEF vars
<1>6. CASE \/ EndScan \/ CheckSlot \/ OpenFile \/ IdentifyHid \/ HidInsert \/ HidProduce
           \/ HidReadError \/ HidPullout \/ TimerTick \/ DataReset \/ DataRecycle \/ DataTimeout
           \/ DataRestart \/ \E s \in Slots : Unplug(s) \/ \E type \in Types : Plug(type, s)
  BY <1>6, <1>1, <1>kept
  DEF EndScan, CheckSlot, OpenFile, IdentifyHid, HidInsert, HidProduce, HidReadError, HidPullout,
      TimerTick, DataReset, DataRecycle, DataTimeout, DataRestart, Unplug, Plug
<1>7. CASE DataCheck
  BY <1>7, <1>1, <1>kept DEF DataCheck
<1> QED BY <1>1, <1>2, <1>3, <1>4, <1>5, <1>6, <1>7
  DEF Next, ReadTask, ReadSteps, DataTask, Halted

\* The last report, and the scans it bounds.
LEMMA LastReport ==
    ASSUME TypeOK
    PROVE  /\ Scan \in Nat
           /\ \A i \in DOMAIN emitted : emitted[i].scan \in Nat
           /\ emitted # <<>> => /\ Len(emitted) \in DOMAIN emitted
                                /\ Last(emitted) = emitted[Len(emitted)]
                                /\ Scan = emitted[Len(emitted)].scan
<1>1. emitted \in Seq(Reports) /\ \A i \in DOMAIN emitted : emitted[i] \in Reports
  BY DEF TypeOK
<1>2. \A i \in DOMAIN emitted : emitted[i].scan \in Nat
  BY <1>1 DEF Reports
<1>3. emitted # <<>> => Len(emitted) \in DOMAIN emitted
  BY <1>1
<1> QED BY <1>2, <1>3 DEF Scan, Last

\* Steps that neither treat a report nor touch a string.
LEMMA ScansKept ==
    ASSUME ScansInv, UNCHANGED <<emitted, hid_key_buf, ntfs>>, Seen' = Seen, inScan' => inScan
    PROVE  ScansInv'
<1>1. \A i : (Gone(i)' <=> Gone(i)) /\ (Buffered(i)' <=> Buffered(i)) /\ (IsChar(i)' <=> IsChar(i))
  BY DEF Gone, Buffered, IsChar
<1>2. ScansGrow'
  BY DEF ScansInv, ScansGrow
<1>3. OneScan'
  BY DEF ScansInv, OneScan, Unbroken
<1>4. ScansApart'
  BY <1>1 DEF ScansInv, ScansApart, Scan
<1>5. AllWhole'
  BY <1>1 DEF ScansInv, AllWhole, Whole
<1> QED BY <1>2, <1>3, <1>4, <1>5 DEF ScansInv

\* Insertions and pull-outs.
LEMMA ScansSaid ==
    ASSUME TypeOK, ScansInv, NEW cmd \in {"insert", "pullout", "data"},
           ntfs' = Append(ntfs, Ntf(cmd, hid_dev_type, <<>>)),
           UNCHANGED <<emitted, hid_key_buf, inScan>>, Seen' = Seen
    PROVE  ScansInv'
<1>0. <<>> \in Seq(DOMAIN emitted) /\ ToSet(<<>>) = {}
  BY DEF ToSet
<1>1. /\ \A n \in DOMAIN ntfs : n \in DOMAIN ntfs' /\ ntfs'[n] = ntfs[n]
      /\ ntfs'[Len(ntfs')].keys = <<>>
      /\ \A n \in DOMAIN ntfs' : n = Len(ntfs') \/ n \in DOMAIN ntfs
  BY <1>0, Notified
<1>2. \A i : (Gone(i)' <=> Gone(i)) /\ (Buffered(i)' <=> Buffered(i)) /\ (IsChar(i)' <=> IsChar(i))
  BY <1>0, <1>1 DEF Gone, Buffered, IsChar
<1>3. ScansGrow' /\ OneScan'
  BY DEF ScansInv, ScansGrow, OneScan, Unbroken
<1>4. ScansApart'
  BY <1>2 DEF ScansInv, ScansApart, Scan
<1>5. AllWhole'
  BY <1>0, <1>1, <1>2 DEF ScansInv, AllWhole, Whole
<1> QED BY <1>3, <1>4, <1>5 DEF ScansInv

\* A report is read: it is of no scan that was reported, and follows the last one.
LEMMA ScansRead ==
    ASSUME Timely, TypeOK, Hands, KeysInv, ScansInv, NEW kind \in Kinds, HidRead(kind), Seen' = Seen
    PROVE  ScansInv'
<1> PICK L : L = Len(emitted)
  OBVIOUS
<1>1. /\ Len(emitted') = L + 1 /\ DOMAIN emitted' = 1 .. L + 1
      /\ \A i \in DOMAIN emitted : i \in DOMAIN emitted' /\ emitted'[i] = emitted[i]
      /\ emitted'[L + 1] =
            [kind |-> kind, scan |-> IF inScan THEN Scan ELSE Scan + 1, session |-> fd]
  BY OneMoreReport
<1>2. /\ L \in Nat /\ DOMAIN emitted = 1 .. L /\ Seen \in Nat /\ Seen <= L
      /\ \A i \in ToSet(hid_key_buf) : i \in DOMAIN emitted /\ i <= Seen
      /\ hid_key_buf # <<>> => \E k : k \in ToSet(hid_key_buf)
      /\ \A i : Gone(i) => (i \in DOMAIN emitted /\ i <= Seen)
      /\ Scan \in Nat /\ \A i \in DOMAIN emitted : emitted[i].scan \in Nat
      /\ emitted # <<>> => (L \in DOMAIN emitted /\ Last(emitted) = emitted[L] /\ Scan = emitted[L].scan)
      /\ emitted = <<>> => Scan = 0 /\ L = 0
  <2>1. emitted = <<>> => Scan = 0 /\ L = 0
    BY DEF Scan
  <2> QED BY <2>1, Counted, LastReport
<1>3. /\ emitted'[L + 1].kind = kind /\ inScan' = (kind # "enter")
      /\ inScan => emitted'[L + 1].scan = Scan
      /\ ~inScan => emitted'[L + 1].scan = Scan + 1
      /\ UNCHANGED <<hid_key_buf, ntfs>>
      /\ ~inScan /\ emitted # <<>> => Last(emitted).kind = "enter" \/ Drained
  BY <1>1 DEF HidRead, TimelyScan, data
<1>4. emitted' # <<>> /\ Last(emitted') = emitted'[L + 1] /\ Scan' = emitted'[L + 1].scan
  <2>1. emitted' # <<>> /\ Last(emitted') = emitted'[L + 1]
    BY <1>1, <1>2 DEF Last
  <2> QED BY <2>1 DEF Scan
<1>5. \A i \in DOMAIN emitted : /\ emitted[i].scan <= Scan
                                /\ (emitted[i].kind = "enter" /\ inScan) => emitted[i].scan < Scan
  <2> TAKE i \in DOMAIN emitted
  <2>1. emitted # <<>>
    BY <1>2
  <2>2. CASE i = L
    BY <1>2, <2>1, <2>2 DEF ScansInv, ScansGrow
  <2>3. CASE i < L
    BY <1>2, <2>1, <2>3 DEF ScansInv, ScansGrow
  <2> QED BY <1>2, <2>2, <2>3
<1>6. ScansGrow'
  <2>1. ASSUME NEW i \in DOMAIN emitted', NEW j \in DOMAIN emitted', i < j
        PROVE  /\ emitted'[i].scan <= emitted'[j].scan
               /\ emitted'[i].kind = "enter" => emitted'[i].scan < emitted'[j].scan
    <3>1. i \in DOMAIN emitted /\ emitted'[i] = emitted[i]
      BY <1>1, <1>2, <2>1
    <3>2. CASE j = L + 1
      BY <1>2, <1>3, <1>5, <3>1, <3>2
    <3>3. CASE j \in DOMAIN emitted
      BY <1>1, <2>1, <3>1, <3>3 DEF ScansInv, ScansGrow
    <3> QED BY <1>1, <1>2, <3>2, <3>3
  <2>2. inScan' => emitted' # <<>> /\ Last(emitted').kind # "enter"
    BY <1>3, <1>4
  <2> QED BY <2>1, <2>2 DEF ScansGrow
<1>7. OneScan'
  <2>1. ASSUME NEW j \in DOMAIN emitted', j > Seen \/ (j = Seen /\ hid_key_buf # <<>>), j + 1 \in DOMAIN emitted'
        PROVE  emitted'[j + 1].scan = emitted'[j].scan \/ emitted'[j].kind = "enter"
    <3>1. j \in DOMAIN emitted /\ emitted'[j] = emitted[j]
      BY <1>1, <1>2, <2>1
    <3>2. CASE j + 1 \in DOMAIN emitted
      BY <1>1, <2>1, <3>1, <3>2 DEF ScansInv, OneScan, Unbroken
    <3>3. CASE j = L
      <4>1. emitted # <<>> /\ Scan = emitted[L].scan /\ Last(emitted) = emitted[L]
        BY <1>2, <3>1, <3>3
      <4>2. CASE inScan
        BY <1>3, <3>1, <3>3, <4>1, <4>2
      <4>3. CASE ~inScan /\ Last(emitted).kind = "enter"
        BY <3>1, <3>3, <4>1, <4>3
      <4>4. CASE Drained
        <5>1. Seen = L - 0 /\ hid_key_buf = <<>>
          BY <4>4, Counted DEF Drained
        <5> QED BY <1>2, <2>1, <3>3, <5>1
      <4> QED BY <1>3, <4>1, <4>2, <4>3, <4>4
    <3> QED BY <1>1, <1>2, <2>1, <3>1, <3>2, <3>3
  <2>2. ASSUME NEW k \in ToSet(hid_key_buf), NEW j \in k .. Seen
        PROVE  emitted'[j].scan = emitted'[k].scan /\ emitted'[j].kind # "enter"
    <3>1. k \in DOMAIN emitted /\ j \in DOMAIN emitted
      BY <1>2, <2>2
    <3>2. emitted[j].scan = emitted[k].scan /\ emitted[j].kind # "enter"
      BY <2>2 DEF ScansInv, OneScan
    <3> QED BY <1>1, <3>1, <3>2
  <2> QED BY <1>3, <2>1, <2>2 DEF OneScan, Unbroken
<1>new. ASSUME NEW i, Gone(i) PROVE i \in DOMAIN emitted /\ emitted'[L + 1].scan # emitted[i].scan
  <2>1. i \in DOMAIN emitted /\ emitted[i].scan <= Scan /\ emitted[i].scan \in Nat
    BY <1>2, <1>5, <1>new
  <2>2. inScan => emitted[i].scan # Scan
    BY <1>new, <2>1 DEF ScansInv, ScansApart
  <2> QED BY <1>2, <1>3, <2>1, <2>2
<1>8. ScansApart'
  <2>1. SUFFICES ASSUME NEW i \in DOMAIN emitted', Gone(i)
                 PROVE  /\ emitted'[i].scan # Scan'
                        /\ \A j \in DOMAIN emitted' : (j > Seen \/ Buffered(j)) => emitted'[j].scan # emitted'[i].scan
    BY <1>3 DEF ScansApart, Gone, Buffered
  <2>2. i \in DOMAIN emitted /\ emitted'[i] = emitted[i] /\ emitted'[L + 1].scan # emitted[i].scan
    BY <1>1, <1>new, <2>1
  <2>3. ASSUME NEW j \in DOMAIN emitted', j > Seen \/ Buffered(j) PROVE emitted'[j].scan # emitted'[i].scan
    <3>1. CASE j = L + 1
      BY <2>2, <3>1
    <3>2. CASE j \in DOMAIN emitted
      BY <1>1, <2>1, <2>2, <2>3, <3>2 DEF ScansInv, ScansApart
    <3> QED BY <1>1, <1>2, <3>1, <3>2
  <2> QED BY <1>4, <2>2, <2>3
<1>9. AllWhole'
  <2>1. ASSUME NEW n \in DOMAIN ntfs PROVE Whole(ntfs[n].keys)'
    <3>1. Whole(ntfs[n].keys) /\ \A i \in ToSet(ntfs[n].keys) : Gone(i)
      BY DEF ScansInv, AllWhole, Gone
    <3>2. SUFFICES ASSUME NEW i \in ToSet(ntfs[n].keys)
                   PROVE  /\ \A j \in ToSet(ntfs[n].keys) : emitted'[i].scan = emitted'[j].scan
                          /\ \A k \in DOMAIN emitted' :
                                (emitted'[k].kind = "char" /\ emitted'[k].scan = emitted'[i].scan) => k \in ToSet(ntfs[n].keys)
      BY <1>3 DEF Whole, IsChar
    <3>3. i \in DOMAIN emitted /\ emitted'[i] = emitted[i] /\ emitted'[L + 1].scan # emitted[i].scan
      BY <1>1, <1>new, <3>1
    <3>4. \A j \in ToSet(ntfs[n].keys) : emitted'[i].scan = emitted'[j].scan
      BY <1>1, <1>2, <3>1, <3>3 DEF Whole
    <3>5. ASSUME NEW k \in DOMAIN emitted', emitted'[k].kind = "char", emitted'[k].scan = emitted'[i].scan
          PROVE  k \in ToSet(ntfs[n].keys)
      <4>1. k \in DOMAIN emitted
        BY <1>1, <1>2, <3>3, <3>5
      <4> QED BY <1>1, <3>1, <3>3, <3>5, <4>1 DEF Whole, IsChar
    <3> QED BY <3>4, <3>5
  <2> QED BY <1>3, <2>1 DEF AllWhole
<1> QED BY <1>6, <1>7, <1>8, <1>9 DEF ScansInv

\* A report that is not an Enter is treated: a character follows those of its scan.
LEMMA ScansKey ==
    ASSUME TypeOK, Hands, KeysInv, ScansInv, UNCHANGED <<emitted, inScan, ntfs>>,
           Seen' = Seen + 1, dataKey = Seen + 1, dataKey \in DOMAIN emitted,
           emitted[dataKey].kind # "enter",
           \/ hid_key_buf' = hid_key_buf
           \/ hid_key_buf' = Append(hid_key_buf, dataKey)
    PROVE  ScansInv'
<1>0. /\ DOMAIN emitted = 1 .. Len(emitted) /\ Len(emitted) \in Nat /\ Seen \in Nat
      /\ \A i \in ToSet(hid_key_buf) : i \in DOMAIN emitted /\ i <= Seen
      /\ hid_key_buf # <<>> => \E k : k \in ToSet(hid_key_buf)
  BY Counted
<1>1. \/ hid_key_buf' = hid_key_buf
      \/ ToSet(hid_key_buf') = ToSet(hid_key_buf) \cup {dataKey}
  <2>1. hid_key_buf \in Seq(DOMAIN emitted)
    BY DEF TypeOK
  <2>2. ToSet(Append(hid_key_buf, dataKey)) = ToSet(hid_key_buf) \cup {dataKey}
    BY <2>1, AppendSet
  <2> QED BY <2>2
<1>2. ASSUME NEW k \in ToSet(hid_key_buf)
      PROVE  emitted[dataKey].scan = emitted[k].scan
  <2>1. hid_key_buf # <<>> /\ Seen \in DOMAIN emitted /\ Seen \in k .. Seen /\ Seen + 1 \in DOMAIN emitted
    <3>1. hid_key_buf # <<>>
      BY <1>2 DEF ToSet
    <3> QED BY <1>0, <1>2, <3>1
  <2>2. Unbroken(Seen)
    BY <2>1 DEF ScansInv, OneScan
  <2>3. emitted[Seen].scan = emitted[k].scan /\ emitted[Seen].kind # "enter"
    BY <2>1 DEF ScansInv, OneScan
  <2> QED BY <2>1, <2>2, <2>3 DEF Unbroken
<1>3. ScansGrow'
  BY DEF ScansInv, ScansGrow
<1>4. OneScan'
  <2>1. \A j \in DOMAIN emitted : (j > Seen' \/ j = Seen') => Unbroken(j)'
    <3>1. \A j \in DOMAIN emitted : (j > Seen' \/ j = Seen') => j > Seen
      BY <1>0
    <3> QED BY <3>1 DEF ScansInv, OneScan, Unbroken
  <2>2. ASSUME NEW k \in ToSet(hid_key_buf'), NEW j \in k .. Seen'
        PROVE  emitted[j].scan = emitted[k].scan /\ emitted[j].kind # "enter"
    <3>1. CASE k \in ToSet(hid_key_buf)
      <4>1. CASE j \in k .. Seen
        BY <3>1, <4>1 DEF ScansInv, OneScan
      <4>2. CASE j = dataKey
        BY <1>2, <3>1, <4>2
      <4> QED BY <1>0, <2>2, <3>1, <4>1, <4>2
    <3>2. CASE k = dataKey
      <4>1. j = dataKey
        BY <1>0, <2>2, <3>2
      <4> QED BY <3>2, <4>1
    <3> QED BY <1>1, <2>2, <3>1, <3>2
  <2> QED BY <2>1, <2>2 DEF OneScan
<1>5. ScansApart'
  <2>1. \A j \in DOMAIN emitted : (j > Seen' \/ Buffered(j)') => (j > Seen \/ Buffered(j))
    BY <1>0, <1>1 DEF Buffered
  <2> QED BY <2>1 DEF ScansInv, ScansApart, Gone, Scan
<1>6. AllWhole'
  BY DEF ScansInv, AllWhole, Whole, IsChar
<1> QED BY <1>3, <1>4, <1>5, <1>6 DEF ScansInv

\* A string is reported whose scan is over.
LEMMA ScansReport ==
    ASSUME TypeOK, Hands, KeysInv, ScansInv, status = "running", Report,
           UNCHANGED <<emitted, inScan>>, Seen <= Seen', Seen' \in Nat,
           \A i \in ToSet(hid_key_buf) :
              /\ inScan => emitted[i].scan # Scan
              /\ \A j \in DOMAIN emitted :
                    (j > Seen /\ (j > Seen' \/ IsChar(j))) => emitted[j].scan # emitted[i].scan
    PROVE  ScansInv'
<1>0. /\ DOMAIN emitted = 1 .. Len(emitted) /\ Len(emitted) \in Nat /\ Seen \in Nat
      /\ \A i \in ToSet(hid_key_buf) : i \in DOMAIN emitted /\ i <= Seen
  BY Counted
<1>1. /\ ntfs' = Append(ntfs, Ntf("data", hid_dev_type, hid_key_buf)) /\ hid_key_buf' = <<>>
      /\ hid_key_buf \in Seq(DOMAIN emitted) /\ ToSet(hid_key_buf') = {}
  BY DEF Report, TypeOK, ToSet
<1>2. /\ \A n \in DOMAIN ntfs : n \in DOMAIN ntfs' /\ ntfs'[n] = ntfs[n]
      /\ ntfs'[Len(ntfs')].keys = hid_key_buf
      /\ \A n \in DOMAIN ntfs' : n = Len(ntfs') \/ n \in DOMAIN ntfs
  BY <1>1, Notified
<1>3. Whole(hid_key_buf)
  <2>1. SUFFICES ASSUME NEW i \in ToSet(hid_key_buf)
                 PROVE  /\ \A j \in ToSet(hid_key_buf) : emitted[i].scan = emitted[j].scan
                        /\ \A k \in DOMAIN emitted :
                              (IsChar(k) /\ emitted[k].scan = emitted[i].scan) => k \in ToSet(hid_key_buf)
    BY DEF Whole
  <2>2. ASSUME NEW j \in ToSet(hid_key_buf) PROVE emitted[i].scan = emitted[j].scan
    <3>1. j \in i .. Seen \/ i \in j .. Seen
      BY <1>0, <2>1, <2>2
    <3> QED BY <2>1, <2>2, <3>1 DEF ScansInv, OneScan
  <2>3. ASSUME NEW k \in DOMAIN emitted, IsChar(k), emitted[k].scan = emitted[i].scan
        PROVE  k \in ToSet(hid_key_buf)
    <3>1. k \in 1 .. Seen
      BY <1>0, <2>1, <2>3
    <3>2. Gone(k) \/ Buffered(k)
      BY <2>3, <3>1 DEF KeysInv, Covered
    <3>3. ~Gone(k)
      BY <1>0, <2>1, <2>3 DEF ScansInv, ScansApart, Buffered
    <3> QED BY <3>2, <3>3 DEF Buffered
  <2> QED BY <2>2, <2>3
<1>4. \A i : Gone(i)' => Gone(i) \/ i \in ToSet(hid_key_buf)
  BY <1>2 DEF Gone
<1>5. ScansGrow'
  BY DEF ScansInv, ScansGrow
<1>6. OneScan'
  <2>1. \A j \in DOMAIN emitted : j > Seen' => j > Seen
    BY <1>0
  <2> QED BY <1>1, <2>1 DEF ScansInv, OneScan, Unbroken
<1>7. ScansApart'
  <2>1. ASSUME NEW i \in DOMAIN emitted, Gone(i)'
        PROVE  /\ inScan => emitted[i].scan # Scan
               /\ \A j \in DOMAIN emitted : j > Seen' => emitted[j].scan # emitted[i].scan
    <3>1. \A j \in DOMAIN emitted : j > Seen' => j > Seen
      BY <1>0
    <3>2. CASE Gone(i)
      BY <2>1, <3>1, <3>2 DEF ScansInv, ScansApart
    <3>3. CASE i \in ToSet(hid_key_buf)
      BY <2>1, <3>1, <3>3
    <3> QED BY <1>4, <2>1, <3>2, <3>3
  <2>2. Scan' = Scan /\ \A j : ~Buffered(j)'
    BY <1>1 DEF Scan, Buffered
  <2> QED BY <2>1, <2>2 DEF ScansApart
<1>8. AllWhole'
  <2>1. \A keys : Whole(keys) => (\A i \in ToSet(keys) :
             /\ \A j \in ToSet(keys) : emitted'[i].scan = emitted'[j].scan
             /\ \A k \in DOMAIN emitted' : (IsChar(k)' /\ emitted'[k].scan = emitted'[i].scan) => k \in ToSet(keys))
    BY DEF Whole, IsChar
  <2>2. \A n \in DOMAIN ntfs' : Whole(ntfs'[n].keys)
    BY <1>2, <1>3 DEF ScansInv, AllWhole
  <2> QED BY <2>1, <2>2 DEF AllWhole, Whole, IsChar
<1> QED BY <1>5, <1>6, <1>7, <1>8 DEF ScansInv

\* The Enter of the scan in hid_key_buf: what follows is of later scans.
LEMMA ScansEnter ==
    ASSUME TypeOK, Hands, KeysInv, ScansInv, DataEnter,
           Seen' = Seen + 1, dataKey = Seen + 1, dataKey \in DOMAIN emitted
    PROVE  ScansInv'
<1>0. /\ DOMAIN emitted = 1 .. Len(emitted) /\ Len(emitted) \in Nat /\ Seen \in Nat
      /\ \A i \in ToSet(hid_key_buf) : i \in DOMAIN emitted /\ i <= Seen
      /\ \A i \in DOMAIN emitted : emitted[i].scan \in Nat
      /\ emitted # <<>> => (Len(emitted) \in DOMAIN emitted /\ Last(emitted) = emitted[Len(emitted)]
                              /\ Scan = emitted[Len(emitted)].scan)
  BY Counted, LastReport
<1>1. /\ status = "running" /\ Report /\ UNCHANGED <<emitted, inScan>>
      /\ emitted[dataKey].kind = "enter"
  BY DEF DataEnter, env
<1>2. \A j \in DOMAIN emitted : j > dataKey => emitted[dataKey].scan < emitted[j].scan
  BY <1>0, <1>1 DEF ScansInv, ScansGrow
<1>3. ASSUME NEW i \in ToSet(hid_key_buf)
      PROVE  /\ inScan => emitted[i].scan # Scan
             /\ \A j \in DOMAIN emitted :
                   (j > Seen /\ (j > Seen' \/ IsChar(j))) => emitted[j].scan # emitted[i].scan
  <2>1. emitted[dataKey].scan = emitted[i].scan
    <3>1. hid_key_buf # <<>>
      BY <1>3 DEF ToSet
    <3>2. Seen \in DOMAIN emitted /\ Seen \in i .. Seen /\ Seen + 1 \in DOMAIN emitted
      BY <1>0, <1>3
    <3>3. emitted[Seen].scan = emitted[i].scan /\ emitted[Seen].kind # "enter" /\ Unbroken(Seen)
      BY <3>1, <3>2 DEF ScansInv, OneScan
    <3> QED BY <3>2, <3>3 DEF Unbroken
  <2>2. ASSUME inScan PROVE emitted[i].scan # Scan
    <3>1. emitted # <<>> /\ emitted[Len(emitted)].kind # "enter"
      BY <1>0, <2>2 DEF ScansInv, ScansGrow
    <3>2. Len(emitted) > dataKey
      BY <1>0, <1>1, <3>1
    <3> QED BY <1>0, <1>2, <2>1, <3>1, <3>2
  <2>3. ASSUME NEW j \in DOMAIN emitted, j > Seen, j > Seen' \/ IsChar(j)
        PROVE  emitted[j].scan # emitted[i].scan
    <3>1. j > dataKey
      BY <1>0, <1>1, <2>3 DEF IsChar
    <3> QED BY <1>0, <1>2, <2>1, <3>1
  <2> QED BY <2>2, <2>3
<1>4. Seen <= Seen' /\ Seen' \in Nat
  BY <1>0
<1> QED BY <1>1, <1>3, <1>4, ScansReport

\* The time-out comes when nothing of the scan is under way any more.
LEMMA ScansSilence ==
    ASSUME TypeOK, Hands, KeysInv, ScansInv, Quiet, DataCheck, Silent, hid_key_buf # <<>>,
           Seen' = Seen
    PROVE  ScansInv'
<1>1. /\ status = "running" /\ Report /\ UNCHANGED <<emitted, inScan>> /\ dataPc = "check"
  BY DEF DataCheck, env
<1>2. ~inScan /\ mq = <<>> /\ rdKey = NoKey
  <2>1. timer \in Nat /\ HID_TIME_OUT \in Nat
    BY BoundsAssumption DEF TypeOK
  <2> QED BY <1>1, <2>1 DEF Quiet, Silent
<1>3. Seen = Len(emitted) - 0
  BY <1>1, <1>2, Counted
<1>4. Len(emitted) \in Nat /\ DOMAIN emitted = 1 .. Len(emitted) /\ Seen \in Nat
  BY Counted
<1>5. \A j \in DOMAIN emitted : ~(j > Seen)
  BY <1>3, <1>4
<1> QED BY <1>1, <1>2, <1>4, <1>5, ScansReport

\* With the timing assumptions, each step leaves what is to come behind hid_key_buf, in its scan
\* or behind its end.
LEMMA ScansNext ==
    ASSUME Timely, TypeOK, Hands, KeysInv, ScansInv, Quiet, [Next]_vars
    PROVE  ScansInv'
<1> USE DEF env, reader, opening, data
<1>0. (dataPc' = dataPc \/ dataPc # "key") => Seen' = Seen
  <2>1. (DataChar \/ DataOther \/ DataEnter) => (dataPc = "key" /\ dataPc' = "recycle")
    BY DEF DataChar, DataOther, DataEnter
  <2> QED BY <2>1, SeenMoves
<1>1. ASSUME NEW kind \in Kinds, HidRead(kind) PROVE ScansInv'
  <2>1. dataPc' = dataPc
    BY <1>1 DEF HidRead
  <2> QED BY <1>0, <1>1, <2>1, ScansRead
<1>2. CASE HidInsert
  BY <1>0, <1>2, ScansSaid DEF HidInsert
<1>3. CASE HidPullout
  BY <1>0, <1>3, ScansSaid DEF HidPullout
<1>4. CASE DataChar
  <2>1. /\ emitted[dataKey].kind # "enter" /\ UNCHANGED <<emitted, inScan, ntfs>>
        /\ \/ hid_key_buf' = hid_key_buf
           \/ hid_key_buf' = Append(hid_key_buf, dataKey)
    BY <1>4 DEF DataChar
  <2> QED BY <1>4, <2>1, SeenMoves, ScansKey
<1>5. CASE DataOther
  <2>1. emitted[dataKey].kind # "enter" /\ UNCHANGED <<emitted, inScan, ntfs, hid_key_buf>>
    BY <1>5 DEF DataOther
  <2> QED BY <1>5, <2>1, SeenMoves, ScansKey
<1>6. CASE DataEnter
  BY <1>6, SeenMoves, ScansEnter
<1>7. CASE DataCheck
  <2>1. dataPc = "check"
    BY <1>7 DEF DataCheck
  <2>2. CASE Silent /\ hid_key_buf # <<>>
    BY <1>0, <1>7, <2>1, <2>2, ScansSilence
  <2>3. CASE ~(Silent /\ hid_key_buf # <<>>)
    BY <1>0, <1>7, <2>1, <2>3, ScansKept DEF DataCheck
  <2> QED BY <2>2, <2>3
<1>8. CASE UNCHANGED vars
  BY <1>0, <1>8, ScansKept DEF vars
<1>12. CASE EndScan
  BY <1>0, <1>12, ScansKept DEF EndScan
<1>9. CASE \/ CheckSlot \/ OpenFile \/ IdentifyHid \/ HidProduce \/ HidPost
           \/ HidReadError \/ TimerTick
  <2>1. UNCHANGED <<emitted, hid_key_buf, ntfs, dataPc, inScan>>
    BY <1>9
    DEF CheckSlot, OpenFile, IdentifyHid, HidProduce, HidPost, HidReadError, TimerTick
  <2> QED BY <1>0, <2>1, ScansKept
<1>10. CASE DataTake \/ DataReset \/ DataRecycle \/ DataTimeout \/ DataRestart
  BY <1>0, <1>10, ScansKept DEF DataTake, DataReset, DataRecycle, DataTimeout, DataRestart
<1>11. ASSUME NEW s \in Slots, Unplug(s) \/ \E type \in Types : Plug(type, s) PROVE ScansInv'
  BY <1>0, <1>11, ScansKept DEF Unplug, Plug
<1> QED BY <1>1, <1>2, <1>3, <1>4, <1>5, <1>6, <1>7, <1>8, <1>9, <1>10, <1>11, <1>12
  DEF Next, ReadTask, ReadSteps, DataTask, Halted

\* While the data task awaits more of a scan, a new one cannot begin: its user has not
\* ended the last one.
LEMMA NoNewScan ==
    ASSUME Timely, TypeOK, Hands, KeysInv, ScansInv, Awaits, mq = <<>>, NEW kind \in Kinds, HidRead(kind)
    PROVE  inScan
<1>1. rdKey = NoKey /\ TimelyScan
  BY DEF HidRead, Hands
<1>2. /\ Len(emitted) \in Nat /\ DOMAIN emitted = 1 .. Len(emitted) /\ Seen \in Nat
      /\ \A i \in ToSet(hid_key_buf) : i \in DOMAIN emitted /\ i <= Seen
      /\ hid_key_buf # <<>> => \E k : k \in ToSet(hid_key_buf)
      /\ emitted # <<>> => (Len(emitted) \in DOMAIN emitted /\ Last(emitted) = emitted[Len(emitted)])
  BY Counted, LastReport
<1>3. SUFFICES ASSUME ~inScan PROVE FALSE
  OBVIOUS
<1>4. CASE dataPc \in {"recycle", "pend", "check"} /\ hid_key_buf # <<>>
  <2>1. Seen = Len(emitted) - 0
    BY <1>1, <1>4, Counted
  <2> PICK k \in ToSet(hid_key_buf) : TRUE
    BY <1>2, <1>4
  <2>2. k \in DOMAIN emitted /\ Seen \in k .. Seen /\ emitted # <<>>
    BY <1>2, <2>1
  <2>3. emitted[Seen].kind # "enter"
    BY <2>2 DEF ScansInv, OneScan
  <2>4. Last(emitted) = emitted[Seen]
    BY <1>2, <2>1, <2>2
  <2> QED BY <1>1, <1>3, <1>4, <2>2, <2>3, <2>4 DEF TimelyScan, Drained
<1>5. CASE dataPc = "key" /\ emitted[dataKey].kind # "enter"
  <2>1. Seen = Len(emitted) - 1 /\ dataKey = Seen + 1 /\ dataKey \in DOMAIN emitted
    BY <1>1, <1>5, Counted
  <2>2. emitted # <<>> /\ Last(emitted) = emitted[dataKey]
    BY <1>2, <2>1
  <2> QED BY <1>1, <1>3, <1>5, <2>2 DEF TimelyScan, Drained
<1> QED BY <1>4, <1>5 DEF Awaits

\* And the timer stays within the gap of the reader while more of a scan is to come.
LEMMA QuietNext ==
    ASSUME Timely, TypeOK, Hands, KeysInv, ScansInv, Quiet, [Next]_vars
    PROVE  Quiet'
<1> USE DEF env, reader, opening, data
<1>0. /\ timer \in Nat /\ gap \in Nat /\ gap <= Gap /\ HID_TIME_OUT \in Nat /\ Gap \in Nat
      /\ Gap < HID_TIME_OUT /\ 0 < HID_TIME_OUT
  <2>1. HID_TIME_OUT \in Nat \ {0}
    BY BoundsAssumption
  <2>2. Gap \in Nat /\ Gap < HID_TIME_OUT
    BY <2>1, BoundsAssumption
  <2>3. timer \in 0 .. HID_TIME_OUT /\ gap \in 0 .. Gap
    BY DEF TypeOK
  <2> QED BY <2>1, <2>2, <2>3
<1>1. ASSUME NEW kind \in Kinds, HidRead(kind) PROVE Quiet'
  <2>1. /\ rdKey = NoKey /\ UNCHANGED <<dataPc, dataKey, hid_key_buf, mq, timer, gap>>
    BY <1>1 DEF HidRead, Hands
  <2>2. Awaits' => Awaits
    <3>1. dataPc = "key" => (dataKey \in DOMAIN emitted /\ emitted'[dataKey] = emitted[dataKey])
      BY <1>1, Counted, OneMoreReport
    <3> QED BY <2>1, <3>1 DEF Awaits
  <2>3. (Awaits /\ mq = <<>>) => timer <= gap
    BY <1>1, NoNewScan DEF Quiet
  <2>4. (dataPc = "check" /\ hid_key_buf # <<>>) => timer < HID_TIME_OUT
    <3>1. CASE mq = <<>>
      BY <1>0, <2>3, <3>1 DEF Awaits
    <3>2. CASE mq # <<>>
      BY <3>2 DEF Quiet
    <3> QED BY <3>1, <3>2
  <2> QED BY <2>1, <2>2, <2>3, <2>4 DEF Quiet
<1>2. CASE TimerTick
  <2>1. rdKey = NoKey /\ dataPc # "check" /\ (inScan => gap < Gap)
    BY <1>2 DEF TimerTick, TimelyTick, Hands
  <2>2. timer' <= timer + 1 /\ timer' \in Nat /\ (inScan => gap' = gap + 1)
    BY <1>0, <1>2, <2>1 DEF TimerTick
  <2>3. UNCHANGED <<dataPc, dataKey, hid_key_buf, mq, inScan, rdKey, emitted>>
    BY <1>2 DEF TimerTick
  <2>4. Awaits' <=> Awaits
    BY <2>3 DEF Awaits
  <2> QED BY <1>0, <2>1, <2>2, <2>3, <2>4 DEF Quiet
<1>3. CASE HidPost
  <2>1. /\ rdKey # NoKey /\ UNCHANGED <<dataPc, dataKey, hid_key_buf, timer, inScan>>
        /\ mq' = Append(mq, rdKey) /\ rdKey \in DOMAIN emitted
    BY <1>3, Counted DEF HidPost, Hands, TypeOK, NoKey
  <2>2. mq' # <<>>
    <3>1. mq \in Seq(DOMAIN emitted)
      BY DEF TypeOK
    <3> QED BY <2>1, <3>1
  <2> QED BY <2>1, <2>2 DEF Quiet
<1>4. CASE DataTake
  BY <1>4 DEF DataTake, Quiet, Awaits
<1>5. CASE DataReset
  BY <1>0, <1>5 DEF DataReset, Quiet
<1>6. CASE DataChar \/ DataOther
  <2>1. /\ Awaits /\ dataPc' = "recycle" /\ UNCHANGED <<mq, inScan, rdKey, timer, gap>>
    BY <1>6 DEF DataChar, DataOther, Awaits
  <2> QED BY <2>1 DEF Quiet
<1>7. CASE DataEnter
  BY <1>7 DEF DataEnter, Report, Quiet, Awaits
<1>8. CASE DataRecycle
  BY <1>8 DEF DataRecycle, Quiet, Awaits
<1>9. CASE DataTimeout
  <2>1. /\ dataPc = "pend" /\ dataPc' = "check" /\ mq = <<>>
        /\ UNCHANGED <<hid_key_buf, mq, inScan, rdKey, timer, gap>>
    BY <1>9 DEF DataTimeout
  <2>2. (hid_key_buf # <<>> /\ (inScan \/ rdKey # NoKey)) => timer <= gap
    BY <2>1 DEF Quiet, Awaits
  <2> QED BY <1>0, <2>1, <2>2 DEF Quiet, Awaits
<1>10. CASE DataCheck
  <2>1. /\ dataPc = "check" /\ UNCHANGED <<mq, inScan, rdKey, timer, gap>>
        /\ (Silent /\ hid_key_buf # <<>>) => hid_key_buf' = <<>>
        /\ ~(Silent /\ hid_key_buf # <<>>) => hid_key_buf' = hid_key_buf
        /\ dataPc' = IF Silent THEN "restart" ELSE "pend"
    BY <1>10 DEF DataCheck, Report
  <2> QED BY <2>1 DEF Quiet, Awaits
<1>11. CASE DataRestart
  BY <1>11 DEF DataRestart, Quiet, Awaits
<1>12. CASE UNCHANGED vars
  BY <1>12 DEF vars, Quiet, Awaits
<1>15. CASE EndScan
  BY <1>15 DEF EndScan, Quiet, Awaits
<1>13. CASE \/ CheckSlot \/ OpenFile \/ IdentifyHid \/ HidProduce
            \/ HidReadError \/ HidInsert \/ HidPullout
  <2>1. UNCHANGED <<emitted, hid_key_buf, dataPc, dataKey, mq, rdKey, timer, gap, inScan>>
    BY <1>13
    DEF CheckSlot, OpenFile, IdentifyHid, HidProduce, HidReadError, HidInsert, HidPullout
  <2> QED BY <2>1 DEF Quiet, Awaits
<1>14. ASSUME NEW s \in Slots, Unplug(s) \/ \E type \in Types : Plug(type, s) PROVE Quiet'
  BY <1>14 DEF Unplug, Plug, Quiet, Awaits
<1> QED BY <1>1, <1>2, <1>3, <1>4, <1>5, <1>6, <1>7, <1>8, <1>9, <1>10, <1>11, <1>12, <1>13, <1>14, <1>15
  DEF Next, ReadTask, ReadSteps, DataTask, Halted

\* Nothing is scanned yet.
LEMMA ScansInit == Init => ScansInv /\ Quiet
<1> SUFFICES ASSUME Init PROVE ScansInv /\ Quiet
  OBVIOUS
<1>1. DOMAIN emitted = {} /\ DOMAIN ntfs = {} /\ hid_key_buf = <<>> /\ ToSet(hid_key_buf) = {} /\ ~inScan
  BY DEF Init, ToSet
<1>2. ScansInv
  BY <1>1 DEF ScansInv, ScansGrow, OneScan, ScansApart, AllWhole
<1>3. Quiet
  BY <1>1 DEF Init, Quiet, Awaits
<1> QED BY <1>2, <1>3

\* A scan is reported in one piece when the reader and the user keep to their times.
THEOREM ScanWholeHolds == ASSUME Timely PROVE Spec => []ScanWhole
<1>1. Spec => [](TypeOK /\ Hands /\ Accounted)
  BY HidInitType, HidNextType, PTL DEF Spec
<1>2. Spec => []KeysInv
  BY <1>1, KeysInit, KeysNext, PTL DEF Spec
<1>3. TypeOK /\ Hands /\ KeysInv /\ ScansInv /\ Quiet /\ [Next]_vars => ScansInv' /\ Quiet'
  BY ScansNext, QuietNext
<1>4. Spec => [](ScansInv /\ Quiet)
  BY <1>1, <1>2, <1>3, ScansInit, PTL DEF Spec
<1>5. AllWhole => ScanWhole
  BY DEF AllWhole, Whole, ScanWhole, IsChar
<1>6. ScansInv => AllWhole
  BY DEF ScansInv
<1> QED BY <1>4, <1>5, <1>6, PTL

\* hid_key_buf holds different characters of one scan.
LEMMA BufferOfScan ==
    ASSUME TypeOK, Hands, KeysInv, ScansInv, hid_key_buf # <<>>
    PROVE  \E k \in DOMAIN emitted : Len(hid_key_buf) <= Cardinality(ScanChars(emitted[k].scan))
<1>1. /\ DOMAIN emitted = 1 .. Len(emitted) /\ Len(emitted) \in Nat /\ Seen \in Nat
      /\ \A i \in ToSet(hid_key_buf) : i \in DOMAIN emitted /\ i <= Seen
  BY Counted
<1>2. PICK k : k \in ToSet(hid_key_buf)
  BY Counted
<1>3. \A i \in ToSet(hid_key_buf) : emitted[i].scan = emitted[k].scan
  <2> TAKE i \in ToSet(hid_key_buf)
  <2>1. i \in 1 .. Seen /\ k \in 1 .. Seen
    BY <1>1, <1>2
  <2>2. i \in k .. Seen \/ k \in i .. Seen
    BY <2>1, <1>1
  <2> QED BY <1>2, <2>2 DEF ScansInv, OneScan
<1> DEFINE chars == ScanChars(emitted[k].scan)
           places == 1 .. Len(hid_key_buf)
<1>4. hid_key_buf \in Injection(places, chars)
  <2>1. hid_key_buf \in [places -> DOMAIN emitted]
    BY DEF TypeOK
  <2>2. \A n \in places : hid_key_buf[n] \in ToSet(hid_key_buf)
    BY <2>1 DEF ToSet
  <2>3. \A n \in places : hid_key_buf[n] \in chars
    BY <1>1, <1>3, <2>2 DEF ScanChars, KeysInv, Strings, IsString, IsChar
  <2>4. ASSUME NEW m \in places, NEW n \in places, hid_key_buf[m] = hid_key_buf[n] PROVE m = n
    <3>1. Rising(hid_key_buf) /\ DOMAIN hid_key_buf = places /\ Len(hid_key_buf) \in Nat
      BY <2>1 DEF KeysInv, Strings, IsString, TypeOK
    <3>2. hid_key_buf[m] \in Nat
      BY <1>1, <2>1
    <3>3. ~(m < n) /\ ~(n < m)
      BY <2>4, <3>1, <3>2 DEF Rising
    <3> QED BY <3>1, <3>3
  <2> HIDE DEF chars, places
  <2>5. hid_key_buf \in [places -> chars]
    BY <2>1, <2>3
  <2> QED BY <2>4, <2>5, Zenon DEF Injection, IsInjective
<1>5. IsFiniteSet(chars)
  <2>1. IsFiniteSet(DOMAIN emitted) /\ chars \subseteq DOMAIN emitted
    BY <1>1, FS_Interval DEF ScanChars
  <2> QED BY <2>1, FS_Subset
<1>6. Cardinality(places) = Len(hid_key_buf)
  <2>1. Len(hid_key_buf) \in Nat
    BY DEF TypeOK
  <2> QED BY <2>1, FS_Interval
<1>7. Cardinality(places) <= Cardinality(chars)
  <2> HIDE DEF chars, places
  <2> QED BY <1>4, <1>5, FS_Injection
<1> QED BY <1>1, <1>2, <1>6, <1>7

\* Nothing runs after an overrun, and the step to it finds hid_key_buf full.
LEMMA OverrunFull ==
    ASSUME [Next]_vars, status' = "corrupt"
    PROVE  emitted' = emitted /\ (status = "corrupt" \/ ~(Len(hid_key_buf) < KeyBuf))
<1> USE DEF env
<1>1. CASE UNCHANGED vars
  BY <1>1 DEF vars
<1>2. CASE \E s \in Slots : Unplug(s) \/ \E type \in Types : Plug(type, s)
  BY <1>2 DEF Unplug, Plug
<1>3. CASE EndScan \/ TimerTick
  BY <1>3 DEF EndScan, TimerTick
<1>4. CASE ReadTask
  BY <1>4 DEF ReadTask, ReadSteps, CheckSlot, OpenFile, IdentifyHid, HidInsert, HidProduce,
              HidPost, HidReadError, HidPullout, HidRead
<1>5. CASE DataTask
  BY <1>5 DEF DataTask, DataTake, DataReset, DataChar, DataEnter, DataOther, DataRecycle,
              DataTimeout, DataCheck, DataRestart, Report
<1> QED BY <1>1, <1>2, <1>3, <1>4, <1>5 DEF Next, Halted

\* So it is that of the scan in hid_key_buf.
LEMMA FitsNext ==
    ASSUME TypeOK, Hands, KeysInv, ScansInv, ScanFits, [Next]_vars
    PROVE  ScanFits'
<1> SUFFICES ASSUME status' = "corrupt"
             PROVE  (\E k \in DOMAIN emitted : Cardinality(ScanChars(emitted[k].scan)) >= KeyBuf)'
  BY DEF ScanFits
<1>1. emitted' = emitted /\ (status = "corrupt" \/ ~(Len(hid_key_buf) < KeyBuf))
  BY OverrunFull
<1>2. \E k \in DOMAIN emitted : Cardinality(ScanChars(emitted[k].scan)) >= KeyBuf
  <2>1. CASE status = "corrupt"
    BY <2>1 DEF ScanFits
  <2>2. CASE ~(Len(hid_key_buf) < KeyBuf)
    <3>1. Len(hid_key_buf) \in Nat /\ KeyBuf \in Nat \ {0} /\ hid_key_buf # <<>>
      <4>1. Len(hid_key_buf) \in Nat /\ KeyBuf \in Nat \ {0}
        BY BoundsAssumption DEF TypeOK
      <4>2. Len(hid_key_buf) # 0
        BY <2>2, <4>1
      <4> QED BY <4>1, <4>2
    <3>2. PICK k \in DOMAIN emitted : Len(hid_key_buf) <= Cardinality(ScanChars(emitted[k].scan))
      BY <3>1, BufferOfScan
    <3>3. Cardinality(ScanChars(emitted[k].scan)) \in Nat
      <4>1. IsFiniteSet(DOMAIN emitted) /\ ScanChars(emitted[k].scan) \subseteq DOMAIN emitted
        BY Counted, FS_Interval DEF ScanChars
      <4>2. IsFiniteSet(ScanChars(emitted[k].scan))
        BY <4>1, FS_Subset
      <4> QED BY <4>2, FS_CardinalityType
    <3> QED BY <2>2, <3>1, <3>2, <3>3
  <2> QED BY <1>1, <2>1, <2>2
<1> QED BY <1>1, <1>2 DEF ScanChars

\* Scans with fewer characters than hid_key_buf has bytes do not overrun it.
THEOREM ScanFitsHolds == ASSUME Timely PROVE Spec => []ScanFits
<1>1. Spec => [](TypeOK /\ Hands /\ Accounted)
  BY HidInitType, HidNextType, PTL DEF Spec
<1>2. Spec => []KeysInv
  BY <1>1, KeysInit, KeysNext, PTL DEF Spec
<1>3. TypeOK /\ Hands /\ KeysInv /\ ScansInv /\ Quiet /\ [Next]_vars => ScansInv' /\ Quiet'
  BY ScansNext, QuietNext
<1>4. Spec => [](ScansInv /\ Quiet)
  BY <1>1, <1>2, <1>3, ScansInit, PTL DEF Spec
<1>5. Init => ScanFits
  BY DEF Init, ScanFits
<1>6. TypeOK /\ Hands /\ KeysInv /\ ScansInv /\ ScanFits /\ [Next]_vars => ScanFits'
  BY FitsNext
<1> QED BY <1>1, <1>2, <1>4, <1>5, <1>6, PTL DEF Spec

-----------------------------------------------------------------------------
(* Sessions, under the timing assumptions: from the insertion of a device to *)
(* its pull-out.                                                             *)

\* A report or a scan is under way.
Pending == inScan \/ rdKey # NoKey \/ mq # <<>> \/ dataKey # NoKey \/ hid_key_buf # <<>>

\* Before notification n, the last one that is not a string is the insertion of device d.
Inserted(d, n) ==
    \E m \in DOMAIN ntfs :
       /\ ntfs[m].cmd = "insert" /\ ntfs[m].session = d
       /\ m < n /\ \A i \in m + 1 .. n : ntfs[i].cmd = "data"

\* The insertion of device d was the last notification that is not a string.
InSession(d) ==
    \E m \in DOMAIN ntfs :
       /\ ntfs[m].cmd = "insert" /\ ntfs[m].session = d
       /\ \A i \in m + 1 .. Len(ntfs) : ntfs[i].cmd = "data"

\* A device stays while it is identified and while it has something pending; what is
\* pending is its own.
Session ==
    /\ rdPc \in {"identify", "insert"} => Present(fd)
    /\ rdPc \in {"insert", "produce", "read", "post"} => hid_dev_type = devs[fd]
    /\ rdPc \in {"produce", "read", "post"} => InSession(fd)
    /\ Pending => rdPc \in {"produce", "read", "post"} /\ Present(fd)
    /\ \A j \in DOMAIN emitted : (j > Seen \/ Buffered(j)) => emitted[j].session = fd

\* ReportsInSession.
AllInSession ==
    \A n \in DOMAIN ntfs : \A k \in ToSet(ntfs[n].keys) :
       ntfs[n].type = devs[emitted[k].session] /\ Inserted(emitted[k].session, n)

SessionInv == Session /\ AllInSession

\* Without anything pending, every report was treated and every string reported.
LEMMA NothingPending ==
    ASSUME TypeOK, Hands, KeysInv, ~Pending
    PROVE  \A j \in DOMAIN emitted : ~(j > Seen \/ Buffered(j))
<1>1. mq = <<>> /\ rdKey = NoKey /\ dataPc \notin {"reset", "key"} /\ ToSet(hid_key_buf) = {}
  BY DEF Pending, Hands, ToSet
<1>2. Seen = Len(emitted) - 0 /\ DOMAIN emitted = 1 .. Len(emitted) /\ Len(emitted) \in Nat
  BY <1>1, Counted
<1> QED BY <1>1, <1>2 DEF Buffered

\* The reports that strings stand for, and the notifications that stay.
LEMMA InSessionKept ==
    ASSUME AllInSession, TypeOK, Hands, KeysInv,
           \A i \in DOMAIN emitted : emitted'[i] = emitted[i],
           \A d \in DOMAIN devs : devs'[d] = devs[d], UNCHANGED ntfs
    PROVE  AllInSession'
<1>1. \A n \in DOMAIN ntfs : \A k \in ToSet(ntfs[n].keys) :
         k \in DOMAIN emitted /\ emitted[k].session \in DOMAIN devs
  <2>1. \A i \in DOMAIN emitted : emitted[i].session \in DOMAIN devs
    <3>1. \A i \in DOMAIN emitted : emitted[i] \in Reports
      BY DEF TypeOK
    <3> QED BY <3>1 DEF Reports
  <2> QED BY <2>1, Counted DEF Gone
<1> QED BY <1>1 DEF AllInSession, Inserted

\* One more notification: a string goes with the session it is in.
LEMMA InSessionSaid ==
    ASSUME SessionInv, TypeOK, NEW cmd \in {"insert", "pullout", "data"},
           NEW keys \in Seq(DOMAIN emitted),
           ntfs' = Append(ntfs, Ntf(cmd, hid_dev_type, keys)), UNCHANGED <<emitted, devs>>,
           \A k \in ToSet(keys) : /\ emitted[k].session = fd /\ hid_dev_type = devs[fd]
                                  /\ InSession(fd) /\ cmd = "data"
    PROVE  AllInSession'
<1> PICK N : N = Len(ntfs)
  OBVIOUS
<1>1. /\ N \in Nat /\ Len(ntfs') = N + 1 /\ DOMAIN ntfs = 1 .. N /\ DOMAIN ntfs' = 1 .. N + 1
      /\ \A n \in 1 .. N : ntfs'[n] = ntfs[n]
      /\ ntfs'[N + 1].keys = keys /\ ntfs'[N + 1].cmd = cmd /\ ntfs'[N + 1].type = hid_dev_type
      /\ ntfs'[N + 1].session = fd
  BY Notified
<1>2. ASSUME NEW n \in DOMAIN ntfs', NEW k \in ToSet(ntfs'[n].keys)
      PROVE  (ntfs[n].type = devs[emitted[k].session] /\ Inserted(emitted[k].session, n))'
  <2>1. SUFFICES /\ ntfs'[n].type = devs[emitted[k].session]
                 /\ \E m \in DOMAIN ntfs' :
                       /\ ntfs'[m].cmd = "insert" /\ ntfs'[m].session = emitted[k].session
                       /\ m < n /\ \A i \in m + 1 .. n : ntfs'[i].cmd = "data"
    BY DEF Inserted
  <2>3. CASE n \in 1 .. N
    <3>1. n \in DOMAIN ntfs /\ k \in ToSet(ntfs[n].keys)
      BY <1>1, <1>2, <2>3
    <3>2. ntfs[n].type = devs[emitted[k].session]
      BY <1>1, <2>3, <3>1 DEF SessionInv, AllInSession, Inserted
    <3> PICK m \in DOMAIN ntfs :
                    /\ ntfs[m].cmd = "insert" /\ ntfs[m].session = emitted[k].session
                    /\ m < n /\ \A i \in m + 1 .. n : ntfs[i].cmd = "data"
      BY <3>1 DEF SessionInv, AllInSession, Inserted
    <3>3. \A i \in m + 1 .. n : i \in 1 .. N
      BY <1>1, <2>3
    <3> QED BY <1>1, <2>3, <3>2, <3>3
  <2>4. CASE n = N + 1
    <3>1. /\ k \in ToSet(keys) /\ emitted[k].session = fd /\ hid_dev_type = devs[fd] /\ cmd = "data"
          /\ InSession(fd)
      BY <1>1, <1>2, <2>4
    <3> PICK m \in 1 .. N : /\ ntfs[m].cmd = "insert" /\ ntfs[m].session = fd
                            /\ \A i \in m + 1 .. N : ntfs[i].cmd = "data"
      BY <1>1, <3>1 DEF InSession
    <3>3. N \in Nat /\ m \in 1 .. N
      BY <1>1
    <3>2. \A i \in m + 1 .. N + 1 : i \in m + 1 .. N \/ i = N + 1
      BY ONLY <3>3
    <3>4. m \in 1 .. N + 1 /\ m < N + 1 /\ \A i \in m + 1 .. N : i \in 1 .. N
      BY ONLY <3>3
    <3>5. ntfs'[m].cmd = "insert" /\ ntfs'[m].session = fd
      BY <1>1
    <3>6. \A i \in m + 1 .. N + 1 : ntfs'[i].cmd = "data"
      BY <1>1, <3>1, <3>2, <3>4
    <3>7. ntfs'[n].type = devs[emitted[k].session]
      BY <1>1, <2>4, <3>1
    <3>8. m \in DOMAIN ntfs' /\ m < n /\ ntfs'[m].session = emitted[k].session
      BY <1>1, <2>4, <3>1, <3>4, <3>5
    <3>9. \A i \in m + 1 .. n : ntfs'[i].cmd = "data"
      BY <2>4, <3>6
    <3> QED
      <4>1. \E l \in DOMAIN ntfs' :
               /\ ntfs'[l].cmd = "insert" /\ ntfs'[l].session = emitted[k].session
               /\ l < n /\ \A i \in l + 1 .. n : ntfs'[i].cmd = "data"
        <5> WITNESS m \in DOMAIN ntfs'
        <5> QED BY <3>5, <3>8, <3>9
      <4> QED BY <3>7, <4>1
  <2>5. N \in Nat /\ n \in 1 .. N + 1
    BY <1>1
  <2>6. n \in 1 .. N \/ n = N + 1
    BY ONLY <2>5
  <2> QED BY <2>3, <2>4, <2>6
<1> QED BY <1>2 DEF AllInSession

\* The session a device is in when one more notification is handed over.
LEMMA SaidInSession ==
    ASSUME TypeOK, NEW cmd \in {"insert", "pullout", "data"}, NEW keys \in Seq(DOMAIN emitted),
           ntfs' = Append(ntfs, Ntf(cmd, hid_dev_type, keys)), UNCHANGED fd
    PROVE  /\ cmd = "insert" => InSession(fd)'
           /\ (cmd = "data" /\ InSession(fd)) => InSession(fd)'
<1> PICK N : N = Len(ntfs)
  OBVIOUS
<1>1. /\ N \in Nat /\ Len(ntfs') = N + 1 /\ DOMAIN ntfs = 1 .. N /\ DOMAIN ntfs' = 1 .. N + 1
      /\ \A n \in 1 .. N : ntfs'[n] = ntfs[n]
      /\ ntfs'[N + 1].cmd = cmd /\ ntfs'[N + 1].session = fd
  BY Notified
<1>2. ASSUME cmd = "insert" PROVE InSession(fd)'
  <2>1. N + 1 \in DOMAIN ntfs' /\ \A i \in (N + 1) + 1 .. N + 1 : ntfs'[i].cmd = "data"
    BY <1>1
  <2> QED BY <1>1, <1>2, <2>1 DEF InSession
<1>3. ASSUME cmd = "data", InSession(fd) PROVE InSession(fd)'
  <2> PICK m \in 1 .. N : /\ ntfs[m].cmd = "insert" /\ ntfs[m].session = fd
                          /\ \A i \in m + 1 .. N : ntfs[i].cmd = "data"
    BY <1>1, <1>3 DEF InSession
  <2>1. ntfs'[m].cmd = "insert" /\ ntfs'[m].session = fd' /\ m \in DOMAIN ntfs'
    BY <1>1
  <2>2. \A i \in m + 1 .. N + 1 : ntfs'[i].cmd = "data"
    <3> TAKE i \in m + 1 .. N + 1
    <3>1. CASE i = N + 1
      BY <1>1, <1>3, <3>1
    <3>2. CASE i # N + 1
      <4>1. N \in Nat /\ m \in 1 .. N /\ i \in m + 1 .. N + 1
        BY <1>1
      <4>2. i \in m + 1 .. N /\ i \in 1 .. N
        BY ONLY <3>2, <4>1
      <4> QED BY <1>1, <4>2
    <3> QED BY <3>1, <3>2
  <2> QED BY <1>1, <2>1, <2>2 DEF InSession
<1> QED BY <1>2, <1>3

\* Steps within the session of a device, or outside any.
LEMMA SessionKept ==
    ASSUME Session, UNCHANGED <<slots, devs, fd, hid_dev_type, emitted>>,
           rdPc' = rdPc \/ {rdPc, rdPc'} \subseteq {"produce", "read", "post"},
           Pending' => Pending, InSession(fd) => InSession(fd)',
           \A j \in DOMAIN emitted : (j > Seen' \/ Buffered(j)') => (j > Seen \/ Buffered(j))
    PROVE  Session'
<1>1. Present(fd)' <=> Present(fd)
  BY DEF Present
<1>2. \A j \in DOMAIN emitted' : (j > Seen' \/ Buffered(j)') => emitted'[j].session = fd'
  BY DEF Session
<1>3. Pending' => (rdPc' \in {"produce", "read", "post"} /\ Present(fd)')
  BY <1>1 DEF Session
<1>4. (rdPc' \in {"identify", "insert"}) => (rdPc \in {"identify", "insert"})
  OBVIOUS
<1> QED BY <1>1, <1>2, <1>3, <1>4 DEF Session

\* Steps of the reader while nothing is pending.
LEMMA SessionReader ==
    ASSUME TypeOK, Hands, KeysInv, Session, ~Pending, Seen' = Seen,
           UNCHANGED <<emitted, inScan, rdKey, mq, dataKey, hid_key_buf>>,
           rdPc' \in {"identify", "insert"} => Present(fd)',
           rdPc' \in {"insert", "produce", "read", "post"} => hid_dev_type' = devs'[fd'],
           rdPc' \in {"produce", "read", "post"} => InSession(fd)'
    PROVE  Session'
<1>1. ~Pending'
  BY DEF Pending
<1>2. \A j \in DOMAIN emitted' : ~(j > Seen' \/ Buffered(j)')
  BY NothingPending DEF Buffered
<1> QED BY <1>1, <1>2 DEF Session

\* All that is pending stays that of the open device: it is pulled out when nothing is pending.
LEMMA SessionNext ==
    ASSUME Timely, TypeOK, Hands, KeysInv, SessionInv, [Next]_vars
    PROVE  SessionInv'
<1> USE DEF env, reader, opening, data
<1>0. /\ DOMAIN emitted = 1 .. Len(emitted) /\ Len(emitted) \in Nat /\ Seen \in Nat
      /\ DOMAIN devs = 1 .. Len(devs) /\ Len(devs) \in Nat /\ hid_key_buf \in Seq(DOMAIN emitted)
      /\ <<>> \in Seq(DOMAIN emitted)
  BY Counted DEF TypeOK
<1>seen. /\ (dataPc' = dataPc \/ dataPc # "key") => Seen' = Seen
         /\ Seen' \in Nat /\ Seen <= Seen'
  <2>1. (DataChar \/ DataOther \/ DataEnter) => (dataPc = "key" /\ dataPc' = "recycle")
    BY DEF DataChar, DataOther, DataEnter
  <2>2. Seen' = Seen \/ Seen' = Seen + 1
    BY SeenMoves
  <2> QED BY <1>0, <2>1, <2>2, SeenMoves
<1>idle. (rdPc \notin {"produce", "read", "post"} \/ ~Present(fd)) => ~Pending
  BY DEF SessionInv, Session
<1>told. ASSUME UNCHANGED <<emitted, devs, ntfs>> PROVE AllInSession'
  BY <1>told, InSessionKept DEF SessionInv
<1>later. ASSUME hid_key_buf' = hid_key_buf \/ hid_key_buf' = <<>>
          PROVE  \A j \in DOMAIN emitted : (j > Seen' \/ Buffered(j)') => (j > Seen \/ Buffered(j))
  <2>1. ToSet(<<>>) = {}
    BY DEF ToSet
  <2> QED BY <1>0, <1>seen, <1>later, <2>1 DEF Buffered
<1>1. ASSUME NEW s \in Slots, NEW type \in Types, Plug(type, s) PROVE SessionInv'
  <2>1. \A d \in DOMAIN devs : devs'[d] = devs[d]
    <3>1. devs \in Seq(Types) /\ devs' = Append(devs, type)
      BY <1>1 DEF Plug, TypeOK
    <3> QED BY <3>1
  <2>2. fd \in 0 .. Len(devs) /\ (fd # 0 => fd \in DOMAIN devs)
    BY <1>0 DEF TypeOK
  <2>3. /\ UNCHANGED <<emitted, inScan, gap, rdPc, fd, rdKey, hid_dev_type, mq, dataPc, dataKey,
                       hid_key_buf, ntfs>>
        /\ slots[s] = NoDev /\ slots' = [slots EXCEPT ![s] = Len(devs')]
    BY <1>1 DEF Plug
  <2>4. Present(fd) => Present(fd)'
    BY <2>3 DEF Present, NoDev, TypeOK
  <2>5. AllInSession'
    BY <2>1, <2>3, InSessionKept DEF SessionInv
  <2>6. /\ Pending' <=> Pending
        /\ InSession(fd) => InSession(fd)'
        /\ \A j : Buffered(j)' <=> Buffered(j)
        /\ Seen' = Seen
    BY <1>seen, <2>3 DEF Pending, InSession, Buffered
  <2>7. rdPc \in {"insert", "produce", "read", "post"} => devs'[fd] = devs[fd]
    BY <2>1, <2>2 DEF Hands
  <2>8. Session'
    BY <2>3, <2>4, <2>6, <2>7 DEF SessionInv, Session
  <2> QED BY <2>5, <2>8 DEF SessionInv
<1>2. ASSUME NEW s \in Slots, Unplug(s) PROVE SessionInv'
  <2>1. ~inScan /\ Drained /\ rdPc \notin {"openfile", "identify", "insert"}
    BY <1>2 DEF Unplug, TimelyUnplug
  <2>2. ~Pending
    BY <2>1 DEF Drained, Pending, Hands
  <2>3. UNCHANGED <<devs, emitted, inScan, rdPc, fd, rdKey, hid_dev_type, mq, dataPc, dataKey, hid_key_buf, ntfs>>
    BY <1>2 DEF Unplug
  <2>4. Session'
    <3>1. /\ rdPc' \notin {"identify", "insert"} /\ (InSession(fd) => InSession(fd)')
          /\ Seen' = Seen
      BY <1>seen, <2>1, <2>3 DEF InSession
    <3> QED BY <2>2, <2>3, <3>1, SessionReader DEF SessionInv, Session
  <2> QED BY <1>told, <2>3, <2>4 DEF SessionInv
<1>3. CASE EndScan
  <2>1. UNCHANGED <<devs, slots, emitted, rdPc, fd, rdKey, hid_dev_type, mq, dataPc, dataKey, hid_key_buf, ntfs>>
    BY <1>3 DEF EndScan
  <2>2. /\ Pending' => Pending
        /\ InSession(fd) => InSession(fd)'
    BY <1>3, <2>1 DEF EndScan, Pending, InSession
  <2> QED BY <1>told, <1>later, <2>1, <2>2, SessionKept DEF SessionInv
<1>4. CASE CheckSlot \/ OpenFile \/ IdentifyHid
  <2>1. /\ ~Pending /\ Seen' = Seen
        /\ UNCHANGED <<devs, slots, emitted, inScan, rdKey, mq, dataPc, dataKey, hid_key_buf, ntfs>>
    BY <1>4, <1>idle, <1>seen DEF CheckSlot, OpenFile, IdentifyHid
  <2>2. CASE CheckSlot
    BY <2>1, <2>2, <1>told, SessionReader DEF CheckSlot, SessionInv
  <2>3. CASE OpenFile
    <3>1. slot \in Slots
      BY DEF TypeOK
    <3>2. rdPc' = "open" \/ (rdPc' = "identify" /\ fd' = slots[slot] /\ slots[slot] # NoDev)
      BY <2>3 DEF OpenFile
    <3>3. rdPc' \in {"identify", "insert"} => Present(fd)'
      BY <2>1, <3>1, <3>2 DEF Present
    <3> QED BY <2>1, <3>2, <3>3, <1>told, SessionReader DEF SessionInv
  <2>4. CASE IdentifyHid
    <3>1. Present(fd) /\ hid_dev_type' = devs[fd]
      BY <2>4 DEF IdentifyHid, TypesFound, SessionInv, Session
    <3>2. rdPc' = "open" \/ (rdPc' = "insert" /\ fd' = fd)
      BY <2>4 DEF IdentifyHid
    <3>3. rdPc' \in {"identify", "insert"} => Present(fd)'
      BY <2>1, <3>1, <3>2 DEF Present
    <3> QED BY <2>1, <3>1, <3>2, <3>3, <1>told, SessionReader DEF SessionInv
  <2> QED BY <1>4, <2>2, <2>3, <2>4
<1>5. CASE HidInsert
  <2>1. /\ ~Pending /\ Seen' = Seen /\ rdPc = "insert" /\ rdPc' = "produce"
        /\ UNCHANGED <<devs, slots, emitted, inScan, rdKey, mq, dataPc, dataKey, hid_key_buf, fd, hid_dev_type>>
        /\ ntfs' = Append(ntfs, Ntf("insert", hid_dev_type, <<>>))
    BY <1>5, <1>idle, <1>seen DEF HidInsert
  <2>2. InSession(fd)'
    BY <1>0, <2>1, SaidInSession
  <2>3. ToSet(<<>>) = {}
    BY DEF ToSet
  <2>4. AllInSession'
    BY <1>0, <2>1, <2>3, InSessionSaid
  <2>5. Session'
    BY <2>1, <2>2, SessionReader DEF SessionInv, Session
  <2> QED BY <2>4, <2>5 DEF SessionInv
<1>6. CASE HidPullout
  <2>1. /\ ~Pending /\ Seen' = Seen /\ rdPc = "pullout" /\ rdPc' = "open"
        /\ UNCHANGED <<devs, slots, emitted, inScan, rdKey, mq, dataPc, dataKey, hid_key_buf, fd, hid_dev_type>>
        /\ ntfs' = Append(ntfs, Ntf("pullout", hid_dev_type, <<>>))
    BY <1>6, <1>idle, <1>seen DEF HidPullout
  <2>2. ToSet(<<>>) = {}
    BY DEF ToSet
  <2>3. AllInSession'
    BY <1>0, <2>1, <2>2, InSessionSaid
  <2>4. Session'
    BY <2>1, SessionReader DEF SessionInv, Session
  <2> QED BY <2>3, <2>4 DEF SessionInv
<1>7. CASE HidReadError
  <2>1. /\ ~Pending /\ Seen' = Seen /\ rdPc' = "pullout"
        /\ UNCHANGED <<devs, slots, emitted, inScan, rdKey, mq, dataPc, dataKey, hid_key_buf, ntfs>>
    BY <1>7, <1>idle, <1>seen DEF HidReadError
  <2> QED BY <2>1, <1>told, SessionReader DEF SessionInv
<1>8. CASE HidProduce
  <2>1. /\ UNCHANGED <<devs, slots, emitted, inScan, fd, rdKey, hid_dev_type, mq, dataPc, dataKey, hid_key_buf, ntfs>>
        /\ {rdPc, rdPc'} \subseteq {"produce", "read", "post"}
    BY <1>8 DEF HidProduce
  <2>2. /\ Pending' => Pending
        /\ InSession(fd) => InSession(fd)'
    BY <2>1 DEF Pending, InSession
  <2> QED BY <1>told, <1>later, <2>1, <2>2, SessionKept DEF SessionInv
<1>9. CASE HidPost
  <2>1. /\ UNCHANGED <<devs, slots, emitted, inScan, fd, hid_dev_type, dataPc, dataKey, hid_key_buf, ntfs>>
        /\ {rdPc, rdPc'} \subseteq {"produce", "read", "post"} /\ rdKey # NoKey
    BY <1>9 DEF HidPost, Hands
  <2>2. /\ Pending' => Pending
        /\ InSession(fd) => InSession(fd)'
    BY <2>1 DEF Pending, InSession
  <2> QED BY <1>told, <1>later, <2>1, <2>2, SessionKept DEF SessionInv
<1>10. ASSUME NEW kind \in Kinds, HidRead(kind) PROVE SessionInv'
  <2>1. /\ rdPc = "read" /\ rdPc' = "post" /\ Present(fd)
        /\ UNCHANGED <<devs, slots, fd, hid_dev_type, mq, dataPc, dataKey, hid_key_buf, ntfs>>
    BY <1>10 DEF HidRead
  <2>2. /\ DOMAIN emitted' = 1 .. Len(emitted) + 1
        /\ \A i \in DOMAIN emitted : emitted'[i] = emitted[i]
        /\ emitted'[Len(emitted) + 1].session = fd
    <3>1. /\ Len(emitted') = Len(emitted) + 1 /\ DOMAIN emitted' = 1 .. Len(emitted')
          /\ \A i \in DOMAIN emitted : emitted'[i] = emitted[i]
          /\ emitted'[Len(emitted')] =
                [kind |-> kind, scan |-> IF inScan THEN Scan ELSE Scan + 1, session |-> fd]
      BY <1>10, OneMoreReport
    <3>2. emitted'[Len(emitted')].session = fd
      BY <3>1
    <3> QED BY <3>1, <3>2
  <2>3. /\ InSession(fd) => InSession(fd)'
        /\ \A j : Buffered(j)' <=> Buffered(j)
        /\ Seen' = Seen /\ Present(fd)'
    BY <1>seen, <2>1 DEF InSession, Buffered, Present
  <2>4. \A j \in DOMAIN emitted' : (j > Seen' \/ Buffered(j)') => emitted'[j].session = fd'
    <3> TAKE j \in DOMAIN emitted'
    <3>1. CASE j \in DOMAIN emitted
      BY <2>1, <2>2, <2>3, <3>1 DEF SessionInv, Session
    <3>2. CASE j = Len(emitted) + 1
      BY <2>1, <2>2, <3>2
    <3> QED BY <1>0, <2>2, <3>1, <3>2
  <2>5. Session'
    BY <2>1, <2>3, <2>4 DEF SessionInv, Session
  <2>6. AllInSession'
    BY <2>1, <2>2, InSessionKept DEF SessionInv
  <2> QED BY <2>5, <2>6 DEF SessionInv
<1>11. CASE TimerTick \/ DataReset \/ DataRecycle \/ DataTimeout \/ DataRestart \/ UNCHANGED vars
  <2>1. /\ UNCHANGED <<devs, slots, emitted, inScan, rdPc, fd, hid_dev_type, rdKey, mq, hid_key_buf, ntfs>>
        /\ dataKey' = dataKey \/ dataKey' = NoKey
    BY <1>11 DEF TimerTick, DataReset, DataRecycle, DataTimeout, DataRestart, vars
  <2>2. /\ Pending' => Pending
        /\ InSession(fd) => InSession(fd)'
    BY <2>1 DEF Pending, InSession
  <2> QED BY <1>told, <1>later, <2>1, <2>2, SessionKept DEF SessionInv
<1>12. CASE DataTake
  <2>1. /\ UNCHANGED <<devs, slots, emitted, inScan, rdPc, fd, hid_dev_type, rdKey, hid_key_buf, ntfs>>
        /\ mq # <<>>
    BY <1>12 DEF DataTake
  <2>2. /\ Pending' => Pending
        /\ InSession(fd) => InSession(fd)'
    BY <2>1 DEF Pending, InSession
  <2> QED BY <1>told, <1>later, <2>1, <2>2, SessionKept DEF SessionInv
<1>13. CASE DataChar \/ DataOther
  <2>1. /\ UNCHANGED <<devs, slots, emitted, inScan, rdPc, fd, hid_dev_type, rdKey, mq, dataKey, ntfs>>
        /\ \/ hid_key_buf' = hid_key_buf
           \/ hid_key_buf' = Append(hid_key_buf, dataKey)
        /\ dataPc = "key"
    BY <1>13 DEF DataChar, DataOther
  <2>2. /\ Pending' => Pending
        /\ InSession(fd) => InSession(fd)'
    BY <2>1 DEF Pending, InSession, Hands
  <2>3. dataKey = Seen + 1 /\ dataKey \in DOMAIN emitted
    BY <2>1, Counted
  <2>4. hid_key_buf' = Append(hid_key_buf, dataKey) => ToSet(hid_key_buf') = ToSet(hid_key_buf) \cup {dataKey}
    <3>1. hid_key_buf \in Seq(DOMAIN emitted)
      BY DEF TypeOK
    <3> QED BY <2>3, <3>1, AppendSet
  <2>5. \A j \in DOMAIN emitted : (j > Seen' \/ Buffered(j)') => (j > Seen \/ Buffered(j))
    <3> TAKE j \in DOMAIN emitted
    <3>1. j > Seen' => j > Seen
      BY <1>0, <1>seen
    <3>2. Buffered(j)' => (Buffered(j) \/ j = dataKey)
      BY <2>1, <2>4 DEF Buffered
    <3> QED BY <1>0, <2>3, <3>1, <3>2
  <2> QED BY <1>told, <2>1, <2>2, <2>5, SessionKept DEF SessionInv
<1>report. ASSUME Report, UNCHANGED <<devs, slots, emitted, inScan, rdPc, fd, hid_dev_type, rdKey, mq, dataKey>>
           PROVE  SessionInv'
  <2>1. ntfs' = Append(ntfs, Ntf("data", hid_dev_type, hid_key_buf)) /\ hid_key_buf' = <<>>
    BY <1>report DEF Report
  <2>2. InSession(fd) => InSession(fd)'
    BY <1>0, <1>report, <2>1, SaidInSession
  <2>3. Pending' => Pending
    BY <1>report, <2>1 DEF Pending
  <2>4. Session'
    BY <1>later, <1>report, <2>1, <2>2, <2>3, SessionKept DEF SessionInv
  <2>5. ASSUME NEW k \in ToSet(hid_key_buf)
        PROVE  emitted[k].session = fd /\ hid_dev_type = devs[fd] /\ InSession(fd)
    <3>1. k \in DOMAIN emitted /\ Buffered(k) /\ hid_key_buf # <<>>
      <4>1. hid_key_buf # <<>>
        BY <2>5 DEF ToSet
      <4> QED BY <2>5, <4>1, Counted DEF Buffered
    <3>2. rdPc \in {"produce", "read", "post"}
      BY <3>1 DEF Pending, SessionInv, Session
    <3> QED BY <3>1, <3>2 DEF SessionInv, Session
  <2>6. AllInSession'
    BY <1>0, <1>report, <2>1, <2>5, InSessionSaid
  <2> QED BY <2>4, <2>6 DEF SessionInv
<1>14. CASE DataEnter
  BY <1>14, <1>report DEF DataEnter
<1>15. CASE DataCheck /\ Silent /\ hid_key_buf # <<>>
  BY <1>15, <1>report DEF DataCheck
<1>16. CASE DataCheck /\ ~(Silent /\ hid_key_buf # <<>>)
  <2>1. UNCHANGED <<devs, slots, emitted, inScan, rdPc, fd, hid_dev_type, rdKey, mq, dataKey, hid_key_buf, ntfs>>
    BY <1>16 DEF DataCheck
  <2>2. /\ Pending' => Pending
        /\ InSession(fd) => InSession(fd)'
    BY <2>1 DEF Pending, InSession
  <2> QED BY <1>told, <1>later, <2>1, <2>2, SessionKept DEF SessionInv
<1> QED BY <1>1, <1>2, <1>3, <1>4, <1>5, <1>6, <1>7, <1>8, <1>9, <1>10, <1>11, <1>12, <1>13, <1>14,
           <1>15, <1>16
  DEF Next, ReadTask, ReadSteps, DataTask, Halted

\* No device is open.
LEMMA SessionInit == Init => SessionInv
<1> SUFFICES ASSUME Init PROVE SessionInv
  OBVIOUS
<1>1. DOMAIN emitted = {} /\ DOMAIN ntfs = {} /\ rdPc = "open" /\ ~Pending
  BY DEF Init, Pending
<1> QED BY <1>1 DEF SessionInv, Session, AllInSession

\* A scan is reported between the insertion and the pull-out of its own device.
THEOREM ReportsInSessionHolds == ASSUME Timely PROVE Spec => []ReportsInSession
<1>1. Spec => [](TypeOK /\ Hands /\ Accounted)
  BY HidInitType, HidNextType, PTL DEF Spec
<1>2. Spec => []KeysInv
  BY <1>1, KeysInit, KeysNext, PTL DEF Spec
<1>3. TypeOK /\ Hands /\ KeysInv /\ SessionInv /\ [Next]_vars => SessionInv'
  BY SessionNext
<1>4. Spec => []SessionInv
  BY <1>1, <1>2, <1>3, SessionInit, PTL DEF Spec
<1>5. SessionInv => ReportsInSession
  BY DEF SessionInv, AllInSession, Inserted, ReportsInSession
<1> QED BY <1>4, <1>5, PTL
=============================================================================
