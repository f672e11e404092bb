-------------------------- MODULE DetectionProofs ---------------------------
(***************************************************************************)
(* The two tasks that watch the devices, each for all its instances.       *)
(*                                                                         *)
(* udisk_tsk, for every number of names and disks, plugged in and pulled   *)
(* out between any two of its steps: what the peer was told, g_udisk and   *)
(* the mount points agree.  TypeOK /\ PeerBelieves is inductive.           *)
(*                                                                         *)
(* net_detect_tsk: net_state says what the task last saw of the links,     *)
(* however the links, the disk and the queries interleave with it.         *)
(***************************************************************************)
EXTENDS Udisk, NetState, QueueLemmas, FiniteSetTheorems, TLAPS

-----------------------------------------------------------------------------
(* udisk_tsk and the peer.                                                   *)

\* The notifications of udisk_tsk.
Ntfs == {"insert", "pullout", "error"}

\* How one more notification counts.
LEMMA CountAppend ==
    ASSUME NEW ntf \in Ntfs, NEW new \in Ntfs, ntfs \in Seq(Ntfs), ntfs' = Append(ntfs, new)
    PROVE  /\ Count(ntf) \in Nat
           /\ Count(ntf)' = IF new = ntf THEN Count(ntf) + 1 ELSE Count(ntf)
<1> DEFINE Places(s) == {n \in DOMAIN s : s[n] = ntf}
<1>1. /\ DOMAIN ntfs = 1 .. Len(ntfs) /\ Len(ntfs) \in Nat
      /\ DOMAIN ntfs' = 1 .. Len(ntfs) + 1 /\ ntfs'[Len(ntfs) + 1] = new
      /\ \A n \in 1 .. Len(ntfs) : ntfs'[n] = ntfs[n]
  OBVIOUS
<1>2. IsFiniteSet(Places(ntfs)) /\ Len(ntfs) + 1 \notin Places(ntfs)
  <2>1. IsFiniteSet(1 .. Len(ntfs))
    <3>1. 1 \in Int /\ Len(ntfs) \in Int
      BY <1>1
    <3> QED
      BY ONLY <3>1, FS_Interval
  <2>2. Places(ntfs) \subseteq 1 .. Len(ntfs)
    BY <1>1
  <2> QED
    BY <1>1, <2>1, <2>2, FS_Subset
<1>3. Places(ntfs') = IF new = ntf THEN Places(ntfs) \cup {Len(ntfs) + 1} ELSE Places(ntfs)
  BY <1>1
<1>4. Count(ntf) = Cardinality(Places(ntfs)) /\ Count(ntf)' = Cardinality(Places(ntfs'))
  BY DEF Count
<1> HIDE DEF Places
<1>5. /\ Cardinality(Places(ntfs)) \in Nat
      /\ Cardinality(Places(ntfs) \cup {Len(ntfs) + 1}) = Cardinality(Places(ntfs)) + 1
  BY <1>2, FS_CardinalityType, FS_AddElement
<1> QED
  BY <1>3, <1>4, <1>5

\* ... and none.
LEMMA CountSame ==
    ASSUME NEW ntf, ntfs' = ntfs
    PROVE  Count(ntf)' = Count(ntf)
  BY DEF Count

\* The inductive invariant of udisk_tsk.
Inv == TypeOK /\ PeerBelieves

\* No disk is mounted and nothing is told.
LEMMA InvInit == Init => Inv
<1> SUFFICES ASSUME Init PROVE Inv
  OBVIOUS
<1>1. 1 \in Slots /\ MaxDisks \in Nat
  BY BoundsAssumption DEF Slots
<1>2. TypeOK
  BY <1>1 DEF Init, TypeOK, NoDisk
<1>3. Count("insert") = 0 /\ Count("pullout") = 0
  <2>1. \A ntf : {n \in DOMAIN ntfs : ntfs[n] = ntf} = {}
    BY DEF Init
  <2> QED
    BY <2>1, FS_EmptySet DEF Count
<1> QED
  BY <1>2, <1>3 DEF Init, Inv, PeerBelieves

-----------------------------------------------------------------------------
(* The disks: the task and the peer do not notice.                           *)

\* Plugging in and pulling out change the disks and the slots only.
LEMMA DisksInv ==
    ASSUME Inv, \E s \in Slots : Pull(s) \/ \E kind \in Kinds : Plug(s, kind)
    PROVE  Inv'
<1>1. PeerBelieves'
  <2>1. UNCHANGED <<mounted, state, pc, i, ntfs>>
    BY DEF Pull, Plug
  <2> QED
    BY <2>1, CountSame DEF Inv, PeerBelieves
<1>2. ASSUME NEW s \in Slots, Pull(s) PROVE TypeOK'
  <2>1. slot' \in [Slots -> 0 .. Len(disks)]
    BY <1>2 DEF Inv, TypeOK, Pull, NoDisk
  <2> QED
    BY <1>2, <2>1 DEF Inv, TypeOK, Pull, history
<1>3. ASSUME NEW s \in Slots, NEW kind \in Kinds, Plug(s, kind) PROVE TypeOK'
  <2>1. /\ disks' \in Seq(Kinds) /\ Len(disks') = Len(disks) + 1 /\ Len(disks) \in Nat
        /\ Len(disks') <= MaxDisks
    BY <1>3, BoundsAssumption DEF Inv, TypeOK, Plug
  <2>2. slot' \in [Slots -> 0 .. Len(disks')] /\ mounted' \in [Slots -> 0 .. Len(disks')]
    BY <1>3, <2>1 DEF Inv, TypeOK, Plug
  <2>3. told' \subseteq 1 .. Len(disks') /\ swapped' \subseteq 1 .. Len(disks')
    <3>1. \A D \in SUBSET (1 .. Len(disks)) : D \subseteq 1 .. Len(disks')
      BY <2>1
    <3>2. Len(disks') \in 1 .. Len(disks')
      BY <2>1
    <3> QED
      BY <1>3, <3>1, <3>2, Zenon DEF Inv, TypeOK, Plug
  <2>4. config' \in 0 .. Len(disks')
    BY <1>3, <2>1 DEF Inv, TypeOK, Plug
  <2> QED
    BY <1>3, <2>1, <2>2, <2>3, <2>4 DEF Inv, TypeOK, Plug
<1> QED
  BY <1>1, <1>2, <1>3 DEF Inv

-----------------------------------------------------------------------------
(* udisk_tsk.                                                                *)

\* The index of the next name is one of a name.
LEMMA NameNext == ASSUME i \in Slots, NextName PROVE i' \in Slots /\ pc' = "check"
  BY BoundsAssumption DEF NextName, Slots

\* The steps that only look for a disk, or see that it has gone.
LEMMA LookInv ==
    ASSUME Inv, Check \/ MountFails \/ Gone
    PROVE  Inv'
<1>1. /\ UNCHANGED <<env, mounted, state, ntfs, config, history>> /\ i' \in Slots
      /\ \/ pc \in {"check", "mount"} /\ pc' \in {"check", "mount"}
         \/ pc = "wait" /\ pc' = "umount" /\ i' = i
  BY NameNext DEF Inv, TypeOK, Check, MountFails, Gone
<1>2. TypeOK'
  BY <1>1 DEF Inv, TypeOK, env, history
<1>3. PeerBelieves'
  BY <1>1, CountSame DEF Inv, PeerBelieves
<1> QED
  BY <1>2, <1>3 DEF Inv

\* Mounting: the disk counts as mounted, and its insertion is still to be told.
LEMMA MountInv == ASSUME Inv, Mount PROVE Inv'
<1>1. /\ mounted' = [mounted EXCEPT ![i] = slot[i]] /\ state' = [state EXCEPT ![i] = 0]
      /\ pc = "mount" /\ pc' = "insert" /\ slot[i] # NoDisk
      /\ UNCHANGED <<disks, slot, i, ntfs, config, told, swapped>>
  BY DEF Mount, env, history
<1>2. TypeOK'
  BY <1>1 DEF Inv, TypeOK
<1>3. PeerBelieves'
  BY <1>1, CountSame DEF Inv, TypeOK, PeerBelieves
<1> QED
  BY <1>2, <1>3 DEF Inv

\* The insertion is told: the counts differ by one while a disk is mounted.
LEMMA InsertInv == ASSUME Inv, Insert PROVE Inv'
<1>1. /\ ntfs' = Append(ntfs, "insert") /\ told' = told \cup {mounted[i]}
      /\ pc = "insert" /\ pc' = "param"
      /\ UNCHANGED <<disks, slot, mounted, state, i, config, swapped>>
  BY DEF Insert, env
<1>2. ntfs \in Seq(Ntfs) /\ ntfs' \in Seq(Ntfs) /\ {"insert", "pullout"} \subseteq Ntfs
  BY <1>1 DEF Inv, TypeOK, Ntfs
<1>3. mounted[i] \in 1 .. Len(disks)
  BY <1>1 DEF Inv, TypeOK, PeerBelieves, NoDisk
<1>4. TypeOK'
  BY <1>1, <1>2, <1>3 DEF Inv, TypeOK, Ntfs
<1>5. /\ Count("insert") \in Nat /\ Count("insert")' = Count("insert") + 1
      /\ Count("pullout") \in Nat /\ Count("pullout")' = Count("pullout")
  BY <1>1, <1>2, CountAppend
<1>6. PeerBelieves'
  BY <1>1, <1>5 DEF Inv, PeerBelieves
<1> QED
  BY <1>4, <1>6 DEF Inv

\* Reading the parameters may tell an error, which is neither of the two.
LEMMA ReadParamInv == ASSUME Inv, ReadParam PROVE Inv'
<1>1. /\ \/ ntfs' = ntfs /\ config' = mounted[i]
         \/ ntfs' = Append(ntfs, "error") /\ config' = config
      /\ pc = "param" /\ pc' = "wait"
      /\ UNCHANGED <<disks, slot, mounted, state, i, told, swapped>>
  BY DEF ReadParam, env, history
<1>2. /\ ntfs \in Seq(Ntfs) /\ ntfs' \in Seq(Ntfs)
      /\ "insert" \in Ntfs /\ "pullout" \in Ntfs /\ "error" \in Ntfs
  <2>1. ntfs \in Seq(Ntfs)
    BY DEF Inv, TypeOK, Ntfs
  <2>2. "insert" \in Ntfs /\ "pullout" \in Ntfs /\ "error" \in Ntfs
    BY DEF Ntfs
  <2> QED
    BY <1>1, <2>1, <2>2
<1>3. TypeOK'
  BY <1>1, <1>2 DEF Inv, TypeOK, Ntfs
<1>4. Count("insert")' = Count("insert") /\ Count("pullout")' = Count("pullout")
  BY <1>1, <1>2, CountAppend, CountSame
<1>5. PeerBelieves'
  BY <1>1, <1>4 DEF Inv, PeerBelieves
<1> QED
  BY <1>3, <1>5 DEF Inv

\* Unmounting: the pull-out is still to be told.
LEMMA UmountInv == ASSUME Inv, Umount PROVE Inv'
<1>1. /\ mounted' = [mounted EXCEPT ![i] = NoDisk] /\ state' = [state EXCEPT ![i] = 1]
      /\ pc = "umount" /\ pc' = "pullout"
      /\ UNCHANGED <<disks, slot, i, ntfs, config, told, swapped>>
  BY DEF Umount, env, history
<1>2. TypeOK'
  BY <1>1 DEF Inv, TypeOK, NoDisk
<1>3. PeerBelieves'
  BY <1>1, CountSame DEF Inv, TypeOK, PeerBelieves
<1> QED
  BY <1>2, <1>3 DEF Inv

\* The pull-out is told: the counts are equal again.
LEMMA PulloutInv == ASSUME Inv, Pullout PROVE Inv'
<1>1. /\ ntfs' = Append(ntfs, "pullout") /\ pc = "pullout" /\ pc' = "check" /\ i' = 1
      /\ UNCHANGED <<disks, slot, mounted, state, config, told, swapped>>
  BY DEF Pullout, env, history
<1>2. ntfs \in Seq(Ntfs) /\ ntfs' \in Seq(Ntfs) /\ {"insert", "pullout"} \subseteq Ntfs
  BY <1>1 DEF Inv, TypeOK, Ntfs
<1>3. TypeOK'
  <2>1. 1 \in Slots
    BY BoundsAssumption DEF Slots
  <2> QED
    BY <1>1, <1>2, <2>1 DEF Inv, TypeOK, Ntfs
<1>4. /\ Count("pullout") \in Nat /\ Count("pullout")' = Count("pullout") + 1
      /\ Count("insert") \in Nat /\ Count("insert")' = Count("insert")
  BY <1>1, <1>2, CountAppend
<1>5. PeerBelieves'
  BY <1>1, <1>4 DEF Inv, PeerBelieves
<1> QED
  BY <1>3, <1>5 DEF Inv

\* Every step of the task and of the disks.
LEMMA InvNext == Inv /\ [Next]_vars => Inv'
<1> SUFFICES ASSUME Inv, [Next]_vars PROVE Inv'
  OBVIOUS
<1>1. CASE UNCHANGED vars
  BY <1>1, CountSame DEF Inv, TypeOK, PeerBelieves, vars, env, history
<1>2. CASE udisk_tsk
  BY <1>2, LookInv, MountInv, InsertInv, ReadParamInv, UmountInv, PulloutInv DEF udisk_tsk
<1>3. CASE \E s \in Slots : Pull(s) \/ \E kind \in Kinds : Plug(s, kind)
  BY <1>3, DisksInv
<1> QED
  BY <1>1, <1>2, <1>3 DEF Next

-----------------------------------------------------------------------------
\* Every variable of udisk_tsk and of the disks keeps its type.
THEOREM UdiskTypeCorrect == Spec => []TypeOK
<1>1. Inv => TypeOK
  BY DEF Inv
<1> QED
  BY <1>1, InvInit, InvNext, PTL DEF Spec

\* The peer believes in a disk exactly while one is mounted, never in two, and
\* g_udisk says the same, whenever disks are plugged in and pulled out.
THEOREM PeerBelievesHolds == Spec => []PeerBelieves
<1>1. Inv => PeerBelieves
  BY DEF Inv
<1> QED
  BY <1>1, InvInit, InvNext, PTL DEF Spec

-----------------------------------------------------------------------------
(* net_detect_tsk and the links.                                             *)

\* While the task is busy with a link, it does what its look said.
Midway ==
    /\ detectPc \in {"up", "wait", "address"} => known[link] # "down"
    /\ detectPc \in {"down", "error"} => known[link] # "up"
    /\ detectPc = "error" /\ known[link] = "down" => course[link] = 0

\* The inductive invariant of the link detection.
SeenInv == NetTypeOK /\ Midway /\ SeenMeansTold

\* The LAN and WiFi, each the other of the other.
LEMMA LinksTwo == Links = {0, 1} /\ \A l \in Links : 1 - l \in Links /\ 1 - l # l
  BY DEF Links, Lan, Wifi

\* Nothing has been seen yet.
LEMMA SeenInit == NetInit => SeenInv
<1> SUFFICES ASSUME NetInit PROVE SeenInv
  OBVIOUS
<1>1. NetTypeOK
  <2>1. 0 \in Links /\ Lan \in Links
    BY LinksTwo DEF Lan
  <2> QED
    BY <2>1 DEF NetInit, NetTypeOK, Courses, Errs
<1>2. Midway /\ SeenMeansTold
  BY DEF NetInit, Midway, SeenMeansTold
<1> QED
  BY <1>1, <1>2 DEF SeenInv

\* Types, one case per action.
LEMMA TypeStep == NetTypeOK /\ [NetNext]_netVars => NetTypeOK'
<1> SUFFICES ASSUME NetTypeOK, [NetNext]_netVars PROVE NetTypeOK'
  OBVIOUS
<1> USE LinksTwo DEF NetTypeOK, Courses, Errs, links, net_state, query
<1>1. ASSUME NEW l \in Links, LinkChanges(l) PROVE NetTypeOK'
  BY <1>1 DEF LinkChanges
<1>2. ASSUME NEW l \in Links, AddressChanges(l) PROVE NetTypeOK'
  BY <1>2 DEF AddressChanges
<1>3. ASSUME NEW l \in Links, QueryCourse(l) PROVE NetTypeOK'
  BY <1>3 DEF QueryCourse
<1>4. CASE QueryError
  BY <1>4 DEF QueryError
<1>5. CASE Look \/ LookUnclear \/ LinkUp \/ WaitAddress
  BY <1>5 DEF Look, LookUnclear, LinkUp, WaitAddress, NextLink, SetCourse
<1>6. CASE LinkReady \/ LinkDown \/ LinkError
  BY <1>6 DEF LinkReady, LinkDown, LinkError, NextLink, SetCourse, Down
<1>7. CASE DiskCourse \/ DiskError
  BY <1>7 DEF DiskCourse, DiskError, NoParam, Wifi
<1>8. CASE UNCHANGED netVars
  BY <1>8 DEF netVars
<1> QED
  BY <1>1, <1>2, <1>3, <1>4, <1>5, <1>6, <1>7, <1>8 DEF NetNext, Detect

\* What was seen is told: the links and the queries do not touch it, each write of the
\* task brings its entry closer to its look, and a write of udisk_tsk forgets the look.
LEMMA SeenStep == SeenInv /\ [NetNext]_netVars => SeenInv'
<1> SUFFICES ASSUME SeenInv, [NetNext]_netVars PROVE (Midway /\ SeenMeansTold)'
  BY TypeStep DEF SeenInv
<1> USE LinksTwo DEF SeenInv, Midway, SeenMeansTold
<1> USE DEF NetTypeOK, Courses, Errs, links, net_state, query
<1>1. ASSUME NEW l \in Links, LinkChanges(l) PROVE (Midway /\ SeenMeansTold)'
  BY <1>1 DEF LinkChanges
<1>2. ASSUME NEW l \in Links, AddressChanges(l) \/ QueryCourse(l)
      PROVE  (Midway /\ SeenMeansTold)'
  BY <1>2 DEF AddressChanges, QueryCourse
<1>3. CASE QueryError
  BY <1>3 DEF QueryError
<1>4. CASE Look
  BY <1>4 DEF Look
<1>5. CASE LookUnclear
  BY <1>5 DEF LookUnclear, NextLink
<1>6. CASE LinkUp
  BY <1>6 DEF LinkUp, SetCourse
<1>7. CASE WaitAddress
  BY <1>7 DEF WaitAddress
<1>8. CASE LinkReady
  BY <1>8 DEF LinkReady, NextLink, SetCourse
<1>9. CASE LinkDown
  BY <1>9 DEF LinkDown, SetCourse
<1>10. CASE LinkError
  BY <1>10 DEF LinkError, NextLink, Down
<1>11. CASE DiskCourse
  BY <1>11 DEF DiskCourse, Wifi
<1>12. CASE DiskError
  BY <1>12 DEF DiskError, NoParam, Wifi
<1>13. CASE UNCHANGED netVars
  BY <1>13 DEF netVars
<1> QED
  BY <1>1, <1>2, <1>3, <1>4, <1>5, <1>6, <1>7, <1>8, <1>9, <1>10, <1>11, <1>12, <1>13
     DEF NetNext, Detect

\* Every variable of the link detection keeps its type.
THEOREM NetTypeCorrect == NetSpec => []NetTypeOK
<1>1. NetInit => NetTypeOK
  BY SeenInit DEF SeenInv
<1> QED
  BY <1>1, TypeStep, PTL DEF NetSpec

\* For any number of changes of the links: the entry of a link says what the task
\* last saw of it, unless it is busy with it, the link has changed since, or
\* udisk_tsk has written the entry.
THEOREM SeenMeansToldHolds == NetSpec => []SeenMeansTold
<1>1. SeenInv => SeenMeansTold
  BY DEF SeenInv
<1> QED
  BY <1>1, SeenInit, SeenStep, PTL DEF NetSpec
=============================================================================
