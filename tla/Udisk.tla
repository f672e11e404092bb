------------------------------- MODULE Udisk -------------------------------
(***************************************************************************)
(* udisk_tsk mounts the first disk it finds under its three names, tells   *)
(* the peer, takes the WiFi parameters from it, waits until its device     *)
(* file is gone, unmounts it and tells the peer again.  A bad disk, which  *)
(* cannot be mounted, is passed over.  The disks are the environment: they *)
(* are plugged in and pulled out at any time, between any two steps.       *)
(***************************************************************************)
EXTENDS Integers, Sequences, FiniteSets

CONSTANTS
    NumSlots,      \* names a disk can get: sda1, sdb1, sdc1
    MaxDisks       \* bound: disks plugged in

ASSUME BoundsAssumption == {NumSlots, MaxDisks} \subseteq Nat \ {0}

Slots == 1 .. NumSlots
NoDisk == 0
Kinds == {"wifi", "plain", "bad"}   \* with a system.conf; without; not mountable

VARIABLES
    disks,         \* kinds of the disks plugged in so far: a disk is its index
    slot,          \* the disk behind each device file
    mounted,       \* the disk mounted at each mount point
    state,         \* g_udisk[i].state: 0 mounted, 1 not
    pc, i,         \* udisk_tsk: where it is, and the index of the name it looks at
    ntfs,          \* what the peer has been told: hid_insert_ntf, hid_pullout_ntf, err_sta_ntf
    config,        \* the disk whose parameters were taken last
    told,          \* history: disks whose insertion was told
    swapped        \* history: disks plugged in under the name of a disk that was still
                   \* mounted

env == <<disks, slot>>
history == <<told, swapped>>
vars == <<env, mounted, state, pc, i, ntfs, config, history>>

Init ==
    /\ disks = <<>> /\ slot = [s \in Slots |-> NoDisk]
    /\ mounted = [s \in Slots |-> NoDisk] /\ state = [s \in Slots |-> 1]
    /\ pc = "check" /\ i = 1
    /\ ntfs = <<>> /\ config = NoDisk
    /\ told = {} /\ swapped = {}

-----------------------------------------------------------------------------
(* The disks.                                                                *)

Plug(s, kind) ==
    /\ slot[s] = NoDisk /\ Len(disks) < MaxDisks
    /\ disks' = Append(disks, kind)
    /\ slot' = [slot EXCEPT ![s] = Len(disks')]
    /\ swapped' = IF mounted[s] # NoDisk THEN swapped \cup {Len(disks')} ELSE swapped
    /\ UNCHANGED <<mounted, state, pc, i, ntfs, config, told>>

Pull(s) ==
    /\ slot[s] # NoDisk
    /\ slot' = [slot EXCEPT ![s] = NoDisk]
    /\ UNCHANGED <<disks, mounted, state, pc, i, ntfs, config, history>>

-----------------------------------------------------------------------------
(* udisk_tsk.                                                                *)

\* NextName that runs beyond the last name.
NextNameOn == pc' = "check" /\ i' = IF i > NumSlots THEN 1 ELSE i + 1

\* The next name, and after the last one a second's sleep.
NextName == pc' = "check" /\ i' = IF i = NumSlots THEN 1 ELSE i + 1

\* do_check: is there a device file?
Check ==
    /\ pc = "check"
    /\ IF slot[i] = NoDisk THEN NextName ELSE pc' = "mount" /\ i' = i
    /\ UNCHANGED <<env, mounted, state, ntfs, config, history>>

\* MountFails that looks at the same name again.
MountFailsStays ==
    /\ pc = "mount" /\ (slot[i] # NoDisk => disks[slot[i]] = "bad")
    /\ pc' = "check" /\ i' = i
    /\ UNCHANGED <<env, mounted, state, ntfs, config, history>>

\* The disk is bad, or has gone since: the next name's turn.
MountFails ==
    /\ pc = "mount" /\ (slot[i] # NoDisk => disks[slot[i]] = "bad")
    /\ NextName
    /\ UNCHANGED <<env, mounted, state, ntfs, config, history>>

Mount ==
    /\ pc = "mount" /\ slot[i] # NoDisk /\ disks[slot[i]] # "bad"
    /\ mounted' = [mounted EXCEPT ![i] = slot[i]] /\ state' = [state EXCEPT ![i] = 0]
    /\ pc' = "insert"
    /\ UNCHANGED <<env, i, ntfs, config, history>>

Insert ==
    /\ pc = "insert" /\ pc' = "param"
    /\ ntfs' = Append(ntfs, "insert") /\ told' = told \cup {mounted[i]}
    /\ UNCHANGED <<env, mounted, state, i, config, swapped>>

\* read_wifi_param: system.conf is opened on the mounted disk, which may have
\* gone; if it cannot be, the peer gets an error (and net_state: see NetState).
ReadParam ==
    /\ pc = "param" /\ pc' = "wait"
    /\ IF disks[mounted[i]] = "wifi" /\ slot[i] = mounted[i]
       THEN config' = mounted[i] /\ ntfs' = ntfs
       ELSE config' = config /\ ntfs' = Append(ntfs, "error")
    /\ UNCHANGED <<env, mounted, state, i, history>>

\* The device file is looked at every millisecond; the task goes on when it has
\* gone, not when there is another disk behind it.
Gone ==
    /\ pc = "wait" /\ slot[i] = NoDisk
    /\ pc' = "umount"
    /\ UNCHANGED <<env, mounted, state, i, ntfs, config, history>>

\* Umount that leaves g_udisk[i].state.
UmountSilent ==
    /\ pc = "umount" /\ pc' = "pullout"
    /\ mounted' = [mounted EXCEPT ![i] = NoDisk] /\ state' = state
    /\ UNCHANGED <<env, i, ntfs, config, history>>

Umount ==
    /\ pc = "umount" /\ pc' = "pullout"
    /\ mounted' = [mounted EXCEPT ![i] = NoDisk] /\ state' = [state EXCEPT ![i] = 1]
    /\ UNCHANGED <<env, i, ntfs, config, history>>

\* Pullout that tells nobody.
PulloutSilent ==
    /\ pc = "pullout" /\ pc' = "check" /\ i' = 1
    /\ UNCHANGED <<env, mounted, state, ntfs, config, history>>

\* The scan begins anew, at the first name.
Pullout ==
    /\ pc = "pullout" /\ pc' = "check" /\ i' = 1
    /\ ntfs' = Append(ntfs, "pullout")
    /\ UNCHANGED <<env, mounted, state, config, history>>

-----------------------------------------------------------------------------
udisk_tsk ==
    \/ Check \/ MountFails \/ Mount \/ Insert \/ ReadParam
    \/ Gone \/ Umount \/ Pullout

Next ==
    \/ \E s \in Slots : Pull(s) \/ \E kind \in Kinds : Plug(s, kind)
    \/ udisk_tsk

\* The task sleeps and goes on; nothing is assumed of the disks.
Spec == Init /\ [][Next]_vars
FairSpec == Spec /\ WF_vars(udisk_tsk)

-----------------------------------------------------------------------------
(* Properties.                                                               *)

Disks == 1 .. MaxDisks

TypeOK ==
    /\ disks \in Seq(Kinds) /\ Len(disks) <= MaxDisks
    /\ slot \in [Slots -> 0 .. Len(disks)] /\ mounted \in [Slots -> 0 .. Len(disks)]
    /\ state \in [Slots -> {0, 1}]
    /\ pc \in {"check", "mount", "insert", "param", "wait", "umount", "pullout"}
    /\ i \in Slots
    /\ ntfs \in Seq({"insert", "pullout", "error"}) /\ config \in 0 .. Len(disks)
    /\ told \subseteq 1 .. Len(disks) /\ swapped \subseteq 1 .. Len(disks)

Count(ntf) == Cardinality({n \in DOMAIN ntfs : ntfs[n] = ntf})

\* What the peer has heard, g_udisk and the mount points agree: insertions and
\* pull-outs alternate, the peer believes in a disk exactly while one is mounted
\* (but for the steps around the notification), never in two, and no disk is
\* left mounted when the task looks for another.
PeerBelieves ==
    /\ Count("insert") - Count("pullout")
          = IF pc \in {"param", "wait", "umount", "pullout"} THEN 1 ELSE 0
    /\ \A s \in Slots : (state[s] = 0) <=> (mounted[s] # NoDisk)
    /\ \A s \in Slots :
          mounted[s] # NoDisk <=> s = i /\ pc \in {"insert", "param", "wait", "umount"}

\* A good disk that stays, when no other good one does, is told to the peer
\* sooner or later, and its parameters are taken if it has any: bad disks do not
\* hide it, nor does a disk that is no longer there.  The exception is a disk that
\* took the place of a mounted one before the task looked at the device file: it
\* is not served, and as long as it stays it keeps the others waiting.
Alone(d, s) ==
    /\ d <= Len(disks) /\ slot[s] = d /\ disks[d] # "bad"
    /\ \A t \in Slots \ {s} : slot[t] # NoDisk => disks[slot[t]] = "bad" /\ slot[t] \notin swapped

DiskServed ==
    \A d \in Disks : \A s \in Slots :
       <>[]Alone(d, s) =>
          <>(d \in swapped \/ (d \in told /\ (disks[d] = "wifi" => config = d)))

\* A disk that is out for good is unmounted and told.
PulloutTold ==
    (\A s \in Slots : <>[](slot[s] = NoDisk)) => <>[](Count("insert") = Count("pullout"))
=============================================================================
