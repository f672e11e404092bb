------------------------------ MODULE NetState ------------------------------
(***************************************************************************)
(* The first two entries of net_state, the LAN and the WiFi link, as the   *)
(* peer can query them.  net_detect_tsk looks at both links every second   *)
(* and waits for an address on one that is up; udisk_tsk writes the WiFi   *)
(* entry when a disk has no parameters; uart_recv_tsk copies an entry into *)
(* the answer to a query (que_sta_rsp).  None of them takes a lock.  The   *)
(* links are the environment: they go up and down and get and lose         *)
(* addresses at any time.                                                  *)
(*                                                                         *)
(* The names of the specification differ from those of Udisk, so that one  *)
(* module can extend both.                                                 *)
(***************************************************************************)
EXTENDS Integers

CONSTANT MaxChanges    \* bound: times the links go up or down

ASSUME ChangesAssumption == MaxChanges \in Nat

Lan == 0
Wifi == 1
Links == {Lan, Wifi}

VARIABLES
    up, address,        \* the links: is one up, has its interface an address
    changes,            \* history: number of changes of `up'
    course, err,        \* net_state[0] and net_state[1]
    detectPc, link,     \* net_detect_tsk: where it is, and the link it is busy with
    diskPc,             \* udisk_tsk in read_wifi_param
    queryPc, report,    \* que_sta_rsp: where it is, and the entry in the answer
    known               \* history: what the last look at a link said, forgotten when the
                        \* link changes or another thread writes its entry

links == <<up, address, changes>>
net_state == <<course, err>>
query == <<queryPc, report>>
netVars == <<links, net_state, detectPc, link, diskPc, query, known>>

Courses == 0 .. 2    \* 0: down, 1: up, 2: with an address
Errs == 0 .. 2       \* 0: none, 1: disconnected, 2: no parameters
Down == 1
NoParam == 2

NetInit ==
    /\ up \in [Links -> BOOLEAN] /\ address \in [Links -> BOOLEAN] /\ changes = 0
    /\ course = [l \in Links |-> 0] /\ err = [l \in Links |-> 0]
    /\ detectPc = "look" /\ link = Lan
    /\ diskPc = "idle"
    /\ queryPc = "idle" /\ report = [link |-> Lan, course |-> 0, err |-> 0]
    /\ known = [l \in Links |-> "nothing"]

-----------------------------------------------------------------------------
(* The links.                                                                *)

LinkChanges(l) ==
    /\ changes < MaxChanges /\ changes' = changes + 1
    /\ up' = [up EXCEPT ![l] = ~@]
    /\ known' = [known EXCEPT ![l] = "nothing"]
    /\ UNCHANGED <<address, net_state, detectPc, link, diskPc, query>>

AddressChanges(l) ==
    /\ address' = [address EXCEPT ![l] = ~@]
    /\ UNCHANGED <<up, changes, net_state, detectPc, link, diskPc, query, known>>

-----------------------------------------------------------------------------
(* net_detect_tsk.                                                           *)

\* NextLink that runs beyond the second link.
NextLinkOn == link' = link + 1 /\ detectPc' = "look"

\* The end of a look: the other link, and after the second a second's sleep.
NextLink == link' = 1 - link /\ detectPc' = "look"

\* The output of devmem or ap_client says that the link is up or down, ...
Look ==
    /\ detectPc = "look"
    /\ detectPc' = IF up[link] THEN "up" ELSE "down"
    /\ known' = [known EXCEPT ![link] = IF up[link] THEN "up" ELSE "down"]
    /\ UNCHANGED <<links, net_state, link, diskPc, query>>

\* ... or nothing that the task understands.
LookUnclear ==
    /\ detectPc = "look" /\ NextLink
    /\ UNCHANGED <<links, net_state, diskPc, query, known>>

SetCourse(value) == course' = [course EXCEPT ![link] = value]

LinkUp ==
    /\ detectPc = "up" /\ SetCourse(1) /\ detectPc' = "wait"
    /\ UNCHANGED <<links, err, link, diskPc, query, known>>

\* check_dhcp_state has found an address; until then it is asked every second,
\* whatever happens to the link.
WaitAddress ==
    /\ detectPc = "wait" /\ address[link] /\ detectPc' = "address"
    /\ UNCHANGED <<links, net_state, link, diskPc, query, known>>

\* LinkReady that does not look for an address on the WiFi link.
LinkReadyLan ==
    /\ detectPc = "address" /\ NextLink
    /\ IF link = Lan THEN SetCourse(2) ELSE course' = course
    /\ UNCHANGED <<links, err, diskPc, query, known>>

LinkReady ==
    /\ detectPc = "address" /\ SetCourse(2) /\ NextLink
    /\ UNCHANGED <<links, err, diskPc, query, known>>

\* LinkDown that leaves the course.
LinkDownKept ==
    /\ detectPc = "down" /\ detectPc' = "error"
    /\ UNCHANGED <<links, net_state, link, diskPc, query, known>>

LinkDown ==
    /\ detectPc = "down" /\ SetCourse(0) /\ detectPc' = "error"
    /\ UNCHANGED <<links, err, link, diskPc, query, known>>

LinkError ==
    /\ detectPc = "error" /\ err' = [err EXCEPT ![link] = Down] /\ NextLink
    /\ UNCHANGED <<links, course, diskPc, query, known>>

Detect ==
    \/ Look \/ LookUnclear \/ LinkUp \/ WaitAddress \/ LinkReady
    \/ LinkDown \/ LinkError

-----------------------------------------------------------------------------
(* udisk_tsk, when system.conf cannot be opened.                             *)

DiskCourse ==
    /\ diskPc = "idle" /\ diskPc' = "error"
    /\ course' = [course EXCEPT ![Wifi] = 0]
    /\ known' = [known EXCEPT ![Wifi] = "nothing"]
    /\ UNCHANGED <<links, err, detectPc, link, query>>

DiskError ==
    /\ diskPc = "error" /\ diskPc' = "idle"
    /\ err' = [err EXCEPT ![Wifi] = NoParam]
    /\ UNCHANGED <<links, course, detectPc, link, query, known>>

-----------------------------------------------------------------------------
(* que_sta_rsp copies an entry byte by byte.                                 *)

QueryCourse(l) ==
    /\ queryPc = "idle" /\ queryPc' = "error"
    /\ report' = [link |-> l, course |-> course[l], err |-> 0]
    /\ UNCHANGED <<links, net_state, detectPc, link, diskPc, known>>

QueryError ==
    /\ queryPc = "error" /\ queryPc' = "idle"
    /\ report' = [report EXCEPT !.err = err[report.link]]
    /\ UNCHANGED <<links, net_state, detectPc, link, diskPc, known>>

-----------------------------------------------------------------------------
NetNext ==
    \/ \E l \in Links : LinkChanges(l) \/ AddressChanges(l) \/ QueryCourse(l)
    \/ QueryError \/ Detect \/ DiskCourse \/ DiskError

\* The threads run; the tools have something to say about a link now and then.
NetSpec == NetInit /\ [][NetNext]_netVars
NetFairSpec ==
    /\ NetSpec /\ WF_netVars(Detect) /\ WF_netVars(DiskError)
    /\ \A l \in Links : SF_netVars(Look /\ link = l)

-----------------------------------------------------------------------------
(* Properties.                                                               *)

NetTypeOK ==
    /\ up \in [Links -> BOOLEAN] /\ address \in [Links -> BOOLEAN]
    /\ changes \in Nat
    /\ course \in [Links -> Courses] /\ err \in [Links -> Errs]
    /\ detectPc \in {"look", "up", "wait", "address", "down", "error"} /\ link \in Links
    /\ diskPc \in {"idle", "error"}
    /\ queryPc \in {"idle", "error"}
    /\ report \in [link : Links, course : Courses, err : Errs]
    /\ known \in [Links -> {"nothing", "up", "down"}]

\* The entry of a link says what the task last saw of it, once it has done with
\* it: up means with an address, down means with an error.  So what a query finds
\* is wrong for one look at most, unless the task waits for an address elsewhere
\* or udisk_tsk has written the entry.
SeenMeansTold ==
    \A l \in Links :
       ~(link = l /\ detectPc # "look") =>
          /\ known[l] = "up" => course[l] = 2
          /\ known[l] = "down" => course[l] = 0 /\ err[l] # 0

\* When links and disk have come to rest, the entries become right, provided that
\* the task does not wait for an address for ever: a link that is up is not told
\* to be down any more, and now and then to have an address (LinkUp takes that back
\* at every look, for the time of the next test).
LinksReported ==
    <>[](diskPc = "idle") /\ []<>(detectPc # "wait")
    => \A l \in Links :
          /\ <>[]up[l] => <>[](course[l] # 0) /\ []<>(course[l] = 2)
          /\ <>[]~up[l] => <>[](course[l] = 0)
=============================================================================
