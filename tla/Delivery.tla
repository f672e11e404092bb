------------------------------ MODULE Delivery ------------------------------
(***************************************************************************)
(* What the UART sender promises to the threads that hand it frames,       *)
(* without the pool, the poll field, the passes, or the two tasks that     *)
(* keep the promise.  A frame is submitted in a slot; it is transmitted    *)
(* in its turn; a reply once, a notification until its answer is seen or   *)
(* it has been transmitted MaxTries times.  A slot is used again only when *)
(* its frame is neither waiting nor on its way to the line.                *)
(***************************************************************************)
EXTENDS Integers, SequencesExt

CONSTANTS
    Slots,
    Frames,     \* records with a field kind, "ntf" or "reply"
    MaxTries    \* transmissions of a notification that is never answered

VARIABLES
    queue,      \* submitted frames that are waiting, oldest first
    line        \* transmissions that are not finished, oldest first

Entries == [slot : Slots, frame : Frames, tries : Nat, answered : BOOLEAN]
Transmissions == [slot : Slots, frame : Frames]

Init == queue = <<>> /\ line = <<>>

Unused(s) ==
    /\ \A i \in DOMAIN queue : queue[i].slot # s
    /\ \A i \in DOMAIN line : line[i].slot # s

\* A thread hands over frame f.
Submit(s, f) ==
    /\ Unused(s)
    /\ queue' = Append(queue, [slot |-> s, frame |-> f, tries |-> 0, answered |-> FALSE])
    /\ line' = line

Limit(f) == IF f.kind = "ntf" THEN MaxTries ELSE 1

\* The entry in place i is transmitted; the first time, only after all before it.
Transmit(i) ==
    LET e == queue[i] IN
    /\ ~e.answered /\ e.tries < Limit(e.frame)
    /\ e.tries = 0 => \A j \in 1 .. i - 1 : queue[j].tries > 0
    /\ line' = Append(line, [slot |-> e.slot, frame |-> e.frame])
    /\ queue' = IF e.frame.kind = "reply"
                THEN RemoveAt(queue, i)
                ELSE [queue EXCEPT ![i].tries = e.tries + 1]

\* The answer to a notification that was transmitted is seen.
SeeAnswer(i) ==
    /\ queue[i].frame.kind = "ntf" /\ queue[i].tries > 0
    /\ queue' = [queue EXCEPT ![i].answered = TRUE]
    /\ line' = line

\* A notification leaves when it is answered, or was tried often enough.
Dismiss(i) ==
    /\ queue[i].frame.kind = "ntf"
    /\ queue[i].answered \/ queue[i].tries = MaxTries
    /\ queue' = RemoveAt(queue, i)
    /\ line' = line

\* The oldest transmission ends: the frame is on the line, or lost.
Finish ==
    /\ line # <<>>
    /\ line' = Tail(line) /\ queue' = queue

Next ==
    \/ \E s \in Slots, f \in Frames : Submit(s, f)
    \/ \E i \in DOMAIN queue : Transmit(i) \/ SeeAnswer(i) \/ Dismiss(i)
    \/ Finish

Spec == Init /\ [][Next]_<<queue, line>>
=============================================================================
