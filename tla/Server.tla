------------------------------- MODULE Server -------------------------------
(***************************************************************************)
(* The web service as two threads see it: main, which boots the program    *)
(* (sys_context_init and the other *_context_init calls) and then asks for *)
(* the time once a minute (get_time_Url), and uart_recv_tsk, which posts   *)
(* the peer's records (post_record_Url, up to three tries).  They share    *)
(* net_state[3].err, the state of the server that the peer can query.      *)
(* The server is the environment: any request may be lost, answered late,  *)
(* or answered with a body the code does not expect.  get_time_parse sets  *)
(* clock, zone and time_valid one by one, and time_sync_rsp reads them one *)
(* by one in uart_recv_tsk.                                                *)
(***************************************************************************)
EXTENDS Integers, SequencesExt

CONSTANTS
    TimeBodies,    \* answers to get_time: a subset of AllTimeBodies
    PostBodies     \* answers to a record: a subset of AllPostBodies

\* "full"; "no_zone": errno 0 and a time only; "zone_type": its zone is no
\* string; "errno": errno is not 0; "garbage": no JSON, or no errno or time.
AllTimeBodies == {"full", "no_zone", "zone_type", "errno", "garbage"}
\* "number": errno is a number; "not_number"; "garbage"; "empty": no body.
AllPostBodies == {"number", "not_number", "garbage", "empty"}

ASSUME BodiesAssumption ==
    TimeBodies \subseteq AllTimeBodies /\ PostBodies \subseteq AllPostBodies

VARIABLES
    mainPc, mainOk,          \* main: where it is; op_code = 0
    contexts,                \* the *_context_init calls that have returned
    poweron,                 \* system_info.poweron
    time,                    \* is the clock set; system_info.timezone, time_valid
    heart_err_time,
    server_err,              \* net_state[3].err
    recvPc, postOk, try,     \* uart_recv_tsk in post_record_Url
    results,                 \* what http_up_data_ntf was called with in this upload
    stored,                  \* the server has the record
    answer,                  \* the answer of time_sync_rsp
    fails,                   \* history: requests for the time that failed since
                             \* any request succeeded
    last                     \* history: how the last request ended since NetStateInit

mainVars == <<mainPc, mainOk, contexts, poweron>>
postVars == <<postOk, try, results, stored>>
recvVars == <<recvPc, postVars, answer>>
history == <<fails, last>>
vars == <<mainVars, time, heart_err_time, server_err, recvVars, history>>

NoZone == 0
Zone == 16    \* of the server, in half hours: it does not move

AllContexts == {"sys", "uart", "hid", "net", "udisk"}
Failed == 2      \* the argument of http_up_data_ntf after three failures
Accepted == 0    \* any errno of the server
Tries == 3
HeartLimit == 3
Booted == "sys" \in contexts

\* What an answer says; "late" for a clock that was set after it had been read.
NoAnswer == [clock |-> "unset", valid |-> 0, high |-> 0, low |-> 0]

Init ==
    /\ mainPc = "request" /\ mainOk = FALSE
    /\ contexts = {} /\ poweron = 1
    /\ time = [set |-> FALSE, timezone |-> NoZone, valid |-> 0]
    /\ heart_err_time = 0 /\ server_err = 0
    /\ recvPc = "down" /\ postOk = FALSE /\ try = 0
    /\ results = <<>> /\ stored = FALSE
    /\ answer = NoAnswer
    /\ fails = 0 /\ last = "none"

SyncSteps == {"sync_valid", "sync_high", "sync_low"}

-----------------------------------------------------------------------------
(* get_time_Url, called by main.                                             *)

\* curl_easy_perform: the callback gets a body, or there is no answer in 3 s, or
\* one without a body.
TimeRequest ==
    /\ mainPc = "request"
    /\ \/ mainPc' = "parse" /\ mainOk' = FALSE
       \/ mainPc' = "judge" /\ mainOk' \in BOOLEAN
    /\ UNCHANGED <<contexts, poweron, time, heart_err_time, server_err, recvVars, history>>

\* TimeParse that calls the time valid as soon as the clock is set.
TimeParseValid(body) ==
    /\ mainPc = "parse"
    /\ IF body \in {"full", "no_zone", "zone_type"}
       THEN /\ time' = [time EXCEPT !.set = TRUE, !.valid = 1]
            /\ answer' = IF recvPc \in SyncSteps /\ answer.clock = "unset"
                         THEN [answer EXCEPT !.clock = "late"] ELSE answer
       ELSE UNCHANGED <<time, answer>>
    /\ IF body = "full"
       THEN mainPc' = "timezone" /\ mainOk' = mainOk
       ELSE /\ mainPc' = "judge"
            /\ mainOk' \in IF body \in {"no_zone", "garbage"} THEN {FALSE} ELSE BOOLEAN
    /\ UNCHANGED <<contexts, poweron, heart_err_time, server_err, recvPc, postVars, history>>

\* get_time_parse, up to settimeofday.  Returning 0 makes curl fail, though the clock
\* may have been set; a transfer may also fail after a good body.
TimeParse(body) ==
    /\ mainPc = "parse"
    /\ IF body \in {"full", "no_zone", "zone_type"}
       THEN /\ time' = [time EXCEPT !.set = TRUE]
            /\ answer' = IF recvPc \in SyncSteps /\ answer.clock = "unset"
                         THEN [answer EXCEPT !.clock = "late"] ELSE answer
       ELSE UNCHANGED <<time, answer>>
    /\ IF body = "full"
       THEN mainPc' = "timezone" /\ mainOk' = mainOk
       ELSE /\ mainPc' = "judge"
            /\ mainOk' \in IF body \in {"no_zone", "garbage"} THEN {FALSE} ELSE BOOLEAN
    /\ UNCHANGED <<contexts, poweron, heart_err_time, server_err, recvPc, postVars, history>>

TimeZone ==
    /\ mainPc = "timezone" /\ mainPc' = "valid"
    /\ time' = [time EXCEPT !.timezone = Zone]
    /\ UNCHANGED <<mainOk, contexts, poweron, heart_err_time, server_err, recvVars, history>>

TimeValid ==
    /\ mainPc = "valid" /\ mainPc' = "judge" /\ mainOk' \in BOOLEAN
    /\ time' = [time EXCEPT !.valid = 1]
    /\ UNCHANGED <<contexts, poweron, heart_err_time, server_err, recvVars, history>>

AfterTime == IF Booted THEN "sleep" ELSE "poweron"

\* TimeJudge off by one.
TimeJudgeLate ==
    /\ mainPc = "judge" /\ mainPc' = AfterTime
    /\ IF mainOk
       THEN /\ heart_err_time' = 0 /\ server_err' = 0 /\ fails' = 0 /\ last' = "ok"
       ELSE /\ heart_err_time' = (heart_err_time + 1) % (HeartLimit + 1)
            /\ server_err' = IF heart_err_time + 1 > HeartLimit THEN 1 ELSE server_err
            /\ fails' = (IF fails < HeartLimit THEN fails + 1 ELSE fails) /\ last' = "failed"
    /\ UNCHANGED <<mainOk, contexts, poweron, time, recvVars>>

\* The third failure in a row puts the server off line.
TimeJudge ==
    /\ mainPc = "judge" /\ mainPc' = AfterTime
    /\ IF mainOk
       THEN /\ heart_err_time' = 0 /\ server_err' = 0 /\ fails' = 0 /\ last' = "ok"
       ELSE /\ heart_err_time' = (heart_err_time + 1) % HeartLimit
            /\ server_err' = IF heart_err_time + 1 = HeartLimit THEN 1 ELSE server_err
            /\ fails' = (IF fails < HeartLimit THEN fails + 1 ELSE fails) /\ last' = "failed"
    /\ UNCHANGED <<mainOk, contexts, poweron, time, recvVars>>

-----------------------------------------------------------------------------
(* main and sys_context_init.                                                *)

PoweronDone ==
    /\ mainPc = "poweron" /\ mainPc' = "net_state"
    /\ poweron' = 0
    /\ UNCHANGED <<mainOk, contexts, time, heart_err_time, server_err, recvVars, history>>

\* net_state is cleared after the first get_time_Url, whose result is lost.
NetStateInit ==
    /\ mainPc = "net_state" /\ mainPc' = "uart"
    /\ server_err' = 1 /\ last' = "none"
    /\ contexts' = contexts \cup {"sys"}
    /\ UNCHANGED <<mainOk, poweron, time, heart_err_time, recvVars, fails>>

\* uart_context_init starts uart_recv_tsk.
ContextInit(c, next) ==
    /\ mainPc = c /\ mainPc' = next
    /\ contexts' = contexts \cup {c}
    /\ recvPc' = IF c = "uart" THEN "idle" ELSE recvPc
    /\ UNCHANGED <<mainOk, poweron, time, heart_err_time, server_err,
                   postVars, answer, history>>

\* 60 seconds later.
Minute ==
    /\ mainPc = "sleep" /\ mainPc' = "request"
    /\ UNCHANGED <<mainOk, contexts, poweron, time, heart_err_time, server_err, recvVars, history>>

Main ==
    \/ TimeRequest \/ TimeJudge
    \/ \E body \in TimeBodies : TimeParse(body)
    \/ TimeZone \/ TimeValid
    \/ PoweronDone \/ NetStateInit
    \/ ContextInit("uart", "hid") \/ ContextInit("hid", "net")
    \/ ContextInit("net", "udisk") \/ ContextInit("udisk", "sleep")
    \/ Minute

-----------------------------------------------------------------------------
(* http_up_data_rsp and post_record_Url, called by uart_recv_tsk.            *)

UploadBegin ==
    /\ recvPc = "idle" /\ recvPc' = "post"
    /\ try' = 1 /\ results' = <<>> /\ stored' = FALSE /\ postOk' = FALSE
    /\ UNCHANGED <<mainVars, time, heart_err_time, server_err, answer, history>>

\* curl_easy_perform: the request or its answer is lost, or the record is stored
\* and there is an answer; one without a body does not reach the callback.
PostRequest ==
    /\ recvPc = "post"
    /\ \/ recvPc' = "judge" /\ postOk' = FALSE /\ stored' \in {stored, TRUE}
       \/ recvPc' = "parse" /\ postOk' = FALSE /\ stored' = TRUE
       \/ "empty" \in PostBodies /\ recvPc' = "judge" /\ postOk' = TRUE /\ stored' = TRUE
    /\ UNCHANGED <<mainVars, time, heart_err_time, server_err, try, results, answer, history>>

\* post_record_parse.
PostParse(body) ==
    /\ recvPc = "parse" /\ recvPc' = "judge"
    /\ results' = IF body = "number" THEN Append(results, Accepted) ELSE results
    /\ postOk' \in IF body = "garbage" THEN {FALSE} ELSE BOOLEAN
    /\ UNCHANGED <<mainVars, time, heart_err_time, server_err, try, stored, answer, history>>

\* After a failure there is another try; the third one puts the server off line
\* even if it succeeds, until PostResult.
PostJudge ==
    /\ recvPc = "judge"
    /\ IF try < Tries /\ ~postOk
       THEN try' = try + 1 /\ recvPc' = "post" /\ server_err' = server_err
       ELSE /\ try' = try /\ recvPc' = "result"
            /\ server_err' = IF try = Tries THEN 1 ELSE server_err
    /\ UNCHANGED <<mainVars, time, heart_err_time, postOk, results, stored, answer, history>>

\* PostResult that does not report the failure.
PostResultSilent ==
    /\ recvPc = "result" /\ recvPc' = "idle"
    /\ IF postOk
       THEN server_err' = 0 /\ fails' = 0 /\ last' = "ok"
       ELSE UNCHANGED <<server_err, fails>> /\ last' = "failed"
    /\ UNCHANGED <<mainVars, time, heart_err_time, postOk, try, results, stored, answer>>

\* PostResult that leaves the server off line after a third try that succeeded.
PostResultStays ==
    /\ recvPc = "result" /\ recvPc' = "idle"
    /\ IF postOk
       THEN fails' = 0 /\ last' = "ok" /\ results' = results
       ELSE fails' = fails /\ last' = "failed" /\ results' = Append(results, Failed)
    /\ UNCHANGED <<mainVars, time, heart_err_time, server_err, postOk, try, stored, answer>>

PostResult ==
    /\ recvPc = "result" /\ recvPc' = "idle"
    /\ IF postOk
       THEN server_err' = 0 /\ fails' = 0 /\ last' = "ok" /\ results' = results
       ELSE /\ UNCHANGED <<server_err, fails>> /\ last' = "failed"
            /\ results' = Append(results, Failed)
    /\ UNCHANGED <<mainVars, time, heart_err_time, postOk, try, stored, answer>>

-----------------------------------------------------------------------------
(* time_sync_rsp, called by uart_recv_tsk.                                   *)

\* gettimeofday, ...
SyncClock ==
    /\ recvPc = "idle" /\ recvPc' = "sync_valid"
    /\ answer' = [NoAnswer EXCEPT !.clock = IF time.set THEN "set" ELSE "unset"]
    /\ UNCHANGED <<mainVars, time, heart_err_time, server_err, postVars, history>>

\* ... time_valid, and the two bytes of the zone.
SyncByte(pc, next, field, value) ==
    /\ recvPc = pc /\ recvPc' = next
    /\ answer' = [answer EXCEPT ![field] = value]
    /\ UNCHANGED <<mainVars, time, heart_err_time, server_err, postVars, history>>

TimeSync ==
    \/ SyncClock
    \/ SyncByte("sync_valid", "sync_high", "valid", time.valid)
    \/ SyncByte("sync_high", "sync_low", "high", time.timezone \div 256)
    \/ SyncByte("sync_low", "idle", "low", time.timezone % 256)

Recv ==
    \/ TimeSync
    \/ UploadBegin \/ PostRequest
    \/ \E body \in PostBodies \ {"empty"} : PostParse(body)
    \/ PostJudge \/ PostResult

Next == Main \/ Recv

\* curl gives up after 3 s (CURLOPT_TIMEOUT): neither thread waits for ever once
\* it has begun.  Uploads are the peer's affair.
Spec == Init /\ [][Next]_vars
FairSpec == Spec /\ WF_vars(Main) /\ WF_vars(Recv /\ recvPc # "idle")

-----------------------------------------------------------------------------
(* Properties.                                                               *)

TypeOK ==
    /\ mainPc \in {"request", "parse", "timezone", "valid", "judge", "poweron", "net_state", "sleep"} \cup AllContexts
    /\ mainOk \in BOOLEAN /\ contexts \subseteq AllContexts
    /\ poweron \in {0, 1} /\ server_err \in {0, 1}
    /\ heart_err_time \in 0 .. HeartLimit - 1
    /\ time \in [set : BOOLEAN, timezone : {NoZone, Zone}, valid : {0, 1}]
    /\ recvPc \in {"down", "idle", "post", "parse", "judge", "result"} \cup SyncSteps
    /\ answer \in [clock : {"unset", "late", "set"}, valid : {0, 1}, high : {0}, low : {NoZone, Zone}]
    /\ postOk \in BOOLEAN /\ try \in 0 .. Tries
    /\ results \in Seq({Accepted, Failed}) /\ Len(results) <= Tries + 1
    /\ stored \in BOOLEAN
    /\ fails \in 0 .. HeartLimit /\ last \in {"none", "ok", "failed"}

\* The peer is never told that the server is on line when the last three
\* requests for the time have failed and no upload has succeeded since, however
\* uploads and requests overlap.
OnlineMeansContact == Booted /\ server_err = 0 => fails < HeartLimit

\* Nor that it is off line when the last request, for the time or of an upload, has
\* succeeded, but for the moment between a third try and its result.  Right after the
\* boot it is off line whatever the server has answered: NetStateInit forgets it.
OfflineMeansFailure ==
    Booted /\ server_err = 1 => last # "ok" \/ (recvPc = "result" /\ try = Tries)

\* What is reported of a finished upload is true: a failure is reported once, as
\* the last result, when every try failed; a record that never reached the
\* server is reported as failed; and no other result is sent unless the server
\* has the record.
ResultsHonest ==
    /\ recvPc = "idle" /\ try > 0 =>
          /\ ~stored => results = <<Failed>>
          /\ postOk <=> Failed \notin ToSet(results)
          /\ Failed \in ToSet(results) => try = Tries
    /\ \A n \in DOMAIN results : results[n] = Failed => n = Len(results)
    /\ Accepted \in ToSet(results) => stored

\* An answer of time_sync_rsp that says that its time is valid has the server's zone,
\* and a clock that was set, unless it was set between the reading of the clock and
\* that of time_valid.
SyncHonest ==
    recvPc = "idle" /\ answer.valid = 1 =>
       256 * answer.high + answer.low = Zone /\ answer.clock # "unset"

\* Every upload ends, with a result for the peer unless the transfer succeeds: then
\* the result is the affair of the callback, which has none if the body has no
\* numeric errno.
UploadAnswered == recvPc = "post" ~> recvPc = "idle" /\ (results # <<>> \/ postOk)
=============================================================================
