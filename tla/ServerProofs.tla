---------------------------- MODULE ServerProofs ----------------------------
(***************************************************************************)
(* What the peer is told is true, for every server and every overlap of    *)
(* main's requests with the uploads and the time answers of uart_recv_tsk: *)
(* the state of the server, the results of an upload, and the time.        *)
(***************************************************************************)
EXTENDS Server, QueueLemmas, TLAPS

UploadSteps == {"post", "parse", "judge", "result"}

-----------------------------------------------------------------------------
(* The inductive invariant, in four parts.                                   *)

\* uart_recv_tsk runs only after uart_context_init, which comes after
\* sys_context_init.
Boot ==
    /\ recvPc # "down" => Booted /\ mainPc # "uart"
    /\ mainPc \in {"poweron", "net_state"} => ~Booted
    /\ mainPc = "uart" => Booted

\* While the server is on line, heart_err_time counts at least the failures
\* since the last success: uploads reset only the failures.
Heart == Booted /\ server_err = 0 => fails <= heart_err_time

\* An upload that is under way has sent at most one result a try, and no failure ...
Underway ==
    recvPc \in UploadSteps =>
       /\ try \in 1 .. Tries
       /\ Len(results) <= (IF recvPc \in {"post", "parse"} THEN try - 1 ELSE try)
       /\ Failed \notin ToSet(results)
       /\ ~stored => results = <<>> /\ ~postOk
       /\ recvPc = "post" => ~postOk
       /\ recvPc = "parse" => ~postOk /\ stored
       /\ recvPc = "result" => postOk \/ try = Tries

\* ... and one that is over stays what it was when it ended.
Over ==
    recvPc \notin UploadSteps =>
       /\ try = 0 => results = <<>>
       /\ try > 0 => /\ ~stored => results = <<Failed>>
                     /\ postOk <=> Failed \notin ToSet(results)
                     /\ Failed \in ToSet(results) => try = Tries

Upload == Underway /\ Over /\ ResultsHonest

\* The clock is set before the zone, and the zone before time_valid ...
Clock ==
    /\ time.valid = 1 => time.set /\ time.timezone = Zone
    /\ mainPc \in {"timezone", "valid"} => time.set
    /\ mainPc = "valid" => time.timezone = Zone

\* ... and the answer reads time_valid before the zone.
Answer ==
    /\ recvPc \in SyncSteps /\ time.set => answer.clock # "unset"
    /\ answer.valid = 1 =>
          time.valid = 1 /\ answer.clock # "unset" /\ recvPc # "sync_valid"
    /\ answer.valid = 1 /\ recvPc \notin SyncSteps => answer.low = Zone

Inv == TypeOK /\ Boot /\ Heart /\ Upload /\ Clock /\ Answer

-----------------------------------------------------------------------------
(* Type correctness.                                                         *)

Times == [set : BOOLEAN, timezone : {NoZone, Zone}, valid : {0, 1}]
Answers == [clock : {"unset", "late", "set"}, valid : {0, 1}, high : {0}, low : {NoZone, Zone}]

\* The program before the first request.
LEMMA InitInv == Init => Inv
<1> SUFFICES ASSUME Init PROVE Inv
  OBVIOUS
<1>1. TypeOK
  <2>1. time \in Times /\ answer \in Answers
    BY DEF Init, NoAnswer, NoZone, Times, Answers
  <2>2. heart_err_time \in 0 .. HeartLimit - 1 /\ try \in 0 .. Tries /\ fails \in 0 .. HeartLimit
        /\ last \in {"none", "ok", "failed"}
    BY DEF Init, HeartLimit, Tries
  <2>3. results \in Seq({Accepted, Failed}) /\ Len(results) <= Tries + 1
    BY DEF Init, Tries
  <2>4. mainOk \in BOOLEAN /\ postOk \in BOOLEAN /\ stored \in BOOLEAN
    BY Zenon DEF Init
  <2>5. contexts \subseteq AllContexts /\ poweron \in {0, 1} /\ server_err \in {0, 1}
    BY DEF Init
  <2>6. mainPc = "request" /\ recvPc = "down"
    BY DEF Init
  <2> QED
    BY <2>1, <2>2, <2>3, <2>4, <2>5, <2>6 DEF TypeOK, Times, Answers
<1>2. ToSet(<<>>) = {}
  BY DEF ToSet
<1>3. Boot /\ Heart /\ Upload /\ Clock /\ Answer
  BY <1>2 DEF Init, Boot, Heart, Upload, Underway, Over, ResultsHonest, Clock, Answer,
              Booted, NoAnswer, UploadSteps, SyncSteps
<1> QED
  BY <1>1, <1>3 DEF Inv

\* The two bytes of a zone.
LEMMA ZoneBytes ==
    /\ \A z \in {NoZone, Zone} : z \div 256 = 0 /\ z % 256 = z
    /\ 256 * 0 + Zone = Zone /\ Zone # NoZone
  BY DEF NoZone, Zone

\* Every step of main keeps the types of what it writes.
LEMMA MainType == TypeOK /\ Main => TypeOK'
<1> SUFFICES ASSUME TypeOK, Main PROVE TypeOK'
  OBVIOUS
<1> USE DEF TypeOK, recvVars, postVars, history
<1>1. CASE TimeRequest
  <2>1. mainOk' \in BOOLEAN
    BY <1>1, Zenon DEF TimeRequest
  <2>2. mainPc' = "parse" \/ mainPc' = "judge"
    BY <1>1 DEF TimeRequest
  <2> QED
    BY <1>1, <2>1, <2>2 DEF TimeRequest
<1>2. CASE TimeJudge
  <2>1. /\ heart_err_time' \in 0 .. HeartLimit - 1 /\ server_err' \in {0, 1}
        /\ fails' \in 0 .. HeartLimit /\ last' \in {"none", "ok", "failed"}
    BY <1>2 DEF TimeJudge, HeartLimit
  <2> QED
    BY <1>2, <2>1 DEF TimeJudge, AfterTime
<1>3. ASSUME NEW body \in TimeBodies, TimeParse(body) PROVE TypeOK'
  <2>1. /\ [time EXCEPT !.set = TRUE] \in Times
        /\ [answer EXCEPT !.clock = "late"] \in Answers
    BY DEF Times, Answers
  <2>2. time' \in Times /\ answer' \in Answers
    BY <1>3, <2>1 DEF TimeParse, Times, Answers
  <2> QED
    BY <1>3, <2>2 DEF TimeParse, Times, Answers
<1>4. CASE TimeZone
  <2>1. [time EXCEPT !.timezone = Zone] \in Times
    BY DEF Times
  <2> QED
    BY <1>4, <2>1 DEF TimeZone, Times
<1>5. CASE TimeValid
  <2>1. [time EXCEPT !.valid = 1] \in Times
    BY DEF Times
  <2> QED
    BY <1>5, <2>1 DEF TimeValid, Times
<1>6. CASE PoweronDone \/ NetStateInit
  BY <1>6 DEF PoweronDone, NetStateInit, AllContexts
<1>7. ASSUME NEW c \in AllContexts, NEW next \in AllContexts \cup {"sleep"}, ContextInit(c, next)
      PROVE  TypeOK'
  BY <1>7 DEF ContextInit
<1>8. CASE Minute
  BY <1>8 DEF Minute
<1> QED
  BY <1>1, <1>2, <1>3, <1>4, <1>5, <1>6, <1>7, <1>8 DEF Main, AllContexts

\* And so does every step of uart_recv_tsk, which sends at most one result a try
\* and one for the failure.
LEMMA RecvType == TypeOK /\ Underway /\ Recv => TypeOK'
<1> SUFFICES ASSUME TypeOK, Underway, Recv PROVE TypeOK'
  OBVIOUS
<1> USE DEF TypeOK, mainVars, postVars, history
<1>1. CASE SyncClock
  <2>1. answer' \in Answers
    BY <1>1 DEF SyncClock, NoAnswer, Answers, NoZone
  <2> QED
    BY <1>1, <2>1 DEF SyncClock, Answers, SyncSteps
<1>2. ASSUME NEW v \in {0, 1}, SyncByte("sync_valid", "sync_high", "valid", v)
      PROVE  TypeOK'
  <2>1. [answer EXCEPT !.valid = v] \in Answers
    BY DEF Answers
  <2> QED
    BY <1>2, <2>1 DEF SyncByte, Answers, SyncSteps
<1>3. CASE SyncByte("sync_high", "sync_low", "high", time.timezone \div 256)
  <2>1. [answer EXCEPT !.high = time.timezone \div 256] \in Answers
    BY ZoneBytes DEF Answers
  <2> QED
    BY <1>3, <2>1 DEF SyncByte, Answers, SyncSteps
<1>4. CASE SyncByte("sync_low", "idle", "low", time.timezone % 256)
  <2>1. [answer EXCEPT !.low = time.timezone % 256] \in Answers
    BY ZoneBytes DEF Answers
  <2> QED
    BY <1>4, <2>1 DEF SyncByte, Answers
<1>5. CASE UploadBegin
  <2>1. results' \in Seq({Accepted, Failed}) /\ Len(results') <= Tries + 1
        /\ try' \in 0 .. Tries
    BY <1>5 DEF UploadBegin, Tries
  <2>2. stored' \in BOOLEAN /\ postOk' \in BOOLEAN
    BY <1>5, Zenon DEF UploadBegin
  <2> QED
    BY <1>5, <2>1, <2>2 DEF UploadBegin
<1>6. CASE PostRequest
  <2>1. stored' \in BOOLEAN /\ postOk' \in BOOLEAN
    BY <1>6, Zenon DEF PostRequest
  <2>2. recvPc' = "parse" \/ recvPc' = "judge"
    BY <1>6 DEF PostRequest
  <2> QED
    BY <1>6, <2>1, <2>2 DEF PostRequest
<1>7. ASSUME NEW body, PostParse(body) PROVE TypeOK'
  <2>1. Len(results) <= Tries /\ Len(results) \in Nat
    BY <1>7 DEF PostParse, Underway, UploadSteps, Tries
  <2>2. results' \in Seq({Accepted, Failed}) /\ Len(results') <= Tries + 1
    BY <1>7, <2>1 DEF PostParse, Tries
  <2>3. postOk' \in BOOLEAN
    BY <1>7, Zenon DEF PostParse
  <2> QED
    BY <1>7, <2>2, <2>3 DEF PostParse
<1>8. CASE PostJudge
  <2>1. try' \in 0 .. Tries /\ server_err' \in {0, 1}
    BY <1>8 DEF PostJudge, Tries
  <2> QED
    BY <1>8, <2>1 DEF PostJudge
<1>9. CASE PostResult
  <2>1. Len(results) <= Tries /\ Len(results) \in Nat
    BY <1>9 DEF PostResult, Underway, UploadSteps, Tries
  <2>2. results' \in Seq({Accepted, Failed}) /\ Len(results') <= Tries + 1
    <3>1. results \in Seq({Accepted, Failed}) /\ Failed \in {Accepted, Failed} /\ Tries \in Nat
      BY DEF TypeOK, Tries
    <3>2. /\ Append(results, Failed) \in Seq({Accepted, Failed})
          /\ Len(Append(results, Failed)) = Len(results) + 1
      BY ONLY <3>1
    <3>3. results' = results \/ results' = Append(results, Failed)
      BY <1>9 DEF PostResult
    <3> QED BY ONLY <2>1, <3>1, <3>2, <3>3
  <2>3. server_err' \in {0, 1} /\ fails' \in 0 .. HeartLimit /\ last' \in {"none", "ok", "failed"}
    BY <1>9 DEF PostResult, HeartLimit
  <2> QED
    BY <1>9, <2>2, <2>3 DEF PostResult
<1> QED
  BY <1>1, <1>2, <1>3, <1>4, <1>5, <1>6, <1>7, <1>8, <1>9 DEF Recv, TimeSync

\* Types, by whichever of the two threads.
LEMMA TypeStep == TypeOK /\ Underway /\ [Next]_vars => TypeOK'
<1>1. TypeOK /\ UNCHANGED vars => TypeOK'
  BY DEF TypeOK, vars, mainVars, postVars, recvVars, history
<1> QED
  BY <1>1, MainType, RecvType DEF Next

-----------------------------------------------------------------------------
(* The order of the start, and the counter of failures.                      *)

\* The order of the *_context_init calls.
LEMMA BootStep == TypeOK /\ Boot /\ [Next]_vars => Boot'
<1> SUFFICES ASSUME TypeOK, Boot, [Next]_vars PROVE Boot'
  OBVIOUS
<1> USE DEF Boot, Booted, AllContexts
<1>1. CASE TimeRequest
  BY <1>1 DEF TimeRequest, recvVars
<1>2. CASE TimeJudge
  BY <1>2 DEF TimeJudge, AfterTime, recvVars
<1>3. ASSUME NEW body \in TimeBodies, TimeParse(body) PROVE Boot'
  BY <1>3 DEF TimeParse
<1>4. CASE TimeZone \/ TimeValid \/ Minute
  BY <1>4 DEF TimeZone, TimeValid, Minute, recvVars
<1>5. CASE PoweronDone \/ NetStateInit
  BY <1>5 DEF PoweronDone, NetStateInit, recvVars
<1>6. ASSUME NEW c, NEW next \in {"hid", "net", "udisk", "sleep"}, ContextInit(c, next)
      PROVE  Boot'
  <2>1. CASE c = "uart"
    BY <1>6, <2>1 DEF ContextInit
  <2>2. CASE c # "uart"
    BY <1>6, <2>2 DEF ContextInit
  <2> QED
    BY <2>1, <2>2
<1>7. CASE Recv
  <2>1. recvPc # "down" /\ UNCHANGED mainVars
    BY <1>7 DEF Recv, TimeSync, SyncClock, SyncByte, UploadBegin, PostRequest, PostParse,
                PostJudge, PostResult
  <2> QED
    BY <2>1 DEF mainVars
<1>8. CASE UNCHANGED vars
  BY <1>8 DEF vars, mainVars, recvVars
<1> QED
  BY <1>1, <1>2, <1>3, <1>4, <1>5, <1>6, <1>7, <1>8 DEF Next, Main

\* Only a failure of the request for the time raises fails, and it raises heart_err_time too.
LEMMA HeartStep == TypeOK /\ Heart /\ [Next]_vars => Heart'
<1> SUFFICES ASSUME TypeOK, Heart, [Next]_vars PROVE Heart'
  OBVIOUS
<1>1. heart_err_time \in 0 .. 2 /\ fails \in 0 .. 3 /\ server_err \in {0, 1}
  BY DEF TypeOK, HeartLimit
<1> USE DEF Heart, Booted, history
<1>2. CASE TimeJudge
  <2>1. CASE mainOk
    BY <1>2, <2>1 DEF TimeJudge
  <2>2. CASE ~mainOk
    <3>1. /\ heart_err_time' = (heart_err_time + 1) % 3
          /\ server_err' = IF heart_err_time + 1 = 3 THEN 1 ELSE server_err
          /\ fails' = IF fails < 3 THEN fails + 1 ELSE fails
          /\ contexts' = contexts
      BY <1>2, <2>2 DEF TimeJudge, HeartLimit
    <3>2. CASE heart_err_time = 2
      BY <1>1, <3>1, <3>2
    <3>3. CASE heart_err_time < 2
      BY <1>1, <3>1, <3>3
    <3> QED
      BY <1>1, <3>2, <3>3
  <2> QED
    BY <2>1, <2>2
<1>3. CASE PostResult
  BY <1>1, <1>3 DEF PostResult, mainVars
<1>4. CASE PostJudge
  BY <1>4 DEF PostJudge, mainVars
<1>5. CASE NetStateInit
  BY <1>5 DEF NetStateInit
<1>6. ASSUME NEW c \in AllContexts \ {"sys"}, NEW next, ContextInit(c, next)
      PROVE  Heart'
  BY <1>6 DEF ContextInit
<1>7. ASSUME UNCHANGED <<contexts, heart_err_time, server_err, fails>> PROVE Heart'
  BY <1>7
<1>8. ASSUME NEW body \in TimeBodies, TimeParse(body) PROVE Heart'
  BY <1>7, <1>8 DEF TimeParse
<1>9. CASE TimeRequest \/ TimeZone \/ TimeValid \/ PoweronDone \/ Minute
  BY <1>7, <1>9 DEF TimeRequest, TimeZone, TimeValid, PoweronDone, Minute
<1>10. CASE TimeSync \/ UploadBegin \/ PostRequest
  BY <1>7, <1>10 DEF TimeSync, SyncClock, SyncByte, UploadBegin, PostRequest, mainVars
<1>11. ASSUME NEW body, PostParse(body) PROVE Heart'
  BY <1>7, <1>11 DEF PostParse, mainVars
<1>12. CASE UNCHANGED vars
  BY <1>7, <1>12 DEF vars, mainVars
<1> QED
  BY <1>2, <1>3, <1>4, <1>5, <1>6, <1>8, <1>9, <1>10, <1>11, <1>12
     DEF Next, Main, Recv, AllContexts

\* What puts the server off line is a failure, or a third try that is not judged yet;
\* a success of either thread puts it on line again.
LEMMA OfflineStep == TypeOK /\ Boot /\ OfflineMeansFailure /\ [Next]_vars => OfflineMeansFailure'
<1> SUFFICES ASSUME TypeOK, Boot, OfflineMeansFailure, [Next]_vars PROVE OfflineMeansFailure'
  OBVIOUS
<1> USE DEF OfflineMeansFailure, Booted, history
<1>1. server_err \in {0, 1}
  BY DEF TypeOK
<1>2. CASE TimeJudge
  BY <1>2 DEF TimeJudge
<1>3. CASE PostResult
  BY <1>3 DEF PostResult
<1>4. CASE PostJudge
  BY <1>4 DEF PostJudge, mainVars
<1>5. CASE NetStateInit
  BY <1>5 DEF NetStateInit
<1>6. ASSUME NEW c \in AllContexts \ {"sys"}, NEW next, ContextInit(c, next)
      PROVE  OfflineMeansFailure'
  <2>1. CASE c = "uart"
    <3>1. recvPc = "down"
      BY <1>6, <2>1 DEF ContextInit, Boot
    <3> QED
      BY <1>6, <2>1, <3>1 DEF ContextInit
  <2>2. CASE c # "uart"
    BY <1>6, <2>2 DEF ContextInit, postVars
  <2> QED
    BY <2>1, <2>2
<1>7. ASSUME UNCHANGED <<contexts, server_err, last>>, recvPc = "result" => UNCHANGED <<recvPc, try>>
      PROVE  OfflineMeansFailure'
  BY <1>7
<1>8. ASSUME NEW body \in TimeBodies, TimeParse(body) PROVE OfflineMeansFailure'
  BY <1>7, <1>8 DEF TimeParse, postVars
<1>9. CASE TimeRequest \/ TimeZone \/ TimeValid \/ PoweronDone \/ Minute
  BY <1>7, <1>9 DEF TimeRequest, TimeZone, TimeValid, PoweronDone, Minute, recvVars, postVars
<1>10. CASE TimeSync \/ UploadBegin \/ PostRequest
  BY <1>7, <1>10 DEF TimeSync, SyncClock, SyncByte, UploadBegin, PostRequest, mainVars, postVars
<1>11. ASSUME NEW body, PostParse(body) PROVE OfflineMeansFailure'
  BY <1>7, <1>11 DEF PostParse, mainVars
<1>12. CASE UNCHANGED vars
  BY <1>7, <1>12 DEF vars, mainVars, recvVars, postVars
<1> QED
  BY <1>2, <1>3, <1>4, <1>5, <1>6, <1>8, <1>9, <1>10, <1>11, <1>12
     DEF Next, Main, Recv, AllContexts

-----------------------------------------------------------------------------
(* The results of an upload.                                                 *)

\* A result joins those that are there.
LEMMA Joins ==
    ASSUME NEW r \in {Accepted, Failed}, TypeOK
    PROVE  /\ ToSet(Append(results, r)) = ToSet(results) \cup {r}
           /\ Len(Append(results, r)) = Len(results) + 1
           /\ \A n \in 1 .. Len(results) : Append(results, r)[n] = results[n]
           /\ Append(results, r)[Len(results) + 1] = r
           /\ DOMAIN Append(results, r) = 1 .. Len(results) + 1
           /\ Len(results) \in Nat /\ DOMAIN results = 1 .. Len(results)
           /\ \A n \in 1 .. Len(results) : results[n] \in ToSet(results)
<1>1. results \in Seq({Accepted, Failed})
  BY DEF TypeOK
<1> QED
  BY <1>1, AppendSet, ToSetElements

\* Nothing is an element of no results.
LEMMA NoResults == ToSet(<<>>) = {} /\ DOMAIN <<>> = {} /\ Len(<<>>) = 0 /\ Accepted # Failed
  BY DEF ToSet, Accepted, Failed

\* The parts of an upload, one case per action: only PostResult sends a failure.
LEMMA UploadStep == TypeOK /\ Boot /\ Upload /\ [Next]_vars => Upload'
<1> SUFFICES ASSUME TypeOK, Boot, Upload, [Next]_vars PROVE Upload'
  OBVIOUS
<1>1. ASSUME UNCHANGED postVars, recvPc \notin UploadSteps, recvPc' \notin UploadSteps
      PROVE  Upload'
  <2>1. Underway'
    BY <1>1 DEF Underway
  <2>2. Over'
    BY <1>1 DEF Upload, Over, postVars
  <2>3. ResultsHonest'
    BY <1>1, <2>2 DEF Upload, ResultsHonest, Over, UploadSteps, postVars
  <2> QED
    BY <2>1, <2>2, <2>3 DEF Upload
<1>2. CASE UNCHANGED <<postVars, recvPc>>
  BY <1>2 DEF Upload, Underway, Over, ResultsHonest, postVars
<1>3. CASE Main
  <2>1. ASSUME NEW c, NEW next, ContextInit(c, next) PROVE Upload'
    <3>1. CASE c = "uart"
      <4>1. recvPc = "down" /\ recvPc' = "idle"
        BY <2>1, <3>1 DEF ContextInit, Boot
      <4> QED
        BY <1>1, <2>1, <4>1 DEF ContextInit, UploadSteps
    <3>2. CASE c # "uart"
      BY <1>2, <2>1, <3>2 DEF ContextInit
    <3> QED
      BY <3>1, <3>2
  <2>2. ASSUME NEW body \in TimeBodies, TimeParse(body) PROVE Upload'
    BY <1>2, <2>2 DEF TimeParse
  <2>3. CASE TimeRequest \/ TimeJudge \/ TimeZone \/ TimeValid
    BY <1>2, <2>3 DEF TimeRequest, TimeJudge, TimeZone, TimeValid, recvVars
  <2>4. CASE PoweronDone \/ NetStateInit \/ Minute
    BY <1>2, <2>4 DEF PoweronDone, NetStateInit, Minute, recvVars
  <2> QED
    BY <1>3, <2>1, <2>2, <2>3, <2>4 DEF Main
<1>4. CASE TimeSync
  BY <1>1, <1>4 DEF TimeSync, SyncClock, SyncByte, UploadSteps
<1>5. CASE UploadBegin
  BY <1>5, NoResults DEF UploadBegin, Upload, Underway, Over, ResultsHonest, UploadSteps, Tries
<1>6. CASE PostRequest
  <2>1. Underway'
    <3>1. try \in 1 .. Tries /\ Len(results) <= try - 1 /\ Failed \notin ToSet(results)
      BY <1>6 DEF PostRequest, Upload, Underway, UploadSteps
    <3>2. Len(results) <= try
      BY <3>1, Joins DEF Tries
    <3>3. ~stored => results = <<>>
      BY <1>6 DEF PostRequest, Upload, Underway, UploadSteps
    <3>4. UNCHANGED <<try, results>> /\ recvPc' \in {"parse", "judge"}
      BY <1>6 DEF PostRequest
    <3>5. /\ recvPc' = "parse" => ~postOk' /\ stored'
          /\ ~stored' => ~stored /\ ~postOk'
      <4>1. CASE recvPc' = "judge" /\ postOk' = FALSE /\ stored' \in {stored, TRUE}
        <5>1. stored' = stored \/ stored' = TRUE
          BY <4>1
        <5>2. recvPc' # "parse"
          BY <4>1
        <5>3. ~postOk'
          BY <4>1, Zenon
        <5>4. ~stored' => ~stored
          BY <5>1
        <5> QED
          BY <5>2, <5>3, <5>4
      <4>2. CASE stored' = TRUE /\ (recvPc' = "parse" => postOk' = FALSE)
        BY <4>2, Zenon
      <4> QED
        BY <1>6, <4>1, <4>2 DEF PostRequest
    <3> QED
      BY <3>1, <3>2, <3>3, <3>4, <3>5 DEF Underway
  <2>2. Over' /\ ResultsHonest'
    BY <1>6 DEF PostRequest, Upload, Over, ResultsHonest, UploadSteps
  <2> QED
    BY <2>1, <2>2 DEF Upload
<1>7. ASSUME NEW body, PostParse(body) PROVE Upload'
  <2>1. CASE body = "number"
    BY <1>7, <2>1, Joins, NoResults DEF PostParse, Upload, Underway, Over, ResultsHonest, UploadSteps
  <2>2. CASE body # "number"
    BY <1>7, <2>2, Joins DEF PostParse, Upload, Underway, Over, ResultsHonest, UploadSteps
  <2> QED
    BY <2>1, <2>2
<1>8. CASE PostJudge
  BY <1>8, Joins DEF PostJudge, Upload, Underway, Over, ResultsHonest, UploadSteps, Tries
<1>9. CASE PostResult
  <2>1. /\ try \in 1 .. Tries /\ Failed \notin ToSet(results)
        /\ ~stored => results = <<>> /\ ~postOk
        /\ postOk \/ try = Tries
    BY <1>9 DEF PostResult, Upload, Underway, UploadSteps
  <2>2. Accepted \in ToSet(results) => stored
    BY DEF Upload, ResultsHonest
  <2>3. UNCHANGED <<postOk, try, stored>> /\ recvPc' = "idle"
    BY <1>9 DEF PostResult
  <2>4. CASE postOk
    <3>1. results' = results
      BY <1>9, <2>4 DEF PostResult
    <3> QED
      BY <2>1, <2>2, <2>3, <2>4, <3>1, Joins
         DEF Upload, Underway, Over, ResultsHonest, UploadSteps, Tries
  <2>5. CASE ~postOk
    <3>1. results' = Append(results, Failed)
      BY <1>9, <2>5 DEF PostResult
    <3>2. ~stored => results' = <<Failed>>
      BY <2>1, <3>1
    <3>3. Failed \in ToSet(results') /\ (Accepted \in ToSet(results') => stored)
      BY <2>2, <3>1, Joins, NoResults
    <3>4. \A n \in DOMAIN results' : results'[n] = Failed => n = Len(results')
      BY <2>1, <3>1, Joins
    <3> QED
      BY <2>1, <2>3, <2>5, <3>2, <3>3, <3>4
         DEF Upload, Underway, Over, ResultsHonest, UploadSteps, Tries
  <2> QED
    BY <2>4, <2>5
<1> QED
  BY <1>2, <1>3, <1>4, <1>5, <1>6, <1>7, <1>8, <1>9 DEF Next, Recv, vars, recvVars

-----------------------------------------------------------------------------
(* The clock and the answers to the peer.                                    *)

\* get_time_parse sets clock, zone and time_valid in this order, and nothing unsets them.
LEMMA ClockStep == TypeOK /\ Clock /\ [Next]_vars => Clock'
<1> SUFFICES ASSUME TypeOK, Clock, [Next]_vars PROVE Clock'
  OBVIOUS
<1>1. time \in Times
  BY DEF TypeOK, Times
<1> USE DEF Clock
<1>2. ASSUME time' = time, mainPc' \notin {"timezone", "valid"} PROVE Clock'
  BY <1>2
<1>3. CASE TimeRequest
  BY <1>2, <1>3 DEF TimeRequest
<1>4. CASE TimeJudge
  BY <1>2, <1>4 DEF TimeJudge, AfterTime
<1>5. ASSUME NEW body \in TimeBodies, TimeParse(body) PROVE Clock'
  <2>1. CASE body \in {"full", "no_zone", "zone_type"}
    <3>1. time' = [time EXCEPT !.set = TRUE]
      BY <1>5, <2>1 DEF TimeParse
    <3>2. /\ time'.set = TRUE /\ time'.timezone = time.timezone
          /\ time'.valid = time.valid
      BY <1>1, <3>1 DEF Times
    <3>3. mainPc' # "valid"
      BY <1>5 DEF TimeParse
    <3> QED
      BY <3>2, <3>3
  <2>2. CASE body \notin {"full", "no_zone", "zone_type"}
    BY <1>2, <1>5, <2>2 DEF TimeParse
  <2> QED
    BY <2>1, <2>2
<1>6. CASE TimeZone
  <2>1. /\ time'.set = time.set /\ time'.timezone = Zone /\ time'.valid = time.valid
    BY <1>1, <1>6 DEF TimeZone, Times
  <2> QED
    BY <1>6, <2>1 DEF TimeZone
<1>7. CASE TimeValid
  <2>1. /\ time'.set = time.set /\ time'.timezone = time.timezone /\ mainPc' = "judge"
    BY <1>1, <1>7 DEF TimeValid, Times
  <2> QED
    BY <1>7, <2>1 DEF TimeValid
<1>8. CASE PoweronDone \/ NetStateInit \/ Minute
  BY <1>2, <1>8 DEF PoweronDone, NetStateInit, Minute
<1>9. ASSUME NEW c, NEW next \in {"hid", "net", "udisk", "sleep"}, ContextInit(c, next)
      PROVE  Clock'
  BY <1>2, <1>9 DEF ContextInit
<1>10. CASE Recv
  <2>1. UNCHANGED <<mainPc, time>>
    BY <1>10 DEF Recv, TimeSync, SyncClock, SyncByte, UploadBegin, PostRequest, PostParse,
                 PostJudge, PostResult, mainVars
  <2> QED
    BY <2>1
<1>11. CASE UNCHANGED vars
  BY <1>11 DEF vars, mainVars
<1> QED
  BY <1>3, <1>4, <1>5, <1>6, <1>7, <1>8, <1>9, <1>10, <1>11 DEF Next, Main

\* time_sync_rsp reads them in another order, while get_time_parse may set them in between.
LEMMA AnswerStep == TypeOK /\ Clock /\ Boot /\ Answer /\ [Next]_vars => Answer'
<1> SUFFICES ASSUME TypeOK, Clock, Boot, Answer, [Next]_vars PROVE Answer'
  OBVIOUS
<1>1. time \in Times /\ answer \in Answers
  BY DEF TypeOK, Times, Answers
<1>2. ASSUME UNCHANGED <<time, answer>>, recvPc' \notin SyncSteps, recvPc \notin SyncSteps
      PROVE  Answer'
  BY <1>2 DEF Answer, SyncSteps
<1>3. CASE UNCHANGED <<time, answer, recvPc>>
  BY <1>3 DEF Answer
<1>4. CASE TimeRequest \/ TimeJudge \/ PoweronDone \/ NetStateInit \/ Minute
  BY <1>3, <1>4 DEF TimeRequest, TimeJudge, PoweronDone, NetStateInit, Minute, recvVars
<1>5. ASSUME NEW body \in TimeBodies, TimeParse(body) PROVE Answer'
  <2>1. CASE body \in {"full", "no_zone", "zone_type"}
    <3>1. /\ time' = [time EXCEPT !.set = TRUE] /\ recvPc' = recvPc
          /\ answer' = IF recvPc \in SyncSteps /\ answer.clock = "unset"
                       THEN [answer EXCEPT !.clock = "late"] ELSE answer
      BY <1>5, <2>1 DEF TimeParse
    <3>2. time'.valid = time.valid
      BY <1>1, <3>1 DEF Times
    <3>3. /\ answer'.valid = answer.valid /\ answer'.low = answer.low
          /\ recvPc \in SyncSteps => answer'.clock # "unset"
          /\ answer.clock # "unset" => answer'.clock # "unset"
      BY <1>1, <3>1 DEF Answers
    <3> QED
      BY <3>1, <3>2, <3>3 DEF Answer
  <2>2. CASE body \notin {"full", "no_zone", "zone_type"}
    BY <1>3, <1>5, <2>2 DEF TimeParse
  <2> QED
    BY <2>1, <2>2
<1>6. CASE TimeZone
  <2>1. time'.set = time.set /\ time'.valid = time.valid
    BY <1>1, <1>6 DEF TimeZone, Times
  <2> QED
    BY <1>6, <2>1 DEF TimeZone, Answer, recvVars
<1>7. CASE TimeValid
  <2>1. time'.set = time.set /\ time'.valid = 1
    BY <1>1, <1>7 DEF TimeValid, Times
  <2> QED
    BY <1>7, <2>1 DEF TimeValid, Answer, recvVars
<1>8. ASSUME NEW c, NEW next, ContextInit(c, next) PROVE Answer'
  <2>1. CASE c = "uart"
    <3>1. recvPc = "down" /\ recvPc' = "idle" /\ UNCHANGED <<time, answer>>
      BY <1>8, <2>1 DEF ContextInit, Boot
    <3> QED
      BY <1>2, <3>1 DEF SyncSteps
  <2>2. CASE c # "uart"
    BY <1>3, <1>8, <2>2 DEF ContextInit
  <2> QED
    BY <2>1, <2>2
<1>9. CASE SyncClock
  <2>1. /\ answer'.clock = IF time.set THEN "set" ELSE "unset"
        /\ answer'.valid = 0
    BY <1>9 DEF SyncClock, NoAnswer
  <2>2. time' = time /\ recvPc' = "sync_valid"
    BY <1>9 DEF SyncClock
  <2> QED
    BY <2>1, <2>2 DEF Answer, SyncSteps
<1>10. CASE SyncByte("sync_valid", "sync_high", "valid", time.valid)
  <2>1. answer'.clock = answer.clock /\ answer'.valid = time.valid
    BY <1>1, <1>10 DEF SyncByte, Answers
  <2>2. time' = time /\ recvPc = "sync_valid" /\ recvPc' = "sync_high"
    BY <1>10 DEF SyncByte
  <2> QED
    BY <2>1, <2>2 DEF Answer, Clock, SyncSteps
<1>11. CASE SyncByte("sync_high", "sync_low", "high", time.timezone \div 256)
  <2>1. answer'.clock = answer.clock /\ answer'.valid = answer.valid
    BY <1>1, <1>11 DEF SyncByte, Answers
  <2>2. time' = time /\ recvPc = "sync_high" /\ recvPc' = "sync_low"
    BY <1>11 DEF SyncByte
  <2> QED
    BY <2>1, <2>2 DEF Answer, SyncSteps
<1>12. CASE SyncByte("sync_low", "idle", "low", time.timezone % 256)
  <2>1. /\ answer'.clock = answer.clock /\ answer'.valid = answer.valid
        /\ answer'.low = time.timezone % 256
    BY <1>1, <1>12 DEF SyncByte, Answers
  <2>2. time' = time /\ recvPc = "sync_low" /\ recvPc' = "idle"
    BY <1>12 DEF SyncByte
  <2> QED
    BY <2>1, <2>2, ZoneBytes DEF Answer, Clock, SyncSteps
<1>13. CASE UploadBegin \/ PostRequest \/ PostJudge \/ PostResult
  <2>1. /\ UNCHANGED <<time, answer>>
        /\ recvPc \in {"idle", "post", "judge", "result"}
        /\ recvPc' \in {"idle", "post", "parse", "judge", "result"}
    BY <1>13 DEF UploadBegin, PostRequest, PostJudge, PostResult
  <2> QED
    BY <1>2, <2>1 DEF SyncSteps
<1>14. ASSUME NEW body, PostParse(body) PROVE Answer'
  BY <1>2, <1>14 DEF PostParse, SyncSteps
<1>15. CASE UNCHANGED vars
  BY <1>3, <1>15 DEF vars, recvVars
<1> QED
  BY <1>4, <1>5, <1>6, <1>7, <1>8, <1>9, <1>10, <1>11, <1>12, <1>13, <1>14, <1>15
     DEF Next, Main, Recv, TimeSync

-----------------------------------------------------------------------------
(* The theorems.                                                             *)

\* The invariant holds always.
LEMMA InvHolds == Spec => []Inv
<1>1. Init => Inv
  BY InitInv
<1>2. Inv /\ [Next]_vars => Inv'
  BY TypeStep, BootStep, HeartStep, UploadStep, ClockStep, AnswerStep DEF Inv, Upload
<1> QED
  BY <1>1, <1>2, PTL DEF Spec

\* Type correctness: in particular no upload sends more than four results.
THEOREM ServerTypeCorrect == Spec => []TypeOK
<1>1. Inv => TypeOK
  BY DEF Inv
<1> QED
  BY <1>1, InvHolds, PTL

\* The peer is never told that the server is on line after three failed requests in
\* a row, though uploads put the server on line without resetting heart_err_time.
THEOREM OnlineMeansContactHolds == Spec => []OnlineMeansContact
<1>1. Inv => OnlineMeansContact
  BY DEF Inv, TypeOK, Heart, OnlineMeansContact, HeartLimit
<1> QED
  BY <1>1, InvHolds, PTL

\* Nor is it told that the server is off line when the last request has succeeded, but
\* for the moment between a third try and its result.
THEOREM OfflineMeansFailureHolds == Spec => []OfflineMeansFailure
<1>1. Init => OfflineMeansFailure
  BY DEF Init, OfflineMeansFailure, Booted
<1>2. Inv /\ OfflineMeansFailure /\ [Next]_vars => OfflineMeansFailure'
  BY OfflineStep DEF Inv
<1> QED
  BY <1>1, <1>2, InvHolds, PTL DEF Spec

\* What is reported of an upload is true, whatever is lost and whatever the server
\* answers.
THEOREM ResultsHonestHolds == Spec => []ResultsHonest
<1>1. Inv => ResultsHonest
  BY DEF Inv, Upload
<1> QED
  BY <1>1, InvHolds, PTL

\* A time that the peer is told is valid has the server's zone, and its clock was
\* set at the latest between the readings of the clock and of time_valid.
THEOREM SyncHonestHolds == Spec => []SyncHonest
<1>1. Inv => SyncHonest
  <2>1. SUFFICES ASSUME Inv, recvPc = "idle", answer.valid = 1
                 PROVE  256 * answer.high + answer.low = Zone /\ answer.clock # "unset"
    BY DEF SyncHonest
  <2>2. answer.low = Zone /\ answer.clock # "unset"
    BY <2>1 DEF Inv, Answer, SyncSteps
  <2>3. answer.high = 0
    BY <2>1 DEF Inv, TypeOK
  <2> QED
    BY <2>2, <2>3, ZoneBytes
<1> QED
  BY <1>1, InvHolds, PTL
=============================================================================
