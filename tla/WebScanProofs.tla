---------------------------- MODULE WebScanProofs ----------------------------
(***************************************************************************)
(* Proofs about the scan readout: for any number of scans, requests under  *)
(* way, breaks of the stream and timeouts; and about the first-run wizard  *)
(* in front of it, for any libraries and any number of handlers at work.   *)
(***************************************************************************)
EXTENDS WebSetup, SequenceTheorems, TLAPS

\* Whatever the tab names is a job the server has told it of.
Known ==
  /\ watch # None => job[watch] # "absent"
  /\ post.at = "job" => job[post.of] # "absent"
  /\ cancel # "off" => cancelOf \in Jobs
  /\ \A c \in calls :
       /\ c.by # "resume" => c.of \in Jobs
       /\ c.by = "watch"  => job[c.of] # "absent" /\ c.status # "absent"
       /\ c.by = "resume" /\ c.of # None => job[c.of] # "absent"

IInv == TypeOK /\ Known /\ RunningIsExplained /\ EndIsUnderWay

LEMMA NoneIsNoJob == \A j \in Jobs : j # None /\ j \in Nat
BY BoundsAssumption DEF Jobs, None

-----------------------------------------------------------------------------
(* The operators the actions share.                                         *)

\* A snapshot that is shown leaves the watch alone or ends it, and the readout is not
\* busy with a job that is over.
LEMMA ApplyKeeps ==
  ASSUME TypeOK, NEW j \in Jobs, NEW status \in Statuses, ApplyScanJobStatus(j, status)
  PROVE  /\ watch' \in {watch, None}
         /\ watch = j /\ status \in Terminal => watch' = None
         /\ watch # j \/ status \notin Terminal => watch' = watch
         /\ readout' \in Readouts
         /\ readout' \in Busy => status = "running"
         /\ timers' \in 0 .. MaxTimers
<1>1. timers' \in Nat /\ timers' <= MaxTimers
  BY BoundsAssumption DEF ApplyScanJobStatus, TypeOK
<1>2. timers' \in 0 .. MaxTimers
  BY <1>1, BoundsAssumption
<1>3. readout' \in Readouts /\ (readout' \in Busy => status = "running")
  BY DEF ApplyScanJobStatus, TypeOK, Readouts, Busy, Statuses, Terminal
<1>4. QED
  BY <1>2, <1>3 DEF ApplyScanJobStatus

\* The last snapshot of a job gets on the stream, or is missed; what is on the stream
\* stays on it.
LEMMA PublishKeeps ==
  ASSUME TypeOK, NEW j \in Jobs, NEW status \in Statuses, Publish(j, status)
  PROVE  /\ frames' \in Seq([of : Jobs, status : Statuses]) /\ Len(frames') <= Buffer
         /\ missed' \subseteq Jobs /\ missed \subseteq missed'
         /\ \A i \in DOMAIN frames : i \in DOMAIN frames' /\ frames'[i] = frames[i]
         /\ status \in Terminal =>
              \/ j \in missed'
              \/ \E i \in DOMAIN frames' : frames'[i].of = j /\ frames'[i].status \in Terminal
<1> DEFINE frame == [of |-> j, status |-> status]
<1>1. CASE stream = "live" /\ Len(frames) < Buffer
  <2>1. frames' = Append(frames, frame) /\ missed' = missed
    BY <1>1 DEF Publish
  <2>2. frame \in [of : Jobs, status : Statuses] /\ frame.of = j /\ frame.status = status
    OBVIOUS
  <2>3. /\ Len(frames') = Len(frames) + 1
        /\ frames' \in Seq([of : Jobs, status : Statuses])
        /\ frames'[Len(frames) + 1] = frame
        /\ \A i \in 1 .. Len(frames) : frames'[i] = frames[i]
    BY <2>1, <2>2 DEF TypeOK
  <2>4. Len(frames) \in Nat /\ Len(frames') <= Buffer
    BY <1>1, <2>3, BoundsAssumption DEF TypeOK
  <2>5. DOMAIN frames = 1 .. Len(frames) /\ DOMAIN frames' = 1 .. Len(frames')
    BY <2>3 DEF TypeOK
  <2>6. QED
    BY <2>1, <2>2, <2>3, <2>4, <2>5 DEF TypeOK
<1>2. CASE ~(stream = "live" /\ Len(frames) < Buffer)
  BY <1>2 DEF Publish, TypeOK
<1>3. QED
  BY <1>1, <1>2

\* A new job was absent.
LEMMA StartKeeps ==
  ASSUME TypeOK, NEW j \in Jobs, StartJob(j)
  PROVE  /\ job' \in [Jobs -> Statuses]
         /\ job'[j] = "running"
         /\ \A i \in Jobs : job[i] # "absent" => job'[i] = job[i]
         /\ \A i \in Jobs : job'[i] \in Terminal => job[i] \in Terminal
BY DEF StartJob, TypeOK, Statuses, Terminal


\* What a GET becomes when the server has read for it.
LEMMA Answering ==
  ASSUME NEW c \in Calls, NEW status
  PROVE  [c EXCEPT !.status = status] = [by |-> c.by, of |-> c.of, status |-> status]
BY DEF Calls

LEMMA CallsAreTyped ==
  ASSUME TypeOK
  PROVE  /\ calls \subseteq Calls
         /\ \A c \in calls : /\ c.by \in {"watch", "poll", "resume", "reload"}
                           /\ c.of \in Jobs \cup {None}
                           /\ c.status \in Statuses \cup {"unread"}
BY DEF TypeOK, Calls

\* The end of the watched job is under way as long as nothing of it is taken away.
LEMMA EndStays ==
  ASSUME EndIsUnderWay,
         watch' \in {watch, None},
         watch # None => (job'[watch] \in Terminal => job[watch] \in Terminal),
         missed \subseteq missed',
         \A i \in DOMAIN frames :
           watch' = watch /\ frames[i].of = watch /\ frames[i].status \in Terminal =>
             \/ watch \in missed'
             \/ \E n \in DOMAIN frames' : /\ frames'[n].of = watch
                                        /\ frames'[n].status \in Terminal,
         \A c \in calls :
           watch' = watch /\ c.by = "watch" /\ c.of = watch /\ c.status # "running" =>
             \E d \in calls' : d.by = "watch" /\ d.of = watch /\ d.status # "running"
  PROVE  EndIsUnderWay'
<1>1. CASE watch' = None
  BY <1>1 DEF EndIsUnderWay
<1>2. CASE watch' = watch /\ watch # None /\ job'[watch] \in Terminal
  <2>1. \/ watch \in missed
        \/ \E i \in DOMAIN frames : frames[i].of = watch /\ frames[i].status \in Terminal
        \/ \E c \in calls : c.by = "watch" /\ c.of = watch /\ c.status # "running"
    BY <1>2 DEF EndIsUnderWay
  <2>2. QED
    BY <1>2, <2>1 DEF EndIsUnderWay
<1>3. CASE watch' = watch /\ (watch = None \/ job'[watch] \notin Terminal)
  BY <1>3 DEF EndIsUnderWay
<1>4. QED
  BY <1>1, <1>2, <1>3

\* A watch that begins has its fetch under way.
LEMMA WatchKeeps ==
  ASSUME TypeOK, NEW j \in Jobs, NEW other \in SUBSET calls, WatchScanJob(j, other)
  PROVE  /\ watch' = j /\ watch' # None /\ readout' = "running"
         /\ calls' \subseteq Calls
         /\ calls' = other \cup {[by |-> "watch", of |-> j, status |-> "unread"]}
         /\ EndIsUnderWay'
<1>1. /\ watch' = j /\ readout' = "running"
      /\ calls' = other \cup {[by |-> "watch", of |-> j, status |-> "unread"]}
  BY DEF WatchScanJob, Call
<1>2. [by |-> "watch", of |-> j, status |-> "unread"] \in Calls
  BY DEF Calls
<1>3. \E c \in calls' : c.by = "watch" /\ c.of = j /\ c.status # "running"
  <2> DEFINE c == [by |-> "watch", of |-> j, status |-> "unread"]
  <2>1. c \in calls' /\ c.by = "watch" /\ c.of = j /\ c.status # "running"
    BY <1>1
  <2>2. QED
    BY <2>1
<1>4. EndIsUnderWay'
  BY <1>1, <1>3 DEF EndIsUnderWay
<1>5. QED
  BY <1>1, <1>2, <1>4, NoneIsNoJob DEF TypeOK

-----------------------------------------------------------------------------
(* The server.                                                              *)

LEMMA StartsKeep ==
  ASSUME IInv, ScanStartsElsewhere
  PROVE  IInv'
<1>1. PICK j \in Jobs : StartJob(j)
  BY DEF ScanStartsElsewhere
<1>2. /\ job' \in [Jobs -> Statuses]
      /\ \A i \in Jobs : job[i] # "absent" => job'[i] = job[i]
      /\ \A i \in Jobs : job'[i] \in Terminal => job[i] \in Terminal
  BY <1>1, StartKeeps DEF IInv
<1>3. UNCHANGED <<streamVars, watch, shownVars, calls, post, cancelVars, bulk>>
  BY DEF ScanStartsElsewhere
<1>4. TypeOK'
  BY <1>2, <1>3 DEF IInv, TypeOK, streamVars, shownVars, cancelVars
<1>5. Known'
  BY <1>2, <1>3, CallsAreTyped DEF IInv, Known, TypeOK, Posts, cancelVars
<1>6. RunningIsExplained'
  BY <1>3 DEF IInv, RunningIsExplained, shownVars, cancelVars
<1>7. EndIsUnderWay'
  BY <1>2, <1>3, EndStays DEF IInv, TypeOK, streamVars
<1>8. QED
  BY <1>4, <1>5, <1>6, <1>7 DEF IInv

LEMMA ProgressKeeps ==
  ASSUME IInv, ScanProgresses
  PROVE  IInv'
<1>1. PICK j \in Jobs : Publish(j, "running")
  BY DEF ScanProgresses, Running
<1>2. /\ frames' \in Seq([of : Jobs, status : Statuses]) /\ Len(frames') <= Buffer
      /\ missed' \subseteq Jobs /\ missed \subseteq missed'
      /\ \A i \in DOMAIN frames : i \in DOMAIN frames' /\ frames'[i] = frames[i]
  BY <1>1, PublishKeeps DEF IInv, Statuses
<1>3. UNCHANGED <<job, stream, breaks, watch, shownVars, calls, post, cancelVars, bulk>>
  BY DEF ScanProgresses
<1>4. TypeOK'
  BY <1>2, <1>3 DEF IInv, TypeOK, shownVars, cancelVars
<1>5. Known' /\ RunningIsExplained'
  BY <1>3 DEF IInv, Known, RunningIsExplained, shownVars, cancelVars
<1>6. EndIsUnderWay'
  BY <1>2, <1>3, EndStays DEF IInv
<1>7. QED
  BY <1>4, <1>5, <1>6 DEF IInv

LEMMA EndsKeep ==
  ASSUME IInv, ScanEnds
  PROVE  IInv'
<1>1. PICK j \in Running, status \in Terminal :
        job' = [job EXCEPT ![j] = status] /\ Publish(j, status)
  BY DEF ScanEnds
<1>2. j \in Jobs /\ status \in Statuses /\ status # "absent"
  BY DEF Running, Statuses, Terminal
<1>3. /\ frames' \in Seq([of : Jobs, status : Statuses]) /\ Len(frames') <= Buffer
      /\ missed' \subseteq Jobs /\ missed \subseteq missed'
      /\ \A i \in DOMAIN frames : i \in DOMAIN frames' /\ frames'[i] = frames[i]
      /\ \/ j \in missed'
         \/ \E i \in DOMAIN frames' : frames'[i].of = j /\ frames'[i].status \in Terminal
  BY <1>1, <1>2, PublishKeeps DEF IInv
<1>4. UNCHANGED <<stream, breaks, watch, shownVars, calls, post, cancelVars, bulk>>
  BY DEF ScanEnds
<1>5. job' \in [Jobs -> Statuses] /\ \A i \in Jobs : i # j => job'[i] = job[i]
  BY <1>1, <1>2 DEF IInv, TypeOK
<1>6. job'[j] = status
  BY <1>1, <1>2 DEF IInv, TypeOK
<1>7. TypeOK'
  BY <1>3, <1>4, <1>5 DEF IInv, TypeOK, shownVars, cancelVars
<1>8. Known'
  BY <1>2, <1>4, <1>5, <1>6, CallsAreTyped DEF IInv, Known, TypeOK, Posts, cancelVars
<1>9. RunningIsExplained'
  BY <1>4 DEF IInv, RunningIsExplained, shownVars, cancelVars
<1>10. EndIsUnderWay'
  <2>1. CASE watch = j
    BY <1>3, <1>4, <2>1 DEF EndIsUnderWay
  <2>2. CASE watch # j
    BY <1>3, <1>4, <1>5, <2>2, EndStays DEF IInv, TypeOK
  <2>3. QED
    BY <2>1, <2>2
<1>11. QED
  BY <1>7, <1>8, <1>9, <1>10 DEF IInv

LEMMA ReadsKeep ==
  ASSUME IInv, ServerReads
  PROVE  IInv'
<1>1. PICK c \in calls :
        /\ c.status = "unread" /\ c.by # "reload"
        /\ \/ /\ c.by # "resume"
              /\ calls' = (calls \ {c}) \cup {[c EXCEPT !.status = job[c.of]]}
           \/ /\ c.by = "resume"
              /\ \E j \in IF Running = {} THEN {None} ELSE Running :
                   calls' = (calls \ {c}) \cup {[by |-> "resume", of |-> j, status |-> "running"]}
  BY DEF ServerReads
<1>2. UNCHANGED <<job, streamVars, watch, shownVars, post, cancelVars, bulk>>
  BY DEF ServerReads
<1>3. RunningIsExplained'
  BY <1>2 DEF IInv, RunningIsExplained, shownVars, cancelVars
<1>4. /\ c \in Calls
      /\ c.by \in {"watch", "poll", "resume", "reload"} /\ c.of \in Jobs \cup {None}
  BY CallsAreTyped DEF IInv
<1>5. PICK d : /\ calls' = (calls \ {c}) \cup {d}
               /\ d \in Calls /\ d.by = c.by
               /\ c.by # "resume" => d.of = c.of /\ c.of \in Jobs /\ d.status = job[c.of]
               /\ c.by = "resume" /\ d.of # None => job[d.of] # "absent"
  <2>1. CASE c.by # "resume"
    <3> DEFINE e == [by |-> c.by, of |-> c.of, status |-> job[c.of]]
    <3>1. c.of \in Jobs /\ job[c.of] \in Statuses
      BY <2>1 DEF IInv, Known, TypeOK
    <3>2. calls' = (calls \ {c}) \cup {e}
      BY <1>1, <1>4, <2>1, Answering
    <3>3. e \in Calls
      BY <1>4, <3>1 DEF Calls
    <3>4. QED
      BY <2>1, <3>1, <3>2, <3>3
  <2>2. CASE c.by = "resume"
    <3>1. PICK j \in IF Running = {} THEN {None} ELSE Running :
            calls' = (calls \ {c}) \cup {[by |-> "resume", of |-> j, status |-> "running"]}
      BY <1>1, <2>2
    <3> DEFINE e == [by |-> "resume", of |-> j, status |-> "running"]
    <3>2. calls' = (calls \ {c}) \cup {e}
      BY <3>1
    <3>3. j \in Jobs \cup {None} /\ (j # None => job[j] # "absent")
      BY <3>1 DEF Running
    <3>4. e \in Calls
      BY <1>4, <3>3 DEF Calls, Statuses
    <3>5. QED
      BY <2>2, <3>2, <3>3, <3>4
  <2>3. QED
    BY <2>1, <2>2
<1>6. TypeOK'
  BY <1>2, <1>5 DEF IInv, TypeOK, streamVars, shownVars, cancelVars
<1>7. Known'
  BY <1>2, <1>5 DEF IInv, Known, cancelVars
<1>8. EndIsUnderWay'
  <2>1. SUFFICES ASSUME NEW e \in calls, e.by = "watch", e.of = watch, e.status # "running",
                        watch # None, job[watch] \in Terminal
                 PROVE  \E f \in calls' : f.by = "watch" /\ f.of = watch /\ f.status # "running"
    BY <1>2, <1>5 DEF IInv, EndIsUnderWay, streamVars
  <2>2. CASE e = c
    BY <1>5, <2>1, <2>2 DEF Terminal
  <2>3. CASE e # c
    BY <1>5, <2>1, <2>3
  <2>4. QED
    BY <2>2, <2>3
<1>9. QED
  BY <1>3, <1>6, <1>7, <1>8 DEF IInv

LEMMA ServerStartsKeeps ==
  ASSUME IInv, ServerStarts
  PROVE  IInv'
<1>1. UNCHANGED <<streamVars, watch, shownVars, calls, cancelVars, bulk>>
  BY DEF ServerStarts
<1>2. /\ job' \in [Jobs -> Statuses]
      /\ \A i \in Jobs : job[i] # "absent" => job'[i] = job[i]
      /\ \A i \in Jobs : job'[i] \in Terminal => job[i] \in Terminal
      /\ post' \in Posts /\ post' # NoPost
      /\ post'.at = "job" => post'.of \in Jobs /\ job'[post'.of] = "running"
  <2>1. CASE \E j \in Jobs : StartJob(j) /\ post' = [at |-> "job", of |-> j]
    BY <2>1, StartKeeps DEF IInv, Posts, NoPost
  <2>2. CASE \E j \in Running : post' = [at |-> "job", of |-> j] /\ UNCHANGED job
    BY <2>2 DEF IInv, TypeOK, Posts, NoPost, Running
  <2>3. CASE post' = [at |-> "failed", of |-> None] /\ UNCHANGED job
    BY <2>3 DEF IInv, TypeOK, Posts, NoPost
  <2>4. QED
    BY <2>1, <2>2, <2>3 DEF ServerStarts
<1>3. TypeOK'
  BY <1>1, <1>2 DEF IInv, TypeOK, streamVars, shownVars, cancelVars
<1>4. Known'
  BY <1>1, <1>2, CallsAreTyped DEF IInv, Known, TypeOK, cancelVars
<1>5. RunningIsExplained'
  BY <1>1, <1>2 DEF RunningIsExplained
<1>6. EndIsUnderWay'
  BY <1>1, <1>2, EndStays DEF IInv, TypeOK, streamVars
<1>7. QED
  BY <1>3, <1>4, <1>5, <1>6 DEF IInv

-----------------------------------------------------------------------------
(* The event stream.                                                        *)

\* To connect and to wait for the next attempt change nothing else.
LEMMA AttemptsKeep ==
  ASSUME IInv, Connect \/ Retry
  PROVE  IInv'
BY DEF Connect, Retry, IInv, TypeOK, Known, RunningIsExplained, EndIsUnderWay, shownVars,
       cancelVars

LEMMA DisconnectKeeps ==
  ASSUME IInv, Disconnect
  PROVE  IInv'
<1>1. /\ stream' = "waiting" /\ breaks' = breaks + 1 /\ breaks < MaxBreaks
      /\ frames' = << >>
      /\ missed' = missed \cup
           {frames[i].of : i \in {n \in DOMAIN frames : frames[n].status \in Terminal}}
      /\ UNCHANGED <<job, watch, shownVars, calls, post, cancelVars, bulk>>
  BY DEF Disconnect
<1>2. \A i \in DOMAIN frames : frames[i] \in [of : Jobs, status : Statuses]
  <2> DEFINE S == [of : Jobs, status : Statuses]
  <2>1. frames \in Seq(S)
    BY DEF IInv, TypeOK
  <2> HIDE DEF S
  <2>2. DOMAIN frames = 1 .. Len(frames)
    BY <2>1
  <2>3. \A i \in DOMAIN frames : frames[i] \in S
    BY <2>1, <2>2, ElementOfSeq
  <2>4. QED
    BY <2>3 DEF S
<1>3. missed \subseteq missed' /\ missed' \subseteq Jobs
  BY <1>1, <1>2 DEF IInv, TypeOK
<1>4. breaks' \in 0 .. MaxBreaks
  BY <1>1, BoundsAssumption DEF IInv, TypeOK
<1>5. frames' \in Seq([of : Jobs, status : Statuses]) /\ Len(frames') <= Buffer
  BY <1>1, BoundsAssumption
<1>6. TypeOK'
  BY <1>1, <1>3, <1>4, <1>5 DEF IInv, TypeOK, shownVars, cancelVars
<1>7. Known' /\ RunningIsExplained'
  BY <1>1 DEF IInv, Known, RunningIsExplained, shownVars, cancelVars
<1>8. EndIsUnderWay'
  BY <1>1, <1>3, EndStays DEF IInv
<1>9. QED
  BY <1>6, <1>7, <1>8 DEF IInv

LEMMA DeliverKeeps ==
  ASSUME IInv, Deliver
  PROVE  IInv'
<1> DEFINE j == Head(frames).of
           status == Head(frames).status
<1>1. /\ frames # << >>
      /\ HandleScanJobEvent(j, status)
      /\ frames' = Tail(frames)
      /\ UNCHANGED <<job, stream, breaks, missed, calls, post, cancelVars, bulk>>
  BY DEF Deliver
<1>2. /\ frames \in Seq([of : Jobs, status : Statuses]) /\ Len(frames) <= Buffer
      /\ Len(frames) \in Nat \ {0}
      /\ DOMAIN frames = 1 .. Len(frames)
  BY <1>1 DEF IInv, TypeOK
<1>3. /\ Head(frames) = frames[1] /\ frames[1] \in [of : Jobs, status : Statuses]
      /\ frames' \in Seq([of : Jobs, status : Statuses])
      /\ Len(frames') = Len(frames) - 1
      /\ DOMAIN frames' = 1 .. (Len(frames) - 1)
      /\ \A n \in 1 .. (Len(frames) - 1) : frames'[n] = frames[n + 1]
  <2> DEFINE S == [of : Jobs, status : Statuses]
  <2>1. frames \in Seq(S) /\ frames # << >>
    BY <1>1, <1>2
  <2> HIDE DEF S
  <2>2. Head(frames) = frames[1]
    BY <2>1
  <2>3. /\ Head(frames) \in S /\ Tail(frames) \in Seq(S)
        /\ Len(Tail(frames)) = Len(frames) - 1
        /\ \A n \in 1 .. Len(Tail(frames)) : Tail(frames)[n] = frames[n + 1]
    BY <2>1, HeadTailProperties
  <2>4. DOMAIN Tail(frames) = 1 .. Len(Tail(frames))
    BY <2>3
  <2>5. QED
    BY <1>1, <2>2, <2>3, <2>4 DEF S
<1>4. j \in Jobs /\ status \in Statuses /\ j # None
  BY <1>3, NoneIsNoJob
<1>5. /\ watch' \in {watch, None}
      /\ watch = j /\ status \in Terminal => watch' = None
      /\ watch # j \/ status \notin Terminal => watch' = watch
      /\ readout' \in Readouts
      /\ readout' \in Busy => readout' = readout \/ (watch = j /\ status = "running")
      /\ timers' \in 0 .. MaxTimers
  <2>1. CASE watch = j
    BY <1>1, <1>4, <2>1, ApplyKeeps DEF IInv, HandleScanJobEvent
  <2>2. CASE watch # j
    BY <1>1, <2>2 DEF IInv, TypeOK, HandleScanJobEvent, shownVars
  <2>3. QED
    BY <2>1, <2>2
<1>6. TypeOK'
  <2>1. Len(frames') <= Buffer
    BY <1>2, <1>3, BoundsAssumption
  <2>2. watch' \in Jobs \cup {None}
    BY <1>5 DEF IInv, TypeOK
  <2>3. QED
    BY <1>1, <1>3, <1>5, <2>1, <2>2 DEF IInv, TypeOK, cancelVars
<1>7. Known'
  BY <1>1, <1>5 DEF IInv, Known, cancelVars
<1>8. RunningIsExplained'
  <2>1. CASE watch = j /\ status = "running"
    BY <1>4, <1>5, <2>1 DEF RunningIsExplained, Terminal
  <2>2. CASE watch # j \/ status # "running"
    <3>1. CASE watch # j
      BY <1>1, <3>1 DEF IInv, RunningIsExplained, HandleScanJobEvent, shownVars, cancelVars
    <3>2. CASE watch = j /\ status # "running"
      <4>1. readout' \notin Busy
        BY <1>1, <1>4, <3>2, ApplyKeeps DEF IInv, HandleScanJobEvent
      <4>2. QED
        BY <4>1 DEF RunningIsExplained
    <3>3. QED
      BY <2>2, <3>1, <3>2
  <2>3. QED
    BY <2>1, <2>2
<1>9. EndIsUnderWay'
  <2>1. ASSUME NEW i \in DOMAIN frames, watch' = watch, frames[i].of = watch,
               frames[i].status \in Terminal, watch # None
        PROVE  \E n \in DOMAIN frames' : frames'[n].of = watch /\ frames'[n].status \in Terminal
    <3>1. i # 1
      BY <1>3, <1>5, <2>1
    <3>2. i - 1 \in 1 .. (Len(frames) - 1) /\ frames'[i - 1] = frames[(i - 1) + 1]
      BY <1>2, <1>3, <2>1, <3>1
    <3>3. frames'[i - 1] = frames[i]
      BY <1>2, <2>1, <3>2
    <3>4. QED
      BY <1>3, <2>1, <3>2, <3>3
  <2>2. CASE watch = None
    BY <1>5, <2>2 DEF EndIsUnderWay
  <2>3. CASE watch # None
    BY <1>1, <1>5, <2>1, <2>3, EndStays DEF IInv
  <2>4. QED
    BY <2>2, <2>3
<1>10. QED
  BY <1>6, <1>7, <1>8, <1>9 DEF IInv

LEMMA IdleKeeps ==
  ASSUME IInv, IdleTimer
  PROVE  IInv'
<1>1. /\ timers > 0 /\ timers' = timers - 1 /\ readout' = "idle"
      /\ UNCHANGED <<job, streamVars, watch, calls, post, cancelVars, bulk>>
  BY DEF IdleTimer
<1>2. timers' \in 0 .. MaxTimers
  BY <1>1, BoundsAssumption DEF IInv, TypeOK
<1>3. TypeOK'
  BY <1>1, <1>2 DEF IInv, TypeOK, streamVars, cancelVars, Readouts
<1>4. Known' /\ RunningIsExplained' /\ EndIsUnderWay'
  BY <1>1 DEF IInv, Known, RunningIsExplained, EndIsUnderWay, Busy, streamVars, cancelVars
<1>5. QED
  BY <1>3, <1>4 DEF IInv

-----------------------------------------------------------------------------
(* Starting a scan, and following one.                                      *)

LEMMA TriggerKeeps ==
  ASSUME IInv, TriggerScan
  PROVE  IInv'
<1>1. /\ readout' = "running" /\ post' = [at |-> "sent", of |-> None]
      /\ UNCHANGED <<job, streamVars, watch, timers, calls, cancelVars, bulk>>
  BY DEF TriggerScan
<1>2. post' \in Posts /\ post' # NoPost /\ post'.at = "sent"
  BY <1>1 DEF Posts, NoPost
<1>3. TypeOK'
  BY <1>1, <1>2 DEF IInv, TypeOK, streamVars, cancelVars, Readouts
<1>4. Known' /\ RunningIsExplained' /\ EndIsUnderWay'
  BY <1>1, <1>2 DEF IInv, Known, RunningIsExplained, EndIsUnderWay, streamVars, cancelVars
<1>5. QED
  BY <1>3, <1>4 DEF IInv

\* A watch that begins for a job the server has told of.
LEMMA BeginKeeps ==
  ASSUME IInv, NEW j \in Jobs, job[j] # "absent", NEW other \in SUBSET calls,
         WatchScanJob(j, other), post' \in {post, NoPost},
         UNCHANGED <<job, streamVars, timers, cancelVars, bulk>>
  PROVE  IInv'
<1>1. /\ watch' = j /\ watch' # None /\ readout' = "running"
      /\ calls' \subseteq Calls
      /\ calls' = other \cup {[by |-> "watch", of |-> j, status |-> "unread"]}
      /\ EndIsUnderWay'
  BY WatchKeeps DEF IInv
<1>2. post' \in Posts /\ (post'.at = "job" => post' = post)
  BY DEF IInv, TypeOK, Posts, NoPost
<1>3. TypeOK'
  BY <1>1, <1>2 DEF IInv, TypeOK, streamVars, cancelVars, Readouts
<1>4. Known'
  BY <1>1, <1>2 DEF IInv, Known, cancelVars
<1>5. RunningIsExplained'
  BY <1>1 DEF RunningIsExplained
<1>6. QED
  BY <1>1, <1>3, <1>4, <1>5 DEF IInv

LEMMA TriggerAnsweredKeeps ==
  ASSUME IInv, TriggerAnswered
  PROVE  IInv'
<1>1. post' = NoPost /\ UNCHANGED <<job, streamVars, timers, cancelVars, bulk>>
  BY DEF TriggerAnswered
<1>2. CASE post.at = "job" /\ WatchScanJob(post.of, calls)
  <2>1. post.of \in Jobs /\ job[post.of] # "absent"
    BY <1>2 DEF IInv, TypeOK, Known, Posts
  <2>2. QED
    BY <1>1, <1>2, <2>1, BeginKeeps
<1>3. CASE readout' = "error" /\ UNCHANGED <<watch, calls>>
  <2>1. post' \in Posts /\ post'.at # "job"
    BY <1>1 DEF Posts, NoPost
  <2>2. TypeOK'
    BY <1>1, <1>3, <2>1 DEF IInv, TypeOK, streamVars, cancelVars, Readouts
  <2>3. Known' /\ RunningIsExplained' /\ EndIsUnderWay'
    BY <1>1, <1>3, <2>1
    DEF IInv, Known, RunningIsExplained, EndIsUnderWay, Busy, streamVars, cancelVars
  <2>4. QED
    BY <2>2, <2>3 DEF IInv
<1>4. QED
  BY <1>2, <1>3 DEF TriggerAnswered

LEMMA ResumeKeeps ==
  ASSUME IInv, ResumeAnswered
  PROVE  IInv'
<1>1. UNCHANGED <<job, streamVars, timers, post, cancelVars, bulk>>
  BY DEF ResumeAnswered
<1>2. PICK c \in calls :
        /\ c.by = "resume"
        /\ IF c.of # None
           THEN WatchScanJob(c.of, calls \ {c})
           ELSE calls' = calls \ {c} /\ UNCHANGED <<watch, readout>>
  BY DEF ResumeAnswered
<1>3. CASE c.of # None
  <2>1. c.of \in Jobs /\ job[c.of] # "absent"
    BY <1>2, <1>3, CallsAreTyped DEF IInv, Known
  <2>2. QED
    BY <1>1, <1>2, <1>3, <2>1, BeginKeeps
<1>4. CASE c.of = None
  <2>1. calls' = calls \ {c} /\ UNCHANGED <<watch, readout>>
    BY <1>2, <1>4
  <2>2. TypeOK'
    BY <1>1, <2>1 DEF IInv, TypeOK, streamVars, cancelVars
  <2>3. Known' /\ RunningIsExplained'
    BY <1>1, <2>1 DEF IInv, Known, RunningIsExplained, cancelVars
  <2>4. EndIsUnderWay'
    BY <1>1, <1>2, <2>1, EndStays DEF IInv, streamVars
  <2>5. QED
    BY <2>2, <2>3, <2>4 DEF IInv
<1>5. QED
  BY <1>3, <1>4

\* Requests are taken off the list, none of them the fetch that will end the watch, or
\* the watch ends; a request for the view may join them.
LEMMA CallsShrink ==
  ASSUME IInv,
         watch' \in {watch, None}, readout' \in Readouts, timers' \in 0 .. MaxTimers,
         readout' \in Busy => watch' # None \/ strayed' \/ (readout \in Busy /\ watch' = watch),
         NEW c \in calls,
         calls' = calls \ {c} \/
           \E j \in Jobs : calls' = (calls \ {c}) \cup {[by |-> "reload", of |-> j,
                                                         status |-> "unread"]},
         watch' = watch /\ watch # None /\ c.by = "watch" /\ c.of = watch =>
           c.status = "running",
         cancel' \in {"off", "posting", "accepted", "polling", "pausing", "reloading"},
         cancelOf' \in Jobs \cup {None}, cancel' # "off" => cancelOf' \in Jobs,
         strayed' \in BOOLEAN, strayed => strayed',
         UNCHANGED <<job, streamVars, post, bulk>>
  PROVE  IInv'
<1>1. calls' \subseteq Calls
  BY DEF IInv, TypeOK, Calls
<1>2. TypeOK'
  <2>1. watch' \in Jobs \cup {None}
    BY DEF IInv, TypeOK
  <2>2. QED
    BY <1>1, <2>1 DEF IInv, TypeOK, streamVars
<1>3. Known'
  BY DEF IInv, Known
<1>4. RunningIsExplained'
  BY DEF IInv, RunningIsExplained
<1>5. EndIsUnderWay'
  <2>1. CASE watch = None
    BY <2>1 DEF EndIsUnderWay
  <2>2. CASE watch # None
    BY <2>2, EndStays DEF IInv, streamVars
  <2>3. QED
    BY <2>1, <2>2
<1>6. QED
  BY <1>2, <1>3, <1>4, <1>5 DEF IInv

LEMMA WatchAnsweredKeeps ==
  ASSUME IInv, WatchAnswered
  PROVE  IInv'
<1>1. UNCHANGED <<job, streamVars, post, cancelVars, bulk>>
  BY DEF WatchAnswered
<1>2. PICK c \in calls :
        /\ c.by = "watch" /\ c.status # "unread"
        /\ HandleScanJobEvent(c.of, c.status)
        /\ calls' = (calls \ {c}) \cup
             IF c.of = watch /\ c.status \in Terminal THEN {Call("reload", c.of)} ELSE {}
  BY DEF WatchAnswered
<1>3. c.of \in Jobs /\ c.status \in Statuses /\ c.status # "absent" /\ c.of # None
  BY <1>2, CallsAreTyped, NoneIsNoJob DEF IInv, Known
<1>4. /\ watch' \in {watch, None}
      /\ watch = c.of /\ c.status \in Terminal => watch' = None
      /\ watch # c.of \/ c.status \notin Terminal => watch' = watch
      /\ readout' \in Readouts
      /\ timers' \in 0 .. MaxTimers
      /\ readout' \in Busy =>
           (watch = c.of /\ c.status = "running") \/ (readout \in Busy /\ watch' = watch)
  <2>1. CASE watch = c.of
    BY <1>2, <1>3, <2>1, ApplyKeeps DEF IInv, HandleScanJobEvent
  <2>2. CASE watch # c.of
    BY <1>2, <2>2 DEF IInv, TypeOK, HandleScanJobEvent, shownVars
  <2>3. QED
    BY <2>1, <2>2
<1>5. watch' = watch /\ watch # None /\ c.of = watch => c.status = "running"
  BY <1>3, <1>4 DEF Statuses
<1>6. \/ calls' = calls \ {c}
      \/ \E j \in Jobs : calls' = (calls \ {c}) \cup {[by |-> "reload", of |-> j,
                                                       status |-> "unread"]}
  BY <1>2, <1>3 DEF Call
<1>7. readout' \in Busy => watch' # None \/ (readout \in Busy /\ watch' = watch)
  BY <1>3, <1>4 DEF Terminal
<1>8. /\ cancel' \in {"off", "posting", "accepted", "polling", "pausing", "reloading"}
      /\ cancelOf' \in Jobs \cup {None} /\ (cancel' # "off" => cancelOf' \in Jobs)
      /\ strayed' \in BOOLEAN /\ (strayed => strayed')
  BY <1>1 DEF IInv, TypeOK, Known, cancelVars
<1>9. QED
  BY <1>1, <1>2, <1>4, <1>5, <1>6, <1>7, <1>8, CallsShrink

LEMMA ReloadedKeeps ==
  ASSUME IInv, Reloaded
  PROVE  IInv'
<1>1. PICK c \in calls : c.by = "reload" /\ calls' = calls \ {c}
  BY DEF Reloaded
<1>2. UNCHANGED <<job, streamVars, watch, shownVars, post, cancelVars, bulk>>
  BY DEF Reloaded
<1>3. /\ watch' = watch /\ readout' = readout /\ readout' \in Readouts
      /\ timers' \in 0 .. MaxTimers
      /\ cancel' \in {"off", "posting", "accepted", "polling", "pausing", "reloading"}
      /\ cancelOf' \in Jobs \cup {None} /\ (cancel' # "off" => cancelOf' \in Jobs)
      /\ strayed' \in BOOLEAN /\ (strayed => strayed')
  BY <1>2 DEF IInv, TypeOK, Known, cancelVars, shownVars
<1>4. QED
  BY <1>1, <1>2, <1>3, CallsShrink

LEMMA CallFailsKeeps ==
  ASSUME IInv, CallFails
  PROVE  IInv'
<1>1. PICK c \in calls :
        /\ calls' = calls \ {c}
        /\ IF c.by = "resume"
           THEN UNCHANGED <<watch, readout>>
           ELSE watch' = None /\ readout' = "error"
  BY DEF CallFails
<1>2. UNCHANGED <<job, streamVars, timers, post, cancelVars, bulk>>
  BY DEF CallFails
<1>3. /\ watch' \in {watch, None} /\ readout' \in Readouts /\ timers' \in 0 .. MaxTimers
      /\ readout' \in Busy => readout \in Busy /\ watch' = watch
      /\ watch' = watch /\ watch # None /\ c.by = "watch" => FALSE
      /\ cancel' \in {"off", "posting", "accepted", "polling", "pausing", "reloading"}
      /\ cancelOf' \in Jobs \cup {None} /\ (cancel' # "off" => cancelOf' \in Jobs)
      /\ strayed' \in BOOLEAN /\ (strayed => strayed')
  BY <1>1, <1>2 DEF IInv, TypeOK, Known, cancelVars, Readouts, Busy
<1>4. QED
  BY <1>1, <1>2, <1>3, CallsShrink

-----------------------------------------------------------------------------
(* cancelActiveScan.                                                        *)

LEMMA CancelScanKeeps ==
  ASSUME IInv, CancelScan
  PROVE  IInv'
<1>1. /\ watch # None /\ cancel' = "posting" /\ cancelOf' = watch
      /\ readout' = "cancelling"
      /\ UNCHANGED <<job, streamVars, watch, timers, calls, post, strayed, bulk>>
  BY DEF CancelScan
<1>2. TypeOK'
  BY <1>1 DEF IInv, TypeOK, streamVars, Readouts
<1>3. Known' /\ RunningIsExplained' /\ EndIsUnderWay'
  BY <1>1 DEF IInv, TypeOK, Known, RunningIsExplained, EndIsUnderWay, streamVars
<1>4. QED
  BY <1>2, <1>3 DEF IInv

\* The function goes on, or returns: no request is taken but its own, and the readout
\* turns to nothing that would need a reason.
LEMMA CancelKeeps ==
  ASSUME IInv,
         watch' \in {watch, None},
         readout' = "error" \/ (readout' = readout /\ watch' = watch),
         calls' \subseteq Calls,
         \A c \in calls : c.by # "poll" => c \in calls',
         \A c \in calls' : c \in calls \/ (c.by = "poll" /\ c.of \in Jobs),
         cancel' \in {"off", "posting", "accepted", "polling", "pausing", "reloading"},
         cancelOf' \in {cancelOf, None}, cancel' # "off" => cancelOf' = cancelOf /\ cancel # "off",
         UNCHANGED <<job, streamVars, timers, post, strayed, bulk>>
  PROVE  IInv'
<1>1. TypeOK'
  BY DEF IInv, TypeOK, streamVars, Readouts
<1>2. Known'
  BY DEF IInv, Known
<1>3. RunningIsExplained'
  BY DEF IInv, RunningIsExplained, Busy
<1>4. EndIsUnderWay'
  BY EndStays DEF IInv, streamVars
<1>5. QED
  BY <1>1, <1>2, <1>3, <1>4 DEF IInv

LEMMA CancelStepsKeep ==
  ASSUME IInv, CancelAnswered \/ CancelPolls \/ CancelReloaded \/ CancelFails
  PROVE  IInv'
<1> USE DEF CancelReturns
<1>1. CASE CancelAnswered
  <2>1. /\ watch' = watch /\ calls' = calls
        /\ readout' = "error" \/ readout' = readout
        /\ cancel' \in {"off", "accepted"} /\ cancelOf' \in {cancelOf, None}
        /\ cancel' # "off" => cancelOf' = cancelOf /\ cancel # "off"
        /\ UNCHANGED <<job, streamVars, timers, post, strayed, bulk>>
    BY <1>1 DEF CancelAnswered
  <2>2. QED
    BY <2>1, CancelKeeps DEF IInv, TypeOK
<1>2. CASE CancelPolls
  <2>1. cancelOf \in Jobs /\ [by |-> "poll", of |-> cancelOf, status |-> "unread"] \in Calls
    BY <1>2 DEF CancelPolls, IInv, Known, Calls
  <2>2. /\ watch' = watch /\ readout' = readout
        /\ cancel' \in {"off", "polling"} /\ cancelOf' \in {cancelOf, None}
        /\ cancel' # "off" => cancelOf' = cancelOf /\ cancel # "off"
        /\ UNCHANGED <<job, streamVars, timers, post, strayed, bulk>>
        /\ \/ calls' = calls
           \/ calls' = calls \cup {[by |-> "poll", of |-> cancelOf, status |-> "unread"]}
    BY <1>2 DEF CancelPolls, Call, shownVars
  <2>3. /\ calls' \subseteq Calls
        /\ \A c \in calls : c \in calls'
        /\ \A c \in calls' : c \in calls \/ (c.by = "poll" /\ c.of \in Jobs)
    BY <2>1, <2>2 DEF IInv, TypeOK
  <2>4. QED
    BY <2>2, <2>3, CancelKeeps
<1>3. CASE CancelReloaded
  <2>1. /\ watch' = watch /\ readout' = readout /\ calls' = calls
        /\ cancel' = "off" /\ cancelOf' = None
        /\ UNCHANGED <<job, streamVars, timers, post, strayed, bulk>>
    BY <1>3 DEF CancelReloaded, shownVars
  <2>2. QED
    BY <2>1, CancelKeeps DEF IInv, TypeOK
<1>4. CASE CancelFails
  <2>1. /\ watch' = None /\ readout' = "error" /\ calls' = {c \in calls : c.by # "poll"}
        /\ cancel' = "off" /\ cancelOf' = None
        /\ UNCHANGED <<job, streamVars, timers, post, strayed, bulk>>
    BY <1>4 DEF CancelFails
  <2>2. QED
    BY <2>1, CancelKeeps DEF IInv, TypeOK
<1>5. QED
  BY <1>1, <1>2, <1>3, <1>4

LEMMA PolledKeeps ==
  ASSUME IInv, CancelPolled
  PROVE  IInv'
<1>1. UNCHANGED <<job, streamVars, post, cancelOf, bulk>> /\ cancel = "polling"
  BY DEF CancelPolled
<1>2. PICK c \in calls :
        /\ c.by = "poll" /\ c.status # "unread"
        /\ ApplyScanJobStatus(cancelOf, c.status)
        /\ strayed' = (strayed \/ watch # cancelOf)
        /\ cancel' = IF c.status \in Terminal THEN "reloading" ELSE "pausing"
        /\ calls' = calls \ {c}
  BY DEF CancelPolled
<1>3. cancelOf \in Jobs /\ cancelOf # None /\ c.status \in Statuses
  BY <1>1, <1>2, CallsAreTyped, NoneIsNoJob DEF IInv, Known
<1>4. /\ watch' \in {watch, None}
      /\ c.status \notin Terminal => watch' = watch
      /\ readout' \in Readouts
      /\ readout' \in Busy => c.status = "running"
      /\ timers' \in 0 .. MaxTimers
  BY <1>2, <1>3, ApplyKeeps DEF IInv
<1>5. readout' \in Busy => watch' # None \/ strayed'
  BY <1>2, <1>3, <1>4 DEF Terminal
<1>6. /\ cancel' \in {"off", "posting", "accepted", "polling", "pausing", "reloading"}
      /\ cancelOf' \in Jobs \cup {None} /\ (cancel' # "off" => cancelOf' \in Jobs)
      /\ strayed' \in BOOLEAN /\ (strayed => strayed')
  BY <1>1, <1>2, <1>3 DEF IInv, TypeOK
<1>7. QED
  BY <1>1, <1>2, <1>4, <1>5, <1>6, CallsShrink

-----------------------------------------------------------------------------
(* The bulk identification, and all together.                               *)

LEMMA BulkKeeps ==
  ASSUME IInv, Bulk
  PROVE  IInv'
<1>1. /\ UNCHANGED <<job, streamVars, watch, calls, post, cancelVars>>
      /\ bulk' \in BOOLEAN
      /\ readout' \in Readouts /\ (readout' \in Busy => bulk')
      /\ timers' = timers \/ (timers' = timers + 1 /\ timers' <= MaxTimers)
  BY DEF Bulk, BulkStarts, BulkItem, BulkEnds, IInv, TypeOK, Readouts, Busy
<1>2. timers' \in 0 .. MaxTimers
  BY <1>1, BoundsAssumption DEF IInv, TypeOK
<1>3. TypeOK'
  BY <1>1, <1>2 DEF IInv, TypeOK, streamVars, cancelVars
<1>4. Known' /\ RunningIsExplained' /\ EndIsUnderWay'
  BY <1>1 DEF IInv, Known, RunningIsExplained, EndIsUnderWay, streamVars, cancelVars
<1>5. QED
  BY <1>3, <1>4 DEF IInv

LEMMA ScanInit == Init => IInv
<1> SUFFICES ASSUME Init PROVE IInv
  OBVIOUS
<1>1. /\ calls = {[by |-> "resume", of |-> None, status |-> "unread"]}
      /\ calls \subseteq Calls
  BY DEF Init, Call, Calls
<1>2. job \in [Jobs -> Statuses]
  BY DEF Init, Statuses
<1>3. post \in Posts /\ post.at = "none"
  BY DEF Init, NoPost, Posts
<1>4. frames \in Seq([of : Jobs, status : Statuses]) /\ Len(frames) <= Buffer
  BY BoundsAssumption DEF Init
<1>5. TypeOK
  <2>1. breaks \in 0 .. MaxBreaks /\ timers \in 0 .. MaxTimers
    BY BoundsAssumption DEF Init
  <2>2. /\ stream = "connecting" /\ missed = {} /\ watch = None /\ readout = "idle"
        /\ cancel = "off" /\ cancelOf = None /\ strayed = FALSE /\ bulk = FALSE
    BY DEF Init
  <2>3. QED
    BY <1>1, <1>2, <1>3, <1>4, <2>1, <2>2 DEF TypeOK, Readouts
<1>6. Known
  BY <1>1, <1>3 DEF Init, Known
<1>7. RunningIsExplained /\ EndIsUnderWay
  BY DEF Init, RunningIsExplained, EndIsUnderWay, Busy
<1>8. QED
  BY <1>5, <1>6, <1>7 DEF IInv

LEMMA ScanStep == IInv /\ [Next]_vars => IInv'
<1> SUFFICES ASSUME IInv, [Next]_vars PROVE IInv'
  OBVIOUS
<1>1. CASE Server
  BY <1>1, StartsKeep, ProgressKeeps, EndsKeep, ReadsKeep, ServerStartsKeeps DEF Server
<1>2. CASE Events
  BY <1>2, AttemptsKeep, DisconnectKeeps, DeliverKeeps, IdleKeeps DEF Events
<1>3. CASE Follow
  BY <1>3, TriggerKeeps, TriggerAnsweredKeeps, ResumeKeeps, WatchAnsweredKeeps, ReloadedKeeps,
     CallFailsKeeps DEF Follow
<1>4. CASE Cancels
  BY <1>4, CancelScanKeeps, CancelStepsKeep, PolledKeeps DEF Cancels
<1>5. CASE Bulk
  BY <1>5, BulkKeeps
<1>6. CASE UNCHANGED vars
  BY <1>6 DEF vars, streamVars, shownVars, cancelVars, IInv, TypeOK, Known, RunningIsExplained,
              EndIsUnderWay
<1>7. QED
  BY <1>1, <1>2, <1>3, <1>4, <1>5, <1>6 DEF Next

\* The inductive invariant: the types, what the tab knows, and the two promises.
THEOREM ScanReadout == Spec => []IInv
BY ScanInit, ScanStep, PTL DEF Spec

\* The types, and with them the bounds: the stream never holds more snapshots than the
\* server's buffer for one subscriber.
THEOREM ScanTypes == Spec => []TypeOK
<1>1. IInv => TypeOK
  BY DEF IInv
<1>2. QED
  BY <1>1, ScanReadout, PTL

\* However starting, resuming, following, cancelling and identifying interleave, and
\* whichever requests fail, a readout that says a scan is running has a reason to.
THEOREM RunningHasAReason == Spec => []RunningIsExplained
<1>1. IInv => RunningIsExplained
  BY DEF IInv
<1>2. QED
  BY <1>1, ScanReadout, PTL

\* However often the stream breaks, the end of a watched scan is on its way to the tab
\* or was published while the stream was down.
THEOREM WatchWillEnd == Spec => []EndIsUnderWay
<1>1. IInv => EndIsUnderWay
  BY DEF IInv
<1>2. QED
  BY <1>1, ScanReadout, PTL

-----------------------------------------------------------------------------
(* The wizard.  On /setup nothing is watched and no stream is open; on the *)
(* dashboard no handler of the wizard is left.                             *)

Handlers == {"load", "admin", "render", "attach", "remove", "continue", "scan", "finish",
             "gone"}
Requests == {"status", "admin", "list", "attach", "remove", "scan", "poll", "complete"}
Steps    == {"none", "admin", "libraries", "scan", "done"}
Gots     == {"unread", "ok"} \cup Statuses \cup Steps
Asks == [for : Handlers, do : Requests, of : Libraries \cup Jobs \cup {None},
         own : BOOLEAN, got : Gots, libs : SUBSET Libraries]

\* What each handler can be at: the one of a scan never leaves its three requests, a
\* job that is polled has been started, and only a removal removes.
AskOK(a) ==
  /\ a \in Asks
  /\ a.for = "scan" => a.do \in {"scan", "poll", "status"}
  /\ a.do = "remove" => a.for \in {"remove", "gone"}
  /\ a.do = "attach" => a.of \in Libraries
  /\ a.for = "gone" => ~a.own
  /\ a.do = "scan" =>
       a.got = "unread" \/ (a.got = "ok" /\ a.of \in Jobs /\ job[a.of] # "absent")
  /\ a.do = "poll" =>
       a.of \in Jobs /\ job[a.of] # "absent" /\ a.got \in {"unread", "running"} \cup Terminal

\* A removal that has taken effect, and whose next status is not read yet or tells of
\* what it removed.
Returns(b) ==
  /\ b.for = "remove"
  /\ \/ b.do = "remove" /\ b.got = "ok"
     \/ b.do = "list"
     \/ b.do = "status" /\ b.got # "scan"

\* Where there is no library, and the scan card is shown or on its way, a removal will
\* ask for the step again.
CardIsComingBack ==
  libs = {} /\ (step = "scan" \/ \E a \in asks : a.do = "status" /\ a.got = "scan")
    => lost \/ \E b \in asks : Returns(b)

PageOK ==
  /\ page \in {"setup", "dashboard"}
  /\ page = "setup" => watch = None
  /\ page = "dashboard" => asks = {}
  /\ libs \subseteq Libraries /\ attached \subseteq Libraries

SetupInv ==
  /\ IInv
  /\ PageOK
  /\ \A a \in asks : AskOK(a)
  /\ (\E a \in asks : a.for = "gone" /\ a.do = "remove") => lost
  /\ ScanButtonIsExplained
  /\ CardIsComingBack

\* Nothing of the readout changes but the jobs, and none of them is watched.
LEMMA JobsKeep ==
  ASSUME IInv, watch = None, job' \in [Jobs -> Statuses],
         \A i \in Jobs : job[i] # "absent" => job'[i] # "absent",
         UNCHANGED scanVars
  PROVE  IInv'
<1>1. UNCHANGED <<streamVars, watch, shownVars, calls, post, cancelVars, bulk>>
  BY DEF scanVars
<1>2. TypeOK'
  BY <1>1 DEF IInv, TypeOK, streamVars, shownVars, cancelVars
<1>3. Known'
  BY <1>1, CallsAreTyped DEF IInv, Known, TypeOK, Posts, cancelVars
<1>4. RunningIsExplained' /\ EndIsUnderWay'
  BY <1>1 DEF IInv, RunningIsExplained, EndIsUnderWay, shownVars, cancelVars
<1>5. QED
  BY <1>2, <1>3, <1>4 DEF IInv

\* A handler stays what it may be while jobs only start and end.
LEMMA AskStays ==
  ASSUME NEW a, AskOK(a),
         \A i \in Jobs : job[i] # "absent" => job'[i] # "absent"
  PROVE  AskOK(a)'
BY DEF AskOK

\* What an ask becomes when it is answered.
LEMMA AskAnswered ==
  ASSUME NEW a \in Asks, NEW got \in Gots, NEW shown \in SUBSET Libraries,
         Answered(a, got, shown)
  PROVE  \E b \in Asks :
           /\ asks' = (asks \ {a}) \cup {b}
           /\ b.for = a.for /\ b.do = a.do /\ b.of = a.of /\ b.own = a.own
           /\ b.got = got /\ b.libs = shown
<1> DEFINE b == [a EXCEPT !.got = got, !.libs = shown]
<1>1. /\ b \in Asks
      /\ b.for = a.for /\ b.do = a.do /\ b.of = a.of /\ b.own = a.own
      /\ b.got = got /\ b.libs = shown
  BY DEF Asks
<1>2. asks' = (asks \ {a}) \cup {b}
  BY DEF Answered
<1> HIDE DEF b
<1>3. QED
  BY <1>1, <1>2

LEMMA ScanAsked ==
  ASSUME NEW a \in Asks, NEW j \in Jobs,
         asks' = (asks \ {a}) \cup {[a EXCEPT !.of = j, !.got = "ok"]}
  PROVE  \E b \in Asks :
           /\ asks' = (asks \ {a}) \cup {b}
           /\ b.for = a.for /\ b.do = a.do /\ b.of = j /\ b.own = a.own
           /\ b.got = "ok" /\ b.libs = a.libs
<1> DEFINE b == [a EXCEPT !.of = j, !.got = "ok"]
<1>1. /\ b \in Asks
      /\ b.for = a.for /\ b.do = a.do /\ b.of = j /\ b.own = a.own
      /\ b.got = "ok" /\ b.libs = a.libs
  BY DEF Asks, Gots
<1>2. asks' = (asks \ {a}) \cup {b}
  OBVIOUS
<1> HIDE DEF b
<1>3. QED
  BY <1>1, <1>2

\* What it becomes when its handler goes on.
LEMMA AskGoesOn ==
  ASSUME NEW a \in Asks, NEW do \in Requests, asks' = Then(a, do)
  PROVE  \E b \in Asks :
           /\ asks' = (asks \ {a}) \cup {b}
           /\ b.for = a.for /\ b.do = do /\ b.of = a.of /\ b.own = a.own
           /\ b.got = "unread" /\ b.libs = {}
<1> DEFINE b == [a EXCEPT !.do = do, !.got = "unread", !.libs = {}]
<1>1. /\ b \in Asks
      /\ b.for = a.for /\ b.do = do /\ b.of = a.of /\ b.own = a.own
      /\ b.got = "unread" /\ b.libs = {}
  BY DEF Asks, Gots
<1>2. asks' = (asks \ {a}) \cup {b}
  BY DEF Then
<1> HIDE DEF b
<1>3. QED
  BY <1>1, <1>2

\* What it becomes when its card, or its page, is left.
Old(a)  == [a EXCEPT !.own = FALSE]
Gone(a) == [a EXCEPT !.for = "gone", !.own = FALSE]

LEMMA AskLeft ==
  ASSUME NEW a \in Asks
  PROVE  /\ Old(a) \in Asks
         /\ Old(a).for = a.for /\ Old(a).do = a.do /\ Old(a).of = a.of /\ ~Old(a).own
         /\ Old(a).got = a.got /\ Old(a).libs = a.libs
         /\ Gone(a) \in Asks
         /\ Gone(a).for = "gone" /\ Gone(a).do = a.do /\ Gone(a).of = a.of /\ ~Gone(a).own
         /\ Gone(a).got = a.got /\ Gone(a).libs = a.libs
BY DEF Asks, Handlers, Old, Gone

\* A request is answered, or its handler goes on with the next one.
LEMMA MovesKeep ==
  ASSUME SetupInv, page = "setup", UNCHANGED <<scanVars, page, step>>,
         job' \in [Jobs -> Statuses], \A i \in Jobs : job[i] # "absent" => job'[i] # "absent",
         libs' \subseteq Libraries, attached' \subseteq Libraries,
         NEW a \in asks, NEW b, asks' = (asks \ {a}) \cup {b},
         AskOK(b)', b.for = a.for, b.own = a.own, b.do = "remove" => a.do = "remove",
         scanning' => scanning, silent => silent', lost => lost',
         libs' = {} /\ Returns(a) => Returns(b),
         libs' = {} /\ libs # {} => Returns(b) \/ lost,
         libs' = {} /\ b.do = "status" => b.got # "scan"
  PROVE  SetupInv'
<1>1. IInv'
  BY JobsKeep DEF SetupInv, PageOK
<1>2. PageOK'
  BY DEF SetupInv, PageOK, scanVars
<1>3. \A c \in asks' : AskOK(c)'
  BY AskStays DEF SetupInv
<1>4. (\E c \in asks' : c.for = "gone" /\ c.do = "remove") => lost'
  BY DEF SetupInv
<1>5. ScanButtonIsExplained'
  BY DEF SetupInv, ScanButtonIsExplained
<1>6. CardIsComingBack'
  <2>1. SUFFICES ASSUME libs' = {}, ~lost',
                        step = "scan" \/ \E c \in asks' : c.do = "status" /\ c.got = "scan"
                 PROVE  \E c \in asks' : Returns(c)
    BY DEF CardIsComingBack
  <2>2. CASE libs # {}
    BY <2>1, <2>2
  <2>3. CASE libs = {}
    <3>1. \E c \in asks : Returns(c)
      BY <2>1, <2>3 DEF SetupInv, CardIsComingBack
    <3>2. QED
      BY <2>1, <3>1
  <2>4. QED
    BY <2>2, <2>3
<1>7. QED
  BY <1>1, <1>2, <1>3, <1>4, <1>5, <1>6 DEF SetupInv

\* A handler is done.
LEMMA DoneKeeps ==
  ASSUME SetupInv, page = "setup", UNCHANGED <<scanVars, job, page, libs, step>>,
         attached' \subseteq Libraries, NEW a \in asks, asks' = asks \ {a},
         scanning' => scanning, silent => silent', lost => lost',
         a.own /\ a.for = "scan" => ~scanning' \/ silent',
         Returns(a) => lost'
  PROVE  SetupInv'
<1>1. IInv'
  BY JobsKeep DEF SetupInv, PageOK, IInv, TypeOK
<1>2. PageOK'
  BY DEF SetupInv, PageOK, scanVars
<1>3. \A c \in asks' : AskOK(c)'
  BY AskStays DEF SetupInv
<1>4. (\E c \in asks' : c.for = "gone" /\ c.do = "remove") => lost'
  BY DEF SetupInv
<1>5. ScanButtonIsExplained'
  BY DEF SetupInv, ScanButtonIsExplained
<1>6. CardIsComingBack'
  BY DEF SetupInv, CardIsComingBack
<1>7. QED
  BY <1>1, <1>2, <1>3, <1>4, <1>5, <1>6 DEF SetupInv

LEMMA ServerKeeps ==
  ASSUME SetupInv, page = "setup", SetupServer
  PROVE  SetupInv'
<1>1. UNCHANGED <<scanVars, page, token, cardVars, lost>>
  BY DEF SetupServer
<1>2. UNCHANGED <<page, step, scanning, silent, lost>> /\ attached' \subseteq Libraries
  BY <1>1 DEF cardVars, SetupInv, PageOK
<1>3. PICK a \in asks :
        /\ a.got = "unread"
        /\ \/ /\ a.do = "status" /\ Answered(a, CurrentStep, {})
              /\ UNCHANGED <<job, admin, libs>>
           \/ /\ a.do = "admin" /\ Answered(a, "ok", {})
              /\ UNCHANGED <<job, libs>>
           \/ /\ a.do = "list" /\ Answered(a, "ok", libs)
              /\ UNCHANGED <<job, admin, libs>>
           \/ /\ a.do = "attach" /\ a.of \notin libs
              /\ libs' = libs \cup {a.of} /\ Answered(a, "ok", {})
              /\ UNCHANGED <<job, admin>>
           \/ /\ a.do = "remove" /\ a.of \in libs
              /\ libs' = libs \ {a.of} /\ Answered(a, "ok", {})
              /\ UNCHANGED <<job, admin>>
           \/ /\ a.do = "scan"
              /\ \E j \in Jobs :
                   /\ StartJob(j) \/ (j \in Running /\ UNCHANGED job)
                   /\ asks' = (asks \ {a}) \cup {[a EXCEPT !.of = j, !.got = "ok"]}
              /\ UNCHANGED <<admin, libs>>
           \/ /\ a.do = "poll" /\ Answered(a, job[a.of], {})
              /\ UNCHANGED <<job, admin, libs>>
           \/ /\ a.do = "complete" /\ Answered(a, "ok", {})
              /\ UNCHANGED <<job, admin, libs>>
  BY DEF SetupServer
<1>4. /\ a \in Asks /\ AskOK(a) /\ libs \subseteq Libraries
      /\ job \in [Jobs -> Statuses] /\ (a.for = "gone" /\ a.do = "remove" => lost)
  BY DEF SetupInv, AskOK, PageOK, IInv, TypeOK
<1>5. CASE a.do = "status" /\ Answered(a, CurrentStep, {}) /\ UNCHANGED <<job, libs>>
  <2>1. CurrentStep \in Gots /\ (libs = {} => CurrentStep # "scan")
    BY DEF CurrentStep, Gots, Steps
  <2>2. PICK b \in Asks :
          /\ asks' = (asks \ {a}) \cup {b}
          /\ b.for = a.for /\ b.do = a.do /\ b.of = a.of /\ b.own = a.own
          /\ b.got = CurrentStep
    BY <1>4, <1>5, <2>1, AskAnswered
  <2>3. AskOK(b)'
    BY <1>4, <1>5, <2>2 DEF AskOK
  <2>4. libs = {} => (Returns(a) => Returns(b)) /\ b.got # "scan"
    BY <1>3, <1>5, <2>1, <2>2 DEF Returns
  <2>5. QED
    BY <1>1, <1>2, <1>4, <1>5, <2>2, <2>3, <2>4, MovesKeep
<1>6. CASE /\ a.do \in {"admin", "list", "attach", "remove", "complete"}
           /\ \E shown \in SUBSET Libraries : Answered(a, "ok", shown)
           /\ UNCHANGED job /\ libs' \subseteq Libraries
           /\ libs' = {} /\ libs # {} => a.do = "remove"
  <2>1. PICK b \in Asks :
          /\ asks' = (asks \ {a}) \cup {b}
          /\ b.for = a.for /\ b.do = a.do /\ b.of = a.of /\ b.own = a.own
          /\ b.got = "ok"
    BY <1>4, <1>6, AskAnswered DEF Gots
  <2>2. AskOK(b)'
    BY <1>4, <1>6, <2>1 DEF AskOK
  <2>3. Returns(a) => Returns(b)
    BY <1>3, <1>6, <2>1 DEF Returns
  <2>4. libs' = {} /\ libs # {} => Returns(b) \/ lost
    BY <1>4, <1>6, <2>1 DEF Returns, AskOK
  <2>5. QED
    BY <1>1, <1>2, <1>4, <1>6, <2>1, <2>2, <2>3, <2>4, MovesKeep
<1>7. CASE /\ a.do = "scan" /\ UNCHANGED libs
           /\ \E j \in Jobs :
                /\ StartJob(j) \/ (j \in Running /\ UNCHANGED job)
                /\ asks' = (asks \ {a}) \cup {[a EXCEPT !.of = j, !.got = "ok"]}
  <2>1. PICK j \in Jobs :
          /\ StartJob(j) \/ (j \in Running /\ UNCHANGED job)
          /\ asks' = (asks \ {a}) \cup {[a EXCEPT !.of = j, !.got = "ok"]}
    BY <1>7
  <2>2. /\ job' \in [Jobs -> Statuses] /\ job'[j] = "running"
        /\ \A i \in Jobs : job[i] # "absent" => job'[i] # "absent"
    BY <1>4, <2>1, StartKeeps DEF SetupInv, IInv, Running
  <2>3. PICK b \in Asks :
          /\ asks' = (asks \ {a}) \cup {b}
          /\ b.for = a.for /\ b.do = a.do /\ b.of = j /\ b.own = a.own
          /\ b.got = "ok"
    BY <1>4, <2>1, ScanAsked
  <2>4. AskOK(b)'
    BY <1>4, <1>7, <2>2, <2>3 DEF AskOK
  <2>5. ~Returns(a)
    BY <1>7 DEF Returns
  <2>6. QED
    BY <1>1, <1>2, <1>4, <1>7, <2>2, <2>3, <2>4, <2>5, MovesKeep
<1>8. CASE a.do = "poll" /\ Answered(a, job[a.of], {}) /\ UNCHANGED <<job, libs>>
  <2>1. a.of \in Jobs /\ job[a.of] \in {"running"} \cup Terminal /\ job[a.of] \in Gots
    BY <1>4, <1>8 DEF AskOK, Statuses, Gots
  <2>2. PICK b \in Asks :
          /\ asks' = (asks \ {a}) \cup {b}
          /\ b.for = a.for /\ b.do = a.do /\ b.of = a.of /\ b.own = a.own
          /\ b.got = job[a.of]
    BY <1>4, <1>8, <2>1, AskAnswered
  <2>3. AskOK(b)'
    BY <1>4, <1>8, <2>1, <2>2 DEF AskOK
  <2>4. ~Returns(a)
    BY <1>8 DEF Returns
  <2>5. QED
    BY <1>1, <1>2, <1>4, <1>8, <2>2, <2>3, <2>4, MovesKeep
<1>9. QED
  <2>1. CASE a.do = "admin" /\ Answered(a, "ok", {}) /\ UNCHANGED <<job, libs>>
    BY <1>4, <1>6, <2>1
  <2>2. CASE a.do = "list" /\ Answered(a, "ok", libs) /\ UNCHANGED <<job, libs>>
    BY <1>4, <1>6, <2>2
  <2>3. CASE a.do = "attach" /\ libs' = libs \cup {a.of} /\ Answered(a, "ok", {}) /\ UNCHANGED job
    BY <1>4, <1>6, <2>3 DEF AskOK
  <2>4. CASE a.do = "remove" /\ libs' = libs \ {a.of} /\ Answered(a, "ok", {}) /\ UNCHANGED job
    BY <1>4, <1>6, <2>4
  <2>5. CASE a.do = "complete" /\ Answered(a, "ok", {}) /\ UNCHANGED <<job, libs>>
    BY <1>4, <1>6, <2>5
  <2>6. QED
    BY <1>3, <1>5, <1>7, <1>8, <2>1, <2>2, <2>3, <2>4, <2>5, Zenon

LEMMA ScansKeep ==
  ASSUME SetupInv, page = "setup", SetupScans
  PROVE  SetupInv'
<1>1. UNCHANGED <<scanVars, setupVars>>
  BY DEF SetupScans
<1>2. UNCHANGED <<page, libs, step, attached, scanning, silent, asks, lost>>
  BY <1>1 DEF setupVars, cardVars
<1>3. job \in [Jobs -> Statuses]
  BY DEF SetupInv, IInv, TypeOK
<1>4. /\ job' \in [Jobs -> Statuses]
      /\ \A i \in Jobs : job[i] # "absent" => job'[i] # "absent"
  <2>1. CASE \E j \in Jobs : StartJob(j)
    BY <2>1, StartKeeps DEF SetupInv, IInv
  <2>2. CASE \E j \in Running, status \in Terminal : job' = [job EXCEPT ![j] = status]
    BY <1>3, <2>2 DEF Running, Statuses, Terminal
  <2>3. QED
    BY <2>1, <2>2 DEF SetupScans
<1>5. IInv'
  BY <1>1, <1>4, JobsKeep DEF SetupInv, PageOK
<1>6. PageOK' /\ ScanButtonIsExplained' /\ CardIsComingBack'
  BY <1>1, <1>2 DEF SetupInv, PageOK, ScanButtonIsExplained, CardIsComingBack, scanVars
<1>7. \A a \in asks' : AskOK(a)'
  BY <1>2, <1>4, AskStays DEF SetupInv
<1>8. QED
  BY <1>2, <1>5, <1>6, <1>7 DEF SetupInv

\* A new handler starts.
LEMMA ClickKeeps ==
  ASSUME SetupInv, page = "setup",
         UNCHANGED <<job, scanVars, page, libs, step, attached, silent, lost>>,
         NEW for \in Handlers \ {"gone"}, NEW do \in Requests \ {"poll"},
         NEW of \in Libraries \cup Jobs \cup {None}, Click(for, do, of),
         for = "scan" => do = "scan", do = "remove" => for = "remove",
         do = "attach" => of \in Libraries,
         scanning' => scanning \/ for = "scan"
  PROVE  SetupInv'
<1> DEFINE n == Ask(for, do, of)
<1>1. /\ n \in Asks
      /\ n.for = for /\ n.do = do /\ n.of = of /\ n.own = TRUE /\ n.got = "unread"
  BY DEF Ask, Asks, Gots
<1>2. asks' = asks \cup {n}
  BY DEF Click
<1> HIDE DEF n
<1>3. AskOK(n)'
  BY <1>1 DEF AskOK
<1>4. IInv'
  BY JobsKeep DEF SetupInv, PageOK, IInv, TypeOK
<1>5. PageOK'
  BY DEF SetupInv, PageOK, scanVars
<1>6. \A a \in asks' : AskOK(a)'
  BY <1>2, <1>3, AskStays DEF SetupInv
<1>7. (\E a \in asks' : a.for = "gone" /\ a.do = "remove") => lost'
  BY <1>1, <1>2 DEF SetupInv
<1>8. ScanButtonIsExplained'
  BY <1>1, <1>2 DEF SetupInv, ScanButtonIsExplained
<1>9. CardIsComingBack'
  BY <1>1, <1>2 DEF SetupInv, CardIsComingBack
<1>10. QED
  BY <1>4, <1>5, <1>6, <1>7, <1>8, <1>9 DEF SetupInv

LEMMA ClicksKeep ==
  ASSUME SetupInv, page = "setup", Clicks
  PROVE  SetupInv'
<1>1. UNCHANGED <<job, scanVars, page, libs, step, silent, lost, attached>>
  BY DEF Clicks
<1>2. CASE SubmitAdmin
  BY <1>1, <1>2, ClickKeeps DEF SubmitAdmin, Handlers, Requests
<1>3. CASE LibraryAdd
  BY <1>1, <1>3, ClickKeeps DEF LibraryAdd, Handlers, Requests
<1>4. CASE RemoveLibrary
  BY <1>1, <1>4, ClickKeeps DEF RemoveLibrary, Handlers, Requests, SetupInv, PageOK
<1>5. CASE Continue
  BY <1>1, <1>5, ClickKeeps DEF Continue, Handlers, Requests
<1>6. CASE ScanRun
  BY <1>1, <1>6, ClickKeeps DEF ScanRun, Handlers, Requests
<1>7. CASE FinishLater
  BY <1>1, <1>7, ClickKeeps DEF FinishLater, Handlers, Requests
<1>8. QED
  BY <1>2, <1>3, <1>4, <1>5, <1>6, <1>7 DEF Clicks

\* Another card is drawn: that of the step the server was at.
LEMMA StatusKeeps ==
  ASSUME SetupInv, page = "setup", UNCHANGED <<job, scanVars>>, NEW a \in asks,
         StatusAnswered(a)
  PROVE  SetupInv'
<1> DEFINE list == Ask("render", "list", None)
<1>1. /\ step' = a.got /\ scanning' = FALSE /\ a.do = "status"
      /\ lost' = (lost \/ \E b \in asks \ {a} : b.do = "status")
      /\ attached' = {} /\ UNCHANGED <<page, libs>>
  BY DEF StatusAnswered, Render
<1>2. /\ list \in Asks
      /\ list.for = "render" /\ list.do = "list" /\ list.of = None
      /\ list.own = TRUE /\ list.got = "unread"
  BY DEF Ask, Asks, Gots, Handlers, Requests
<1>3. /\ \A c \in asks' : c = list \/ \E b \in asks \ {a} : c = Old(b)
      /\ \A b \in asks \ {a} : Old(b) \in asks'
  BY DEF StatusAnswered, Render, LibrariesCard, Old
<1> HIDE DEF list
<1>4. \A b \in asks : /\ b \in Asks /\ AskOK(b)'
                       /\ Old(b).for = b.for /\ Old(b).do = b.do /\ Old(b).got = b.got
                       /\ AskOK(Old(b))'
  <2> SUFFICES ASSUME NEW b \in asks
               PROVE  /\ b \in Asks /\ AskOK(b)'
                      /\ Old(b).for = b.for /\ Old(b).do = b.do /\ Old(b).got = b.got
                      /\ AskOK(Old(b))'
    OBVIOUS
  <2>1. b \in Asks /\ AskOK(b)'
    BY AskStays DEF SetupInv, AskOK
  <2>2. QED
    BY <2>1, AskLeft DEF AskOK
<1>5. AskOK(list)'
  BY <1>2 DEF AskOK
<1>6. IInv'
  BY JobsKeep DEF SetupInv, PageOK, IInv, TypeOK
<1>7. PageOK'
  BY <1>1 DEF SetupInv, PageOK, scanVars
<1>8. \A c \in asks' : AskOK(c)'
  BY <1>3, <1>4, <1>5
<1>9. (\E c \in asks' : c.for = "gone" /\ c.do = "remove") => lost'
  <2>1. SUFFICES ASSUME NEW c \in asks', c.for = "gone", c.do = "remove" PROVE lost'
    OBVIOUS
  <2>2. PICK b \in asks \ {a} : c = Old(b)
    BY <1>2, <1>3, <2>1
  <2>3. QED
    BY <1>1, <1>4, <2>1, <2>2 DEF SetupInv
<1>10. ScanButtonIsExplained'
  BY <1>1 DEF ScanButtonIsExplained
<1>11. CardIsComingBack'
  <2>1. SUFFICES ASSUME libs = {}, ~lost',
                        step' = "scan" \/ \E c \in asks' : c.do = "status" /\ c.got = "scan"
                 PROVE  \E c \in asks' : Returns(c)
    BY <1>1 DEF CardIsComingBack
  <2>2. a.got = "scan"
    BY <1>1, <1>2, <1>3, <1>4, <2>1
  <2>3. PICK b \in asks : Returns(b)
    BY <1>1, <2>1, <2>2 DEF SetupInv, CardIsComingBack
  <2>4. b # a
    BY <1>1, <2>2, <2>3 DEF Returns
  <2>5. b.do # "status"
    BY <1>1, <2>1, <2>4
  <2>6. Returns(Old(b))
    BY <1>4, <2>3, <2>5 DEF Returns
  <2>7. QED
    BY <1>3, <2>4, <2>6
<1>12. QED
  BY <1>6, <1>7, <1>8, <1>9, <1>10, <1>11 DEF SetupInv

\* The page is loaded anew, or the dashboard in its place.
LEMMA VisitKeeps ==
  ASSUME SetupInv, page = "setup", UNCHANGED <<job, scanVars>>, NEW left \in SUBSET asks,
         Visit(left)
  PROVE  SetupInv'
<1>1. IInv'
  BY JobsKeep DEF SetupInv, PageOK, IInv, TypeOK
<1>2. step' = "none" /\ scanning' = FALSE /\ attached' = {}
  BY DEF Visit
<1>3. ScanButtonIsExplained'
  BY <1>2 DEF ScanButtonIsExplained
<1>4. CASE NeedsSetup
  <2> DEFINE load == Ask("load", "status", None)
  <2>1. /\ load \in Asks
        /\ load.for = "load" /\ load.do = "status" /\ load.of = None
        /\ load.own = TRUE /\ load.got = "unread"
    BY DEF Ask, Asks, Gots, Handlers, Requests
  <2>2. /\ lost' = (lost \/ \E b \in left : b.got = "unread" /\ b.do = "remove")
        /\ UNCHANGED <<page, libs>>
        /\ \A c \in asks' : c = load \/ \E b \in left : b.got = "unread" /\ c = Gone(b)
    BY <1>4 DEF Visit, Gone
  <2> HIDE DEF load
  <2>3. \A b \in left : b.got = "unread" => Gone(b).got = "unread" /\ AskOK(Gone(b))'
    <3> SUFFICES ASSUME NEW b \in left, b.got = "unread"
                 PROVE  Gone(b).got = "unread" /\ AskOK(Gone(b))'
      OBVIOUS
    <3>1. b \in Asks /\ AskOK(b)'
      BY AskStays DEF SetupInv, AskOK
    <3>2. QED
      BY <3>1, AskLeft DEF AskOK
  <2>4. AskOK(load)'
    BY <2>1 DEF AskOK
  <2>5. \A c \in asks' : AskOK(c)' /\ c.got = "unread"
    BY <2>1, <2>2, <2>3, <2>4
  <2>6. (\E c \in asks' : c.for = "gone" /\ c.do = "remove") => lost'
    <3>1. \A b \in left : Gone(b).do = b.do
      BY AskLeft DEF SetupInv, AskOK
    <3>2. QED
      BY <2>1, <2>2, <3>1
  <2>7. CardIsComingBack'
    BY <1>2, <2>5 DEF CardIsComingBack
  <2>8. PageOK'
    BY <1>2, <2>2 DEF SetupInv, PageOK, scanVars
  <2>9. QED
    BY <1>1, <1>3, <2>5, <2>6, <2>7, <2>8 DEF SetupInv
<1>5. CASE ~NeedsSetup
  <2>1. page' = "dashboard" /\ libs' = {} /\ asks' = {}
    BY <1>5 DEF Visit
  <2>2. CardIsComingBack' /\ PageOK'
    BY <1>2, <2>1 DEF CardIsComingBack, PageOK
  <2>3. QED
    BY <1>1, <1>3, <2>1, <2>2 DEF SetupInv
<1>6. QED
  BY <1>4, <1>5

LEMMA AnswersKeep ==
  ASSUME SetupInv, page = "setup", Answers
  PROVE  SetupInv'
<1>1. UNCHANGED <<job, scanVars, admin>>
  BY DEF Answers
<1>2. PICK a \in asks :
        /\ a.got # "unread"
        /\ IF a.for = "gone"
           THEN asks' = asks \ {a} /\ UNCHANGED <<page, libs, token, cardVars, lost>>
           ELSE \/ StatusAnswered(a) \/ AdminAnswered(a) \/ ListAnswered(a)
                \/ LibraryAnswered(a) \/ ScanAnswered(a) \/ Polled(a) \/ Finished(a)
  BY DEF Answers
<1>3. /\ a \in Asks /\ AskOK(a) /\ a.libs \subseteq Libraries
      /\ attached \subseteq Libraries /\ libs \subseteq Libraries
      /\ job \in [Jobs -> Statuses]
  BY DEF SetupInv, AskOK, PageOK, IInv, TypeOK, Asks
<1>4. CASE a.for = "gone"
  <2>1. asks' = asks \ {a} /\ UNCHANGED <<page, libs, step, attached, scanning, silent, lost>>
    BY <1>2, <1>4 DEF cardVars
  <2>2. ~Returns(a) /\ ~a.own
    BY <1>3, <1>4 DEF Returns, AskOK
  <2>3. QED
    BY <1>1, <1>3, <2>1, <2>2, DoneKeeps
<1>5. CASE StatusAnswered(a)
  BY <1>1, <1>5, StatusKeeps
<1>6. CASE AdminAnswered(a)
  <2>1. /\ asks' = Then(a, "status") /\ a.do = "admin"
        /\ UNCHANGED <<page, libs, step, attached, scanning, silent, lost>>
    BY <1>6 DEF AdminAnswered, cardVars
  <2>2. PICK b \in Asks :
          /\ asks' = (asks \ {a}) \cup {b} /\ b.for = a.for /\ b.do = "status"
          /\ b.own = a.own /\ b.got = "unread"
    BY <1>3, <2>1, AskGoesOn DEF Requests
  <2>3. AskOK(b)'
    BY <1>3, <2>1, <2>2 DEF AskOK
  <2>4. ~Returns(a)
    BY <2>1 DEF Returns
  <2>5. QED
    BY <1>1, <1>3, <2>1, <2>2, <2>3, <2>4, MovesKeep
<1>7. CASE ListAnswered(a)
  <2>1. /\ a.do = "list" /\ attached' \subseteq Libraries
        /\ asks' = GoesOnListing(a)
        /\ UNCHANGED <<page, libs, step, scanning, silent, lost>>
    BY <1>3, <1>7 DEF ListAnswered
  <2>2. CASE a.for = "remove"
    <3>1. PICK b \in Asks :
            /\ asks' = (asks \ {a}) \cup {b} /\ b.for = a.for /\ b.do = "status"
            /\ b.own = a.own /\ b.got = "unread"
      BY <1>3, <2>1, <2>2, AskGoesOn DEF Requests, GoesOnListing
    <3>2. AskOK(b)' /\ Returns(b)
      BY <1>3, <2>1, <2>2, <3>1 DEF AskOK, Returns
    <3>3. QED
      BY <1>1, <1>3, <2>1, <3>1, <3>2, MovesKeep
  <2>3. CASE a.for # "remove"
    <3>1. asks' = asks \ {a} /\ ~Returns(a) /\ a.for # "scan"
      BY <1>3, <2>1, <2>3 DEF GoesOnListing, Returns, AskOK
    <3>2. QED
      BY <1>1, <1>3, <2>1, <3>1, DoneKeeps
  <2>4. QED
    BY <2>2, <2>3
<1>8. CASE LibraryAnswered(a)
  <2>1. /\ asks' = Then(a, "list") /\ a.do \in {"attach", "remove"}
        /\ UNCHANGED <<page, libs, step, attached, scanning, silent, lost>>
    BY <1>8 DEF LibraryAnswered, cardVars
  <2>2. PICK b \in Asks :
          /\ asks' = (asks \ {a}) \cup {b} /\ b.for = a.for /\ b.do = "list"
          /\ b.own = a.own /\ b.got = "unread"
    BY <1>3, <2>1, AskGoesOn DEF Requests
  <2>3. AskOK(b)' /\ (Returns(a) => Returns(b))
    BY <1>3, <2>1, <2>2 DEF AskOK, Returns
  <2>4. QED
    BY <1>1, <1>3, <2>1, <2>2, <2>3, MovesKeep
<1>9. CASE ScanAnswered(a)
  <2>1. /\ asks' = Then(a, "poll") /\ a.do = "scan"
        /\ UNCHANGED <<page, libs, step, attached, scanning, silent, lost>>
    BY <1>9 DEF ScanAnswered, cardVars
  <2>2. PICK b \in Asks :
          /\ asks' = (asks \ {a}) \cup {b} /\ b.for = a.for /\ b.do = "poll"
          /\ b.of = a.of /\ b.own = a.own /\ b.got = "unread"
    BY <1>3, <2>1, AskGoesOn DEF Requests
  <2>3. AskOK(b)' /\ ~Returns(a)
    BY <1>1, <1>2, <1>3, <2>1, <2>2 DEF AskOK, Returns
  <2>4. QED
    BY <1>1, <1>3, <2>1, <2>2, <2>3, MovesKeep
<1>10. CASE Polled(a)
  <2>1. /\ asks' = PollAgain(a) /\ a.do = "poll"
        /\ scanning' = (scanning /\ ~(a.own /\ a.got \in {"failed", "cancelled"}))
        /\ UNCHANGED <<page, libs, step, attached, silent, lost>>
    BY <1>10 DEF Polled
  <2>2. a.got \in {"running"} \cup Terminal /\ ~Returns(a)
    BY <1>2, <1>3, <2>1 DEF AskOK, Returns
  <2>3. CASE a.got \in {"running", "completed"}
    <3>1. PICK do \in {"poll", "status"} : asks' = Then(a, do)
      BY <2>1, <2>3 DEF PollAgain
    <3>2. PICK b \in Asks :
            /\ asks' = (asks \ {a}) \cup {b} /\ b.for = a.for /\ b.do = do
            /\ b.of = a.of /\ b.own = a.own /\ b.got = "unread"
      BY <1>3, <3>1, AskGoesOn DEF Requests
    <3>3. AskOK(b)'
      BY <1>1, <1>3, <2>1, <3>1, <3>2 DEF AskOK
    <3>4. QED
      BY <1>1, <1>3, <2>1, <2>2, <3>1, <3>2, <3>3, MovesKeep
  <2>4. CASE a.got \in {"failed", "cancelled"}
    <3>1. asks' = asks \ {a} /\ (a.own => ~scanning')
      BY <2>1, <2>4 DEF PollAgain
    <3>2. QED
      BY <1>1, <1>3, <2>1, <2>2, <3>1, DoneKeeps
  <2>5. QED
    BY <2>2, <2>3, <2>4 DEF Terminal
<1>11. CASE Finished(a)
  BY <1>1, <1>11, VisitKeeps DEF Finished
<1>12. QED
  BY <1>2, <1>4, <1>5, <1>6, <1>7, <1>8, <1>9, <1>10, <1>11

\* A request fails: its handler stops, and its button is enabled unless nothing
\* catches the failure.
LEMMA FailureKeeps ==
  ASSUME SetupInv, page = "setup", HandlerFails
  PROVE  SetupInv'
<1>1. UNCHANGED <<job, scanVars, page, libs, step>> /\ lost' = TRUE
  BY DEF HandlerFails
<1>2. PICK a \in asks :
        /\ asks' = IF a.do = "list" THEN GoesOnListing(a) ELSE asks \ {a}
        /\ attached' = IF a.do = "list" /\ a.for # "gone" THEN {} ELSE attached
        /\ scanning' = (scanning /\ ~(a.own /\ a.do \in {"scan", "poll"}))
        /\ silent' = (silent \/ (a.own /\ a.for = "scan" /\ a.do = "status"))
  BY DEF HandlerFails
<1>3. /\ a \in Asks /\ AskOK(a) /\ attached' \subseteq Libraries /\ libs \subseteq Libraries
      /\ job \in [Jobs -> Statuses]
  BY <1>2 DEF SetupInv, AskOK, PageOK, IInv, TypeOK
<1>4. CASE a.do = "list" /\ a.for = "remove"
  <2>1. PICK b \in Asks :
          /\ asks' = (asks \ {a}) \cup {b} /\ b.for = a.for /\ b.do = "status"
          /\ b.own = a.own /\ b.got = "unread"
    BY <1>2, <1>3, <1>4, AskGoesOn DEF Requests, GoesOnListing
  <2>2. AskOK(b)' /\ Returns(b)
    BY <1>3, <1>4, <2>1 DEF AskOK, Returns
  <2>3. QED
    BY <1>1, <1>2, <1>3, <2>1, <2>2, MovesKeep
<1>5. CASE ~(a.do = "list" /\ a.for = "remove")
  <2>1. asks' = asks \ {a}
    BY <1>2, <1>5 DEF GoesOnListing
  <2>2. a.own /\ a.for = "scan" => ~scanning' \/ silent'
    BY <1>2, <1>3 DEF AskOK
  <2>3. QED
    BY <1>1, <1>2, <1>3, <2>1, <2>2, DoneKeeps
<1>6. QED
  BY <1>4, <1>5

\* The dashboard: the handlers of the wizard are gone.
LEMMA DashboardKeeps ==
  ASSUME SetupInv, page = "dashboard", Next, UNCHANGED setupVars
  PROVE  SetupInv'
<1>1. UNCHANGED <<page, libs, step, attached, scanning, silent, asks, lost>>
  BY DEF setupVars, cardVars
<1>2. IInv'
  BY ScanStep DEF SetupInv
<1>3. asks' = {} /\ PageOK'
  BY <1>1 DEF SetupInv, PageOK
<1>4. ScanButtonIsExplained' /\ CardIsComingBack'
  BY <1>1 DEF SetupInv, ScanButtonIsExplained, CardIsComingBack
<1>5. QED
  BY <1>2, <1>3, <1>4 DEF SetupInv

LEMMA SetupStarts == SetupInit => SetupInv
<1> SUFFICES ASSUME SetupInit PROVE SetupInv
  OBVIOUS
<1> DEFINE load == Ask("load", "status", None)
<1>1. /\ load \in Asks
      /\ load.for = "load" /\ load.do = "status" /\ load.of = None
      /\ load.own = TRUE /\ load.got = "unread"
  BY DEF Ask, Asks, Gots, Handlers, Requests
<1>2. asks = {load}
  BY DEF SetupInit
<1> HIDE DEF load
<1>3. IInv
  BY ScanInit DEF SetupInit
<1>4. PageOK
  BY DEF SetupInit, Init, PageOK
<1>5. \A a \in asks : AskOK(a)
  BY <1>1, <1>2 DEF AskOK
<1>6. ScanButtonIsExplained /\ CardIsComingBack
  BY <1>1, <1>2 DEF SetupInit, ScanButtonIsExplained, CardIsComingBack
<1>7. QED
  BY <1>1, <1>2, <1>3, <1>4, <1>5, <1>6 DEF SetupInv

LEMMA SetupStep == SetupInv /\ [SetupNext]_<<vars, setupVars>> => SetupInv'
<1> SUFFICES ASSUME SetupInv, [SetupNext]_<<vars, setupVars>> PROVE SetupInv'
  OBVIOUS
<1>1. CASE page = "setup" /\ Wizard
  BY <1>1, ServerKeeps, ScansKeep, ClicksKeep, AnswersKeep, FailureKeeps, VisitKeeps
  DEF Wizard, Leave
<1>2. CASE page = "dashboard" /\ Next /\ UNCHANGED setupVars
  BY <1>2, DashboardKeeps
<1>3. CASE UNCHANGED <<vars, setupVars>>
  <2>1. /\ UNCHANGED <<page, libs, step, attached, scanning, silent, asks, lost>>
        /\ UNCHANGED <<job, watch>> /\ IInv'
    BY <1>3, ScanStep DEF setupVars, cardVars, vars, SetupInv
  <2>2. \A a \in asks : AskOK(a)'
    BY <2>1 DEF SetupInv, AskOK
  <2>3. QED
    BY <2>1, <2>2 DEF SetupInv, PageOK, ScanButtonIsExplained, CardIsComingBack
<1>4. QED
  BY <1>1, <1>2, <1>3 DEF SetupNext

\* The inductive invariant of the wizard with the dashboard behind it.
THEOREM WizardInvariant == SetupSpec => []SetupInv
BY SetupStarts, SetupStep, PTL DEF SetupSpec

\* However clicks, answers, failures and reloads interleave on /setup: a button that says
\* SCANNING is waited for by the handler that will enable it again.
THEOREM TheScanButtonComesBack == SetupSpec => []ScanButtonIsExplained
<1>1. SetupInv => ScanButtonIsExplained
  BY DEF SetupInv
<1>2. QED
  BY <1>1, WizardInvariant, PTL

\* Whatever libraries are attached and removed meanwhile, the card of the first scan does
\* not stay without one, unless a request failed or two answers overtook each other.
THEOREM TheScanCardHasLibraries == SetupSpec => []ScanCardHasLibraries
<1>1. SetupInv => ScanCardHasLibraries
  BY DEF SetupInv, ScanCardHasLibraries, CardIsComingBack
<1>2. QED
  BY <1>1, WizardInvariant, PTL

\* The promises of the readout hold as well for a dashboard that the wizard has led to.
THEOREM TheReadoutAfterTheWizard == SetupSpec => [](RunningIsExplained /\ EndIsUnderWay)
<1>1. SetupInv => RunningIsExplained /\ EndIsUnderWay
  BY DEF SetupInv, IInv
<1>2. QED
  BY <1>1, WizardInvariant, PTL

=============================================================================
