--------------------------- MODULE ExtensionJobs ---------------------------
(***************************************************************************)
(* The service worker of the Chrome extension: videos made through the     *)
(* cloud account (cloud.js), the jobs and downloads it keeps in            *)
(* chrome.storage, and Chrome's download manager (background.js).          *)
(*                                                                         *)
(* Every await is a point where another click, an alarm, a download event  *)
(* or the end of the worker may come; what a step read before it is what   *)
(* it goes on with.  Chrome may stop the worker at any time: its maps and  *)
(* loops are gone, the storage and the downloads stay.                     *)
(***************************************************************************)
EXTENDS Naturals, Sequences

CONSTANTS
  Clips,    \* a song with a section and a duration
  SongOf,   \* the song a clip is of
  NoClip,   \* the clip of a record that is not there
  MaxAsks,  \* bound on the clicks on Create, Resume and Retry
  MaxJobs,  \* bound on the request ids drawn
  MaxFiles, \* bound on the downloads started
  MaxAlarms, \* bound on the alarms
  MaxDeaths \* bound on the ends of the worker

Ids == 1..MaxJobs
Files == 1..MaxFiles
Sweeps == 1..MaxAlarms
NoFile == 0
NoId == 0
Doors == {"page", "popup"}    \* where an order comes from: its key in activeSubmissions

VARIABLES
  store,   \* videoJobs, by request id
  records, \* downloads, by the id Chrome gave
  items,   \* what Chrome downloads, and for which request
  news,    \* downloads.onChanged events not yet handled
  drawn,   \* request ids drawn
  orders,  \* activeSubmissions: submitVideo of a door and a clip
  loop,    \* FoveaCloud.active: the step loop of a request
  again,   \* RETRY_DOWNLOADs under way, by the download each has started
  sweep,   \* runs of reconcileJobs: what is left of what each has read
  asks,    \* clicks so far
  alarms,  \* alarms so far
  deaths,  \* ends of the worker so far
  orphans  \* history: downloads the worker was killed over

durable == <<store, records, drawn>>
chrome == <<items, news>>
memory == <<orders, loop, again, sweep>>
counts == <<asks, alarms, deaths, orphans>>
vars == <<durable, chrome, memory, counts>>

NoTask == <<"none", "none">>
SongTask(c) == <<"song", SongOf[c]>>   \* songTaskId
RenderTask(i) == <<"render", i>>       \* exportId
TaskIds == {NoTask} \cup {SongTask(c) : c \in Clips} \cup {RenderTask(i) : i \in Ids}

Live == {"working", "downloading", "download_failed"}
Fetched == {"downloaded", "download_failed"}
\* working is submitting, pending, running or completed; failed is also interrupted.
Status == Live \cup {"none", "downloaded", "failed"}

JobType == [clip : Clips \cup {NoClip}, status : Status, task : TaskIds,
            file : {NoFile} \cup Files, cloud : BOOLEAN]
Absent == [clip |-> NoClip, status |-> "none", task |-> NoTask,
           file |-> NoFile, cloud |-> FALSE]
New(c) == [Absent EXCEPT !.clip = c, !.status = "working"]

Over == {"complete", "interrupted"}
NoRecord == [state |-> "none", task |-> NoTask]
NoOrder == [at |-> "none", id |-> NoId, job |-> Absent]
NoLoop == [at |-> "none", job |-> Absent, once |-> FALSE, file |-> NoFile]
NoRetry == [at |-> "none", task |-> NoTask]
Rest == [files |-> {}, jobs |-> {}, at |-> NoId]

Stages == {"aligning", "encoding", "saving", "posting", "rendering",
           "fetching", "tracking", "searching", "marking"}

TypeOK ==
  /\ store \in [Ids -> JobType]
  /\ records \in [Files -> [state : {"none", "in_progress"} \cup Over, task : TaskIds]]
  /\ items \in Seq([state : {"in_progress"} \cup Over, id : Ids]) /\ Len(items) <= MaxFiles
  /\ news \subseteq Files /\ orphans \subseteq Files
  /\ drawn \in 0..MaxJobs /\ asks \in 0..MaxAsks /\ alarms \in 0..MaxAlarms /\ deaths \in 0..MaxDeaths
  /\ orders \in [Doors \X Clips -> [at : {"none", "checking", "saving", "publishing", "waiting"},
                                    id : {NoId} \cup Ids, job : JobType]]
  /\ loop \in [Ids -> [at : {"none"} \cup Stages, job : JobType, once : BOOLEAN,
                       file : {NoFile} \cup Files]]
  /\ again \in [Files -> [at : {"none"} \cup Stages, task : TaskIds]]
  /\ DOMAIN sweep = Sweeps
  /\ \A a \in Sweeps : /\ sweep[a].files \subseteq Files /\ sweep[a].at \in {NoId} \cup Ids
                       /\ \A e \in sweep[a].jobs : e \in [id : Ids, job : JobType]

Init ==
  /\ store = [i \in Ids |-> Absent] /\ records = [f \in Files |-> NoRecord]
  /\ items = <<>> /\ news = {} /\ drawn = 0
  /\ orders = [o \in Doors \X Clips |-> NoOrder] /\ loop = [i \in Ids |-> NoLoop]
  /\ again = [f \in Files |-> NoRetry] /\ sweep = [a \in Sweeps |-> Rest]
  /\ asks = 0 /\ alarms = 0 /\ deaths = 0 /\ orphans = {}

-----------------------------------------------------------------------------
(* The two lists in storage; storageQueue lets one change at a time.       *)

\* saveJob: the record replaces those of its request and of its task.
Saved(i, job) ==
  [k \in Ids |-> IF k = i THEN job
                 ELSE IF job.task # NoTask /\ store[k].task = job.task THEN Absent ELSE store[k]]

\* updateDownload, for a download that is over: nothing when it is not recorded.
Reported(f) ==
  IF records[f].state = "none" THEN records
  ELSE [records EXCEPT ![f].state = items[f].state]
Settled(f) ==
  IF records[f].state = "none" \/ records[f].task = NoTask THEN store
  ELSE [k \in Ids |-> IF store[k].task # records[f].task THEN store[k]
         ELSE [store[k] EXCEPT !.file = f, !.status = IF items[f].state = "complete"
                                                      THEN "downloaded" ELSE "download_failed"]]

\* trackDownload: the record, then a look at what has become of the download.
Tracked(f, task) == [records EXCEPT ![f] = [state |-> "in_progress", task |-> task]]

\* Slip: a download that has just been started is under way.
LooksAway(f) == UNCHANGED <<records, store>>
Looks(f) ==
  IF items[f].state \in Over THEN records' = Reported(f) /\ store' = Settled(f)
  ELSE UNCHANGED <<records, store>>

\* The end of download: the job is downloading, unless the file is already there.
Marked(f, task) ==
  [k \in Ids |-> IF store[k].task = task
                 THEN [store[k] EXCEPT !.file = f,
                                       !.status = IF @ \in Fetched THEN @ ELSE "downloading"]
                 ELSE store[k]]

Begin(i) == Len(items) < MaxFiles /\ items' = Append(items, [state |-> "in_progress", id |-> i])
Started == Len(items) + 1

-----------------------------------------------------------------------------
(* Chrome.                                                                 *)

FileEnds(f, outcome) ==
  /\ f \in DOMAIN items /\ items[f].state = "in_progress"
  /\ items' = [items EXCEPT ![f].state = outcome]
  /\ news' = news \cup {f}
  /\ UNCHANGED <<durable, memory, counts>>

\* The event; Chrome wakes a sleeping worker for it.
Hear(f) ==
  /\ f \in news /\ news' = news \ {f}
  /\ records' = Reported(f) /\ store' = Settled(f)
  /\ UNCHANGED <<items, drawn, memory, counts>>

\* What a handler that is killed had in its hands.
InHand == {loop[i].file : i \in Ids} \cup {f \in Files : again[f].at # "none"}

\* The worker stops; torn, it was between the two lists of updateDownload.
Die(torn) ==
  /\ deaths < MaxDeaths /\ deaths' = deaths + 1
  /\ torn \subseteq news /\ news' = news \ torn
  /\ orphans' = (orphans \cup torn \cup InHand) \ {NoFile}
  /\ records' = [f \in Files |-> IF f \in torn THEN Reported(f)[f] ELSE records[f]]
  /\ orders' = [o \in Doors \X Clips |-> NoOrder] /\ loop' = [i \in Ids |-> NoLoop]
  /\ again' = [f \in Files |-> NoRetry] /\ sweep' = [a \in Sweeps |-> Rest]
  /\ UNCHANGED <<store, drawn, items, asks, alarms>>

-----------------------------------------------------------------------------
(* finish and the loop of step.                                            *)

\* Where a round begins; a download of an earlier one that is still good is enough.
Good(job) == job.file # NoFile /\ items[job.file].state # "interrupted"
Entry(i, job) == IF job.task = RenderTask(i) THEN "rendering" ELSE "aligning"

\* finish joins the loop of the request, or starts one with this copy.
Idle(i) == loop[i].at = "none"
Done(i, job) == Idle(i) /\ Good(job)
WithLoop(i, job, once) ==
  IF ~Idle(i) \/ Good(job) THEN loop
  ELSE [loop EXCEPT ![i] = [at |-> Entry(i, job), job |-> job, once |-> once, file |-> NoFile]]

Goes(i, at, job) ==
  /\ loop' = [loop EXCEPT ![i].at = at, ![i].job = job]
  /\ UNCHANGED <<orders, sweep>>

\* The promise settles: the order and the sweeps that waited for it go on.
Ends(i) ==
  /\ loop' = [loop EXCEPT ![i] = NoLoop]
  /\ orders' = [o \in Doors \X Clips |->
                  IF orders[o].at = "waiting" /\ orders[o].id = i THEN NoOrder ELSE orders[o]]
  /\ sweep' = [a \in Sweeps |-> IF sweep[a].at = i THEN [sweep[a] EXCEPT !.at = NoId] ELSE sweep[a]]

\* return {pending} when asked once, else the next round.
Rounds(i, job) == IF loop[i].once THEN Ends(i) ELSE Goes(i, Entry(i, job), job)

AtWork(i) == [loop[i].job EXCEPT !.status = "working"]

\* The song is still being aligned.
AlignWaits(i) ==
  LET job == AtWork(i) IN
  /\ loop[i].at = "aligning"
  /\ store' = Saved(i, job) /\ Rounds(i, job)
  /\ UNCHANGED <<records, drawn, chrome, again, counts>>

\* It is aligned: encode here, or have it rendered.
Aligned(i) ==
  /\ loop[i].at = "aligning"
  /\ \E at \in {"posting"} \cup (IF loop[i].job.cloud THEN {} ELSE {"encoding"}) :
       Goes(i, at, loop[i].job)
  /\ UNCHANGED <<durable, chrome, again, counts>>

\* exportWebCodecs: the video is made and its download begins.
Encode(i) ==
  /\ loop[i].at = "encoding" /\ Begin(i)
  /\ loop' = [loop EXCEPT ![i].at = "saving", ![i].file = Started]
  /\ UNCHANGED <<durable, news, orders, again, sweep, counts>>

EncodeFails(i) ==
  LET job == [loop[i].job EXCEPT !.cloud = TRUE] IN
  /\ loop[i].at = "encoding"
  /\ store' = Saved(i, job) /\ Goes(i, "posting", job)
  /\ UNCHANGED <<records, drawn, chrome, again, counts>>

SaveEncoded(i) ==
  LET job == [loop[i].job EXCEPT !.file = loop[i].file, !.task = SongTask(loop[i].job.clip),
                                 !.status = "working"]
  IN
  /\ loop[i].at = "saving"
  /\ store' = Saved(i, job) /\ Goes(i, "tracking", job)
  /\ UNCHANGED <<records, drawn, chrome, again, counts>>

\* The request id makes a repeated order the same render.
Post(i) ==
  LET job == [AtWork(i) EXCEPT !.task = RenderTask(i)] IN
  /\ loop[i].at = "posting"
  /\ store' = Saved(i, job) /\ Goes(i, "rendering", job)
  /\ UNCHANGED <<records, drawn, chrome, again, counts>>

RenderWaits(i) ==
  LET job == AtWork(i) IN
  /\ loop[i].at = "rendering"
  /\ store' = Saved(i, job) /\ Rounds(i, job)
  /\ UNCHANGED <<records, drawn, chrome, again, counts>>

Rendered(i) ==
  LET job == AtWork(i) IN
  /\ loop[i].at = "rendering"
  /\ store' = Saved(i, job) /\ Goes(i, "fetching", job)
  /\ UNCHANGED <<records, drawn, chrome, again, counts>>

\* download, once the account is confirmed.
Fetch(i) ==
  /\ loop[i].at = "fetching" /\ Begin(i)
  /\ loop' = [loop EXCEPT ![i].at = "tracking", ![i].file = Started]
  /\ UNCHANGED <<durable, news, orders, again, sweep, counts>>

Track(i) ==
  /\ loop[i].at = "tracking"
  /\ records' = Tracked(loop[i].file, loop[i].job.task)
  /\ loop' = [loop EXCEPT ![i].at = "searching"]
  /\ UNCHANGED <<store, drawn, chrome, orders, again, sweep, counts>>

\* An encoded video is done; the rendered one is marked.
Search(i) ==
  /\ loop[i].at = "searching"
  /\ Looks(loop[i].file)
  /\ IF loop[i].job.task = RenderTask(i) THEN Goes(i, "marking", loop[i].job) ELSE Ends(i)
  /\ UNCHANGED <<drawn, chrome, again, counts>>

Mark(i) ==
  /\ loop[i].at = "marking"
  /\ store' = Marked(loop[i].file, loop[i].job.task)
  /\ Ends(i)
  /\ UNCHANGED <<records, drawn, chrome, again, counts>>

AtServer(i) == loop[i].at \in {"aligning", "posting", "rendering", "fetching"}

\* Connection interrupted, or a busy server.
Trouble(i) ==
  /\ AtServer(i) /\ Rounds(i, loop[i].job)
  /\ UNCHANGED <<durable, chrome, again, counts>>

\* The account does not fit, or twenty minutes are over: nothing is saved.
GiveUp(i) ==
  /\ AtServer(i)
  /\ Ends(i)
  /\ UNCHANGED <<durable, chrome, again, counts>>

\* The server refuses, or the job has failed there.
Fails(i) ==
  /\ AtServer(i)
  /\ store' = Saved(i, [loop[i].job EXCEPT !.status = "failed"])
  /\ Ends(i)
  /\ UNCHANGED <<records, drawn, chrome, again, counts>>

-----------------------------------------------------------------------------
(* Orders: exportVideoAndDownload, which joins one under way, and start.   *)

Place(o) ==
  orders' = IF orders[o].at = "none" THEN [orders EXCEPT ![o].at = "checking"] ELSE orders

Order(c) ==
  /\ asks < MaxAsks /\ asks' = asks + 1
  /\ Place(<<"page", c>>)
  /\ UNCHANGED <<durable, chrome, loop, again, sweep, alarms, deaths, orphans>>

\* The account is confirmed; videoJobs is read.
Read(o) ==
  LET c == o[2]
      found == {i \in Ids : store[i].clip = c /\ store[i].status \in Live}
  IN
  /\ orders[o].at = "checking"
  /\ \/ \E i \in found :
          /\ orders' = [orders EXCEPT ![o] = [at |-> "publishing", id |-> i, job |-> store[i]]]
          /\ UNCHANGED drawn
     \/ /\ found = {} /\ drawn < MaxJobs /\ drawn' = drawn + 1
        /\ orders' = [orders EXCEPT ![o] = [at |-> "saving", id |-> drawn', job |-> New(c)]]
  /\ UNCHANGED <<store, records, chrome, loop, again, sweep, counts>>

SaveNew(o) ==
  /\ orders[o].at = "saving"
  /\ store' = Saved(orders[o].id, orders[o].job)
  /\ orders' = [orders EXCEPT ![o].at = "publishing"]
  /\ UNCHANGED <<records, drawn, chrome, loop, again, sweep, counts>>

\* The song is published: finish.
Published(o) ==
  /\ orders[o].at = "publishing"
  /\ loop' = WithLoop(orders[o].id, orders[o].job, FALSE)
  /\ orders' = [orders EXCEPT ![o] = IF Done(@.id, @.job) THEN NoOrder ELSE [at |-> "waiting", id |-> orders[o].id, job |-> Absent]]
  /\ UNCHANGED <<durable, chrome, again, sweep, counts>>

\* Any error before that: the job, if there is one, stays as it is.
Refused(o) ==
  /\ orders[o].at \in {"checking", "publishing"}
  /\ orders' = [orders EXCEPT ![o] = NoOrder]
  /\ UNCHANGED <<durable, chrome, loop, again, sweep, counts>>

\* RESUME_VIDEO_JOB, for a job of the popup's list.
Resume(i) ==
  /\ asks < MaxAsks /\ asks' = asks + 1
  /\ store[i].status # "none"
  /\ IF store[i].task = NoTask THEN Place(<<"popup", store[i].clip>>) /\ UNCHANGED loop
     ELSE loop' = WithLoop(i, store[i], FALSE) /\ UNCHANGED orders
  /\ UNCHANGED <<durable, chrome, again, sweep, alarms, deaths, orphans>>

\* RETRY_DOWNLOAD: a rendered video is fetched again; an encoded one has no
\* path on the server.
Retry(f) ==
  /\ asks < MaxAsks /\ asks' = asks + 1
  /\ records[f].state = "interrupted"
  /\ records[f].task \in {RenderTask(i) : i \in Ids}
  /\ Begin(items[f].id)
  /\ again' = [again EXCEPT ![Started] = [at |-> "tracking", task |-> records[f].task]]
  /\ UNCHANGED <<durable, news, orders, loop, sweep, alarms, deaths, orphans>>

RetryTrack(f) ==
  /\ again[f].at = "tracking" /\ again' = [again EXCEPT ![f].at = "searching"]
  /\ records' = Tracked(f, again[f].task)
  /\ UNCHANGED <<store, drawn, chrome, orders, loop, sweep, counts>>

RetrySearch(f) ==
  /\ again[f].at = "searching" /\ again' = [again EXCEPT ![f].at = "marking"]
  /\ Looks(f)
  /\ UNCHANGED <<drawn, chrome, orders, loop, sweep, counts>>

RetryMark(f) ==
  /\ again[f].at = "marking" /\ again' = [again EXCEPT ![f] = NoRetry]
  /\ store' = Marked(f, again[f].task)
  /\ UNCHANGED <<records, drawn, chrome, orders, loop, sweep, counts>>

-----------------------------------------------------------------------------
(* reconcileJobs: an alarm reads both lists once and works through them,   *)
(* whether or not an earlier one is still doing so.                        *)

Alarm ==
  LET read == [files |-> {f \in Files : records[f].state = "in_progress"},
               jobs |-> {[id |-> i, job |-> store[i]] : i \in {k \in Ids : store[k].status = "working"}},
               at |-> NoId]
  IN
  /\ alarms < MaxAlarms /\ alarms' = alarms + 1
  /\ read # Rest /\ sweep' = [sweep EXCEPT ![alarms'] = read]
  /\ UNCHANGED <<durable, chrome, orders, loop, again, asks, deaths, orphans>>

SweepFile(a, f) ==
  /\ f \in sweep[a].files /\ sweep' = [sweep EXCEPT ![a].files = @ \ {f}]
  /\ Looks(f)
  /\ UNCHANGED <<drawn, chrome, orders, loop, again, counts>>

SweepJob(a, entry) ==
  /\ sweep[a].files = {} /\ sweep[a].at = NoId /\ entry \in sweep[a].jobs
  /\ sweep' = [sweep EXCEPT ![a].jobs = @ \ {entry},
                            ![a].at = IF Done(entry.id, entry.job) THEN NoId ELSE entry.id]
  /\ loop' = WithLoop(entry.id, entry.job, TRUE)
  /\ UNCHANGED <<durable, chrome, orders, again, counts>>

-----------------------------------------------------------------------------
LoopStep(i) ==
  \/ AlignWaits(i) \/ Aligned(i) \/ Encode(i) \/ EncodeFails(i)
  \/ SaveEncoded(i) \/ Post(i) \/ RenderWaits(i) \/ Rendered(i) \/ Fetch(i)
  \/ Track(i) \/ Search(i) \/ Mark(i) \/ Trouble(i) \/ GiveUp(i) \/ Fails(i)

OrderStep(o) == Read(o) \/ SaveNew(o) \/ Published(o) \/ Refused(o)

Next ==
  \/ \E f \in Files, outcome \in Over : FileEnds(f, outcome)
  \/ \E f \in Files : Hear(f) \/ Retry(f) \/ RetryTrack(f) \/ RetrySearch(f) \/ RetryMark(f)
  \/ \E torn \in SUBSET news : Die(torn)
  \/ \E i \in Ids : LoopStep(i) \/ Resume(i)
  \/ \E c \in Clips : Order(c)
  \/ \E o \in Doors \X Clips : OrderStep(o)
  \/ Alarm
  \/ \E a \in Sweeps, f \in Files : SweepFile(a, f)
  \/ \E a \in Sweeps : \E entry \in sweep[a].jobs : SweepJob(a, entry)

Spec == Init /\ [][Next]_vars

-----------------------------------------------------------------------------
(* Properties.                                                             *)

Ended(f) == f \in DOMAIN items /\ items[f].state \in Over

\* Somebody is about to look at the download, or was killed over it.
InSight(f) ==
  f \in news \cup orphans \/ (\E i \in Ids : loop[i].file = f) \/ again[f].at # "none"

\* The list of downloads: one that is over is recorded as it ended, whichever
\* of its record and its event came first (trackDownload, updateDownload).
RecordsAreCorrected ==
  \A f \in Files : records[f].state # "none" /\ Ended(f) /\ ~InSight(f)
                     => records[f].state = items[f].state

\* The test of concurrent submissions says that no video is downloaded twice:
\* another download of a request follows one that was interrupted (finish,
\* reconcileJobs).
DownloadedOnce ==
  \A f, g \in DOMAIN items :
    f < g /\ items[f].id = items[g].id => items[f].state = "interrupted"
=============================================================================
