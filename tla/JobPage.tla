-------------------------------- MODULE JobPage --------------------------------
(***************************************************************************)
(* A job's progress page (apps/workspace/src/pages/JobProgress.tsx), the   *)
(* stream of its revisions and the requests beside it                      *)
(* (workspace/api/routes_jobs.py).  The browser's EventSource asks again   *)
(* when the stream ends or breaks off, with the id of the last event, and  *)
(* never again after an answer other than a success.                       *)
(*                                                                         *)
(* Jobs 1 and 2 are of one run: the second is the retry of the first.  A   *)
(* record changes as JobRecords allows.  The first is found half way, the  *)
(* second from its start on.                                               *)
(***************************************************************************)
EXTENDS OwnerSessions, JobRecords, Integers

CONSTANTS
  MaxPolls,     \* polls of one stream (150)
  MaxBreaks,    \* bound: connections that break off
  MaxRequests,  \* bound: requests of the page under way at once
  MaxRevision   \* bound: the revision in which the second job ends

VARIABLES
  job,      \* [1..2 -> record]
  page,     \* the job of its address, what it shows, are its buttons off, and did an answer
            \* about another job come
  events,   \* its EventSource: where it is, and the id of the last event it got
  stream,   \* the server's side: the revision it last sent, and its polls
  wire,     \* events on their way
  replies,  \* requests beside the stream: what they are, and the answer once there is one
  breaks

pageVars == <<job, page, events, stream, wire, replies, breaks>>

NoJob == [QueuedRecord("r") EXCEPT !.state = "NONE"]
Blank == [job |-> 0, revision |-> -1, state |-> "NONE", cancel_requested |-> FALSE]
Ended == [open |-> FALSE, current |-> -1, polls |-> 0]

PageInit ==
  /\ job = <<[QueuedRecord("r") EXCEPT !.state = "WRITING_ARTIFACT", !.revision = 4], NoJob>>
  /\ page = [url |-> 0, shown |-> Blank, busy |-> FALSE, mixed |-> FALSE]
  /\ events = [at |-> "closed", last |-> -1]
  /\ stream = Ended
  /\ wire = <<>>
  /\ replies = {}
  /\ breaks = 0

Exists(j) == job[j].state \notin NoRecord
Summary(j) == [job |-> j, revision |-> job[j].revision, state |-> job[j].state,
               cancel_requested |-> job[j].cancel_requested]
Terminal(summary) == summary.state \in TerminalStates

\* find_job_record lists every job: it fails while the directory of one has no record yet.
Found(j) == Exists(j) /\ \A k \in 1..2 : job[k].state # "TORN"

-----------------------------------------------------------------------------
(* The jobs *)

\* The worker's and the recovery's updates; what a job's failure says is left out.
Work ==
  /\ \E j \in 1..2, next \in JobStates :
       LET error == IF next \in {"FAILED", "INTERRUPTED"} THEN "WORKER_ERROR" ELSE NoError
       IN  /\ Exists(j)
           /\ j = 2 /\ job[2].revision >= MaxRevision => next \in TerminalStates
           /\ UpdateAllowed(job[j], job[j].revision, next, FALSE, error)
           /\ job' = [job EXCEPT ![j] = Updated(@, next, FALSE, NoError)]
  /\ UNCHANGED <<page, events, stream, wire, replies, breaks>>

\* The record of the retried job follows its directory.
LinkRecord ==
  /\ job[2].state = "TORN"
  /\ job' = [job EXCEPT ![2] = QueuedRecord("r")]
  /\ UNCHANGED <<page, events, stream, wire, replies, breaks>>

-----------------------------------------------------------------------------
(* Requests beside the stream *)

\* refresh(): one that fails, as one beyond the bound does here, changes nothing that is shown.
Asking(requests, j) ==
  IF Cardinality(requests) < MaxRequests
    THEN requests \cup {[what |-> "get", job |-> j, is |-> "sent", reply |-> Blank]} ELSE requests
MayAsk == Cardinality(replies) < MaxRequests

\* What is shown gives way to what arrives unless it is a newer revision of the same job.
SlipNewer(shown, summary) == FALSE      \* whatever arrives last is shown
Newer(shown, summary) == shown.job = summary.job /\ shown.revision > summary.revision
Show(summary) == IF Newer(page.shown, summary) THEN page.shown ELSE summary

Answered(r, kept, reply) ==
  (replies \ {r}) \cup {[what |-> r.what, job |-> r.job, is |-> IF kept THEN "answered" ELSE "refused",
                         reply |-> IF kept THEN reply ELSE Blank]}

Serve(r, kept) ==
  /\ r.is = "sent"
  /\ replies' = Answered(r, kept, Summary(r.job))
  /\ UNCHANGED <<page, events, stream, wire, breaks>>

ServeGet ==
  \E r \in replies :
    /\ r.what = "get"
    /\ Serve(r, sessions # {} /\ Found(r.job))
    /\ UNCHANGED job

ReplyArrives ==
  \E r \in replies :
    /\ r.what \in {"get", "cancel"} /\ r.is # "sent"
    /\ replies' = replies \ {r}
    /\ page' = [page EXCEPT !.shown = IF r.is = "answered" THEN Show(r.reply) ELSE @,
                            !.busy = IF r.what = "cancel" THEN FALSE ELSE @,
                            !.mixed = @ \/ (r.is = "answered" /\ r.job # page.url)]
    /\ UNCHANGED <<job, events, stream, wire, breaks>>

Refresh ==
  /\ page.url # 0 /\ MayAsk
  /\ replies' = Asking(replies, page.url)
  /\ UNCHANGED <<job, page, events, stream, wire, breaks>>

\* The buttons are of the job that is shown, and ask about the one of the address.
Press(what) ==
  /\ ~page.busy /\ MayAsk
  /\ page.shown.job # 0
  /\ page' = [page EXCEPT !.busy = TRUE]
  /\ replies' = replies \cup {[what |-> what, job |-> page.url, is |-> "sent", reply |-> Blank]}
  /\ UNCHANGED <<job, events, stream, wire, breaks>>

PressCancel == ~Terminal(page.shown) /\ ~page.shown.cancel_requested /\ Press("cancel")
PressRetry == page.shown.state \in {"FAILED", "INTERRUPTED", "CANCELLED"} /\ Press("retry")

\* request_cancel: a queued job is cancelled at once, an active one is asked to stop, and one
\* that has ended is answered as it is.
ServeCancel ==
  \E r \in replies :
    LET j    == r.job
        next == IF job[j].state = "QUEUED" THEN "CANCELLED" ELSE Same
        now  == Updated(job[j], next, TRUE, NoError)
        may  == UpdateAllowed(job[j], job[j].revision, next, TRUE, NoError)
        kept == sessions # {} /\ Found(j)
    IN  /\ r.what = "cancel" /\ r.is = "sent"
        /\ job' = IF kept /\ may THEN [job EXCEPT ![j] = now] ELSE job
        /\ replies' = Answered(r, kept,
             IF may THEN [job |-> j, revision |-> now.revision, state |-> now.state,
                          cancel_requested |-> now.cancel_requested]
             ELSE Summary(j))
        /\ UNCHANGED <<page, events, stream, wire, breaks>>

\* retry_job: refused where the job may not be retried, or was.
ServeRetry ==
  \E r \in replies :
    LET kept == /\ sessions # {} /\ r.job = 1 /\ Found(1) /\ job[2].state = "NONE"
                /\ job[1].state \in TerminalStates \ {"COMPLETE"}
    IN  /\ r.what = "retry" /\ r.is = "sent"
        /\ job' = IF kept THEN [job EXCEPT ![2].state = "TORN"] ELSE job
        /\ replies' = Answered(r, kept, Blank)
        /\ UNCHANGED <<page, events, stream, wire, breaks>>

\* The page goes to the new job once it is there: its EventSource is closed and another opened,
\* what it shows stays until something arrives, and its buttons stay off.
Open(url) ==
  /\ page' = [page EXCEPT !.url = url]
  /\ events' = [at |-> "connecting", last |-> -1]
  /\ stream' = Ended
  /\ wire' = <<>>

RetryArrives ==
  \E r \in replies :
    /\ r.what = "retry"
    /\ \/ r.is = "refused" /\ replies' = replies \ {r}
          /\ page' = [page EXCEPT !.busy = FALSE] /\ UNCHANGED <<events, stream, wire>>
       \/ r.is = "answered" /\ Exists(2) /\ replies' = Asking(replies \ {r}, 2) /\ Open(2)
    /\ UNCHANGED <<job, breaks>>

OpenJob ==
  /\ page.url = 0 /\ sessions # {}
  /\ replies' = Asking(replies, 1)
  /\ Open(1)
  /\ UNCHANGED <<job, breaks>>

-----------------------------------------------------------------------------
(* The stream *)

\* A refused request is the EventSource's last; onerror asks for the record beside it.
Connect ==
  /\ events.at = "connecting"
  /\ IF sessions # {} /\ Found(page.url)
       THEN /\ events' = [events EXCEPT !.at = "open"]
            /\ stream' = [open |-> TRUE, current |-> events.last, polls |-> 0]
            /\ UNCHANGED replies
       ELSE /\ events' = [events EXCEPT !.at = "failed"]
            /\ replies' = Asking(replies, page.url)
            /\ UNCHANGED stream
  /\ UNCHANGED <<job, page, wire, breaks>>

SlipPollSends(revision, current) == revision = current + 1    \* no revision is left out
PollSends(revision, current) == revision > current

Poll ==
  /\ stream.open
  /\ LET now   == Summary(page.url)
         sends == PollSends(now.revision, stream.current)
     IN  /\ wire' = IF sends THEN Append(wire, now) ELSE wire
         /\ stream' = [open    |-> ~Terminal(now) /\ stream.polls + 1 < MaxPolls,
                       current |-> IF sends THEN now.revision ELSE stream.current,
                       polls   |-> stream.polls + 1]
  /\ UNCHANGED <<job, page, events, replies, breaks>>

\* An event is shown; the last one closes the EventSource, with whatever is on its way.
Deliver ==
  /\ events.at = "open" /\ wire # <<>>
  /\ LET event == Head(wire)
     IN  /\ page' = [page EXCEPT !.shown = Show(event)]
         /\ events' = [at |-> IF Terminal(event) THEN "closed" ELSE "open", last |-> event.revision]
         /\ wire' = IF Terminal(event) THEN <<>> ELSE Tail(wire)
         /\ stream' = IF Terminal(event) THEN Ended ELSE stream
  /\ UNCHANGED <<job, replies, breaks>>

Lose(requests) ==
  /\ events' = [events EXCEPT !.at = "connecting"]
  /\ replies' = Asking(requests, page.url)
  /\ stream' = Ended
  /\ wire' = <<>>

\* The stream ends after its polls; the browser asks for it again.
StreamEnds ==
  /\ events.at = "open" /\ ~stream.open /\ wire = <<>>
  /\ Lose(replies)
  /\ UNCHANGED <<job, page, breaks>>

Break ==
  /\ events.at = "open" /\ breaks < MaxBreaks
  /\ breaks' = breaks + 1
  /\ Lose(replies)
  /\ UNCHANGED <<job, page>>

\* The process dies and another starts: requests under way fail, active jobs are interrupted, and
\* the page is let in no more.
PageDies ==
  /\ NextStart
  /\ page.url # 0 /\ \A j \in 1..2 : job[j].state # "TORN"
  /\ job' = [j \in 1..2 |-> IF job[j].state \in TransientStates
                              THEN Updated(job[j], "INTERRUPTED", FALSE, NoError) ELSE job[j]]
  /\ LET unanswered == {[r EXCEPT !.is = IF @ = "sent" THEN "refused" ELSE @] : r \in replies}
     IN  IF events.at = "open"
           THEN Lose(unanswered)
           ELSE replies' = unanswered /\ UNCHANGED <<events, stream, wire>>
  /\ UNCHANGED <<page, breaks>>

Click == Refresh \/ PressCancel \/ PressRetry \/ OpenJob
Server == ServeGet \/ ServeCancel \/ ServeRetry \/ LinkRecord \/ Poll
Browser == ReplyArrives \/ RetryArrives \/ Connect \/ Deliver \/ StreamEnds

WatchJob == (Work \/ Click \/ Server \/ Browser \/ Break) /\ UNCHANGED sessionVars

-----------------------------------------------------------------------------
\* While the page shows a job, it never goes back to an older revision of it; and no event that
\* a reconnected stream sends repeats or precedes one that the page has got.
StepsForward ==
  /\ page'.shown.job = page.shown.job => page'.shown.revision >= page.shown.revision
  /\ \A k \in DOMAIN wire' : wire'[k].revision > events'.last
  /\ page'.url = page.url => events'.last >= events.last

PageNeverGoesBack == [][StepsForward]_pageVars

\* A job that has ended is shown as it ended, at the end of its stream or of a later one, unless
\* the page went on to another job, an answer about the one before came in between, or the
\* browser was turned away.
Behind == page.url # 0 /\ Terminal(job[page.url])
UpToDate == page.shown = Summary(page.url) \/ page.mixed \/ events.at = "failed"
PageKeepsUp == Behind ~> (~Behind \/ UpToDate)

\* What JobProgress.test.tsx says of the page: a late answer does not overwrite a newer revision
\* of the stream.  It is so until a retry: an answer about the job before comes in between.
LateAnswerOverwritesNothing == page.shown.job = page.url => page.shown.revision >= events.last
=============================================================================
