---------------------------- MODULE ControlPlane ----------------------------
(***************************************************************************)
(* The API process: InMemoryControlPlane (interfaces/api/services.py)      *)
(* behind app.py, the setup sessions of setup_app.py, and the request      *)
(* limiter of browser_security.py.  The handlers are plain functions, so   *)
(* the server runs them in a thread pool: a handler reads, decides and     *)
(* writes shared dictionaries in steps that interleave with the others.    *)
(* Only the limiter, which has no await, runs to its end on the event      *)
(* loop.  A decision id digests the decision it derives from and the       *)
(* proposal: here it is the sequence of proposals accepted so far.  The    *)
(* source revision and the scope of the process never change.              *)
(***************************************************************************)
EXTENDS Naturals, Sequences, FiniteSets

CONSTANTS
    Threads,        \* the thread pool
    Actors,         \* who calls
    ApiItems,       \* items of the workspace
    Limit,          \* requests of an actor in a window
    Window,         \* length of the window
    MaxRequests,    \* bound: requests
    MaxApiNow       \* bound: the clock of the limiter

\* SlidingWindowRateLimiter.allow refuses any other configuration.
ASSUME LimiterOK == Limit \in Nat \ {0} /\ Window \in Nat \ {0}

VARIABLES
    decision,       \* items[i].decision_id
    leases,         \* leases[i], "none" when there is none
    proposals,      \* proposals, as [by, item, base]
    syncJobs,       \* sync_jobs: their ids
    scheduled,      \* history: syncs answered with "persisted"
    completed,      \* history: syncs answered with "completed"
    tokenUsed,      \* SetupSessionManager.token_used
    setupSessions,  \* SetupSessionManager.sessions
    req,            \* the request of each thread
    granted,        \* history: effects a caller was told of
    requests,       \* requests so far
    apiNow,         \* clock of the limiter
    events,         \* the limiter's deque of one actor
    admitted        \* history: times of its admitted requests

apiVars == <<decision, leases, proposals, syncJobs, scheduled, completed, tokenUsed, setupSessions, req,
             granted, requests, apiNow, events, admitted>>

limiterVars == <<apiNow, events, admitted>>

\* What was so at some moment of a request: decisions of its item, no lease on
\* it, the bootstrap token unused. The job is the number of the request or, once a
\* handler has named or looked at one, the id of a sync job.
Nothing == [step |-> "idle", op |-> "none", actor |-> "none", item |-> "none", base |-> << >>,
            by |-> "none", seen |-> {}, free |-> FALSE, unused |-> FALSE, job |-> 0]

ApiInit ==
    /\ decision = [i \in ApiItems |-> << >>]
    /\ leases = [i \in ApiItems |-> "none"]
    /\ proposals = {}
    /\ syncJobs = << >> /\ scheduled = << >> /\ completed = << >>
    /\ tokenUsed = FALSE /\ setupSessions = {}
    /\ req = [t \in Threads |-> Nothing]
    /\ granted = {} /\ requests = 0
    /\ apiNow = 0 /\ events = << >> /\ admitted = << >>

-----------------------------------------------------------------------------
(* Requests come and go. *)

Observe(r, i, d, free, unused) ==
    IF r.step = "idle" THEN r
    ELSE [r EXCEPT !.seen = IF r.item = i THEN @ \cup {d} ELSE @,
                   !.free = @ \/ (r.item = i /\ free),
                   !.unused = @ \/ unused]

\* The decisions of an item that anybody can name.
Named(i) == {<< >>, decision[i]} \cup {p.base : p \in {q \in proposals : q.item = i}}

\* validate_session and scope_middleware let a call through: the caller names the
\* decision it saw, current or not, and an approver the proposal.
Begin(t, op, a, i, base, by) ==
    /\ req[t].step = "idle" /\ requests < MaxRequests
    /\ requests' = requests + 1
    /\ req' = [req EXCEPT ![t] = [Nothing EXCEPT !.step = "start", !.op = op, !.actor = a, !.item = i,
                                                 !.base = base, !.by = by, !.seen = {decision[i]},
                                                 !.free = (leases[i] = "none"), !.unused = ~tokenUsed,
                                                 !.job = requests + 1]]
    /\ UNCHANGED <<decision, leases, proposals, syncJobs, scheduled, completed, tokenUsed, setupSessions, granted>>
    /\ UNCHANGED limiterVars

\* A step of a handler that writes nothing.
Goto(t, step) ==
    /\ req' = [req EXCEPT ![t].step = step]
    /\ UNCHANGED <<decision, leases, proposals, syncJobs, scheduled, completed, tokenUsed, setupSessions,
                   granted, requests>>
    /\ UNCHANGED limiterVars

\* The answer, and what every request under way could have seen of the change.
Answer(t, i) ==
    req' = [u \in Threads |-> IF u = t THEN Nothing
                              ELSE Observe(req[u], i, decision'[i], leases'[i] = "none", ~tokenUsed')]

Granted(t, what) == granted' = granted \cup {[req[t] EXCEPT !.step = what]}

-----------------------------------------------------------------------------
(* Claims and proposals. *)

\* claim, approve_proposal: the decision named is the item's (every item is ready).
CurrentBase(t) == req[t].base = decision[req[t].item]

\* claim: the item and the decision.
ClaimReadItem(t) ==
    /\ req[t].op = "claim" /\ req[t].step = "start"
    /\ Goto(t, IF CurrentBase(t) THEN "lease" ELSE "refuse")

\* claim: an existing lease is a conflict.
ClaimReadLease(t) ==
    /\ req[t].op = "claim" /\ req[t].step = "lease"
    /\ Goto(t, IF leases[req[t].item] = "none" THEN "write" ELSE "refuse")

\* claim: the lease is stored and returned.
ClaimWrite(t) ==
    LET i == req[t].item IN
    /\ req[t].op = "claim" /\ req[t].step = "write"
    /\ leases' = [leases EXCEPT ![i] = req[t].actor]
    /\ Granted(t, "claimed")
    /\ UNCHANGED <<decision, proposals, syncJobs, scheduled, completed, tokenUsed, setupSessions, requests>>
    /\ UNCHANGED limiterVars
    /\ Answer(t, i)

\* create_proposal: the id digests the contents, so the same one is stored once.
CreateProposal(t) ==
    /\ req[t].op = "propose" /\ req[t].step = "start"
    /\ proposals' = proposals \cup {[by |-> req[t].actor, item |-> req[t].item, base |-> req[t].base]}
    /\ req' = [req EXCEPT ![t] = Nothing]
    /\ UNCHANGED <<decision, leases, syncJobs, scheduled, completed, tokenUsed, setupSessions, granted, requests>>
    /\ UNCHANGED limiterVars

\* approve_proposal: proposal, separation of duties, item and staleness.
ApproveCheck(t) ==
    /\ req[t].op = "approve" /\ req[t].step = "start"
    /\ Goto(t, IF /\ [by |-> req[t].by, item |-> req[t].item, base |-> req[t].base] \in proposals
                  /\ req[t].by # req[t].actor
                  /\ CurrentBase(t)
               THEN "write" ELSE "refuse")

\* approve_proposal: the item as it was read, with the new decision.
ApproveWrite(t) ==
    LET i == req[t].item IN
    /\ req[t].op = "approve" /\ req[t].step = "write"
    /\ decision' = [decision EXCEPT ![i] = Append(req[t].base, req[t].by)]
    /\ Granted(t, "accepted")
    /\ UNCHANGED <<leases, proposals, syncJobs, scheduled, completed, tokenUsed, setupSessions, requests>>
    /\ UNCHANGED limiterVars
    /\ Answer(t, i)

Refuse(t) ==
    /\ req[t].step = "refuse"
    /\ req' = [req EXCEPT ![t] = Nothing]
    /\ UNCHANGED <<decision, leases, proposals, syncJobs, scheduled, completed, tokenUsed, setupSessions,
                   granted, requests>>
    /\ UNCHANGED limiterVars

-----------------------------------------------------------------------------
(* Syncs and the worker. *)

\* schedule_sync: the id digests the length of the list, so it is used again when a
\* worker has taken a job or another request reads the same length.
NameSync(t) ==
    /\ req[t].op = "sync" /\ req[t].step = "start"
    /\ req' = [req EXCEPT ![t] = [@ EXCEPT !.step = "append", !.job = Len(syncJobs)]]
    /\ UNCHANGED <<decision, leases, proposals, syncJobs, scheduled, completed, tokenUsed, setupSessions,
                   granted, requests>>
    /\ UNCHANGED limiterVars

\* schedule_sync: the intent is appended and answered with its id.
ScheduleSync(t) ==
    /\ req[t].op = "sync" /\ req[t].step = "append"
    /\ syncJobs' = Append(syncJobs, req[t].job)
    /\ scheduled' = Append(scheduled, req[t].job)
    /\ req' = [req EXCEPT ![t] = Nothing]
    /\ UNCHANGED <<decision, leases, proposals, completed, tokenUsed, setupSessions, granted, requests>>
    /\ UNCHANGED limiterVars

\* worker_once: nothing to do.
WorkerLooks(t) ==
    /\ req[t].op = "work" /\ req[t].step = "start"
    /\ req' = [req EXCEPT ![t] = IF syncJobs = << >> THEN Nothing
                                 ELSE [@ EXCEPT !.step = "pop", !.job = Head(syncJobs)]]
    /\ UNCHANGED <<decision, leases, proposals, syncJobs, scheduled, completed, tokenUsed, setupSessions,
                   granted, requests>>
    /\ UNCHANGED limiterVars

\* The job the worker saw when it looked.
TakenLookedAt(t) == req[t].job

\* pop(0) returns what it removes.
Taken(t) == Head(syncJobs)

\* worker_once: pop(0), which fails if another worker was faster.
WorkerPops(t) ==
    /\ req[t].op = "work" /\ req[t].step = "pop"
    /\ IF syncJobs = << >> THEN UNCHANGED <<syncJobs, completed>>
       ELSE syncJobs' = Tail(syncJobs) /\ completed' = Append(completed, Taken(t))
    /\ req' = [req EXCEPT ![t] = Nothing]
    /\ UNCHANGED <<decision, leases, proposals, scheduled, tokenUsed, setupSessions, granted, requests>>
    /\ UNCHANGED limiterVars

-----------------------------------------------------------------------------
(* Setup sessions. *)

\* SetupSessionManager.exchange: the token is right and not used yet.
ExchangeCheck(t) ==
    /\ req[t].op = "exchange" /\ req[t].step = "start"
    /\ Goto(t, IF tokenUsed THEN "refuse" ELSE "use")

\* SetupSessionManager.exchange: the token is used up and a session opened.
ExchangeUse(t) ==
    /\ req[t].op = "exchange" /\ req[t].step = "use"
    /\ tokenUsed' = TRUE
    /\ setupSessions' = setupSessions \cup {req[t].job}
    /\ Granted(t, "session")
    /\ req' = [req EXCEPT ![t] = Nothing]
    /\ UNCHANGED <<decision, leases, proposals, syncJobs, scheduled, completed, requests>>
    /\ UNCHANGED limiterVars

\* close: authorize, then SetupSessionManager.close.
CloseSession(t) ==
    /\ req[t].op = "close" /\ req[t].step = "start"
    /\ \/ \E s \in setupSessions : setupSessions' = setupSessions \ {s}
       \/ setupSessions = {} /\ UNCHANGED setupSessions
    /\ req' = [req EXCEPT ![t] = Nothing]
    /\ UNCHANGED <<decision, leases, proposals, syncJobs, scheduled, completed, tokenUsed, granted, requests>>
    /\ UNCHANGED limiterVars

-----------------------------------------------------------------------------
(* The limiter. *)

\* SlidingWindowRateLimiter.allow: expired events leave the deque from the left,
\* up to the first that counts.
Counts(k) == events[k] + Window > apiNow

Remaining ==
    LET first == CHOOSE k \in 1..(Len(events) + 1) :
                     /\ \A j \in 1..(k - 1) : ~Counts(j)
                     /\ k <= Len(events) => Counts(k)
    IN  SubSeq(events, first, Len(events))

\* allow, in the hardening middleware.
Allow ==
    /\ Len(admitted) < MaxRequests
    /\ events' = IF Len(Remaining) < Limit THEN Append(Remaining, apiNow) ELSE Remaining
    /\ admitted' = IF Len(Remaining) < Limit THEN Append(admitted, apiNow) ELSE admitted
    /\ UNCHANGED <<decision, leases, proposals, syncJobs, scheduled, completed, tokenUsed, setupSessions, req,
                   granted, requests, apiNow>>

ApiTick ==
    /\ apiNow < MaxApiNow
    /\ apiNow' = apiNow + 1
    /\ UNCHANGED <<decision, leases, proposals, syncJobs, scheduled, completed, tokenUsed, setupSessions, req,
                   granted, requests, events, admitted>>

-----------------------------------------------------------------------------
Handle(t) ==
    \/ ClaimReadItem(t) \/ ClaimReadLease(t) \/ ClaimWrite(t)
    \/ CreateProposal(t) \/ ApproveCheck(t) \/ ApproveWrite(t)
    \/ NameSync(t) \/ ScheduleSync(t) \/ WorkerLooks(t) \/ WorkerPops(t)
    \/ ExchangeCheck(t) \/ ExchangeUse(t) \/ CloseSession(t)
    \/ Refuse(t)

ApiNext(ops) ==
    \E t \in Threads :
        \/ \E op \in ops, a \in Actors, i \in ApiItems : \E base \in Named(i), by \in Actors :
              Begin(t, op, a, i, base, by)
        \/ Handle(t)

LimiterNext == Allow \/ ApiTick

ApiSpec(ops) == ApiInit /\ [][ApiNext(ops) \/ LimiterNext]_apiVars

-----------------------------------------------------------------------------
\* Nobody is granted what was out of reach for the whole of their request: a claim on
\* an item that was leased all the time, a claim or an approval that names a decision
\* the item never had meanwhile, a setup session for a token used before. It is about
\* requests that follow a change; of two claims, approvals or sessions that overlap it
\* says nothing, and both may be granted although docs/domain/work-lease.md has the
\* second of two simultaneous attempts rejected.
NoStaleGrant ==
    \A g \in granted :
        /\ g.step \in {"claimed", "accepted"} => g.base \in g.seen
        /\ g.step = "claimed" => g.free
        /\ g.step = "session" => g.unused

\* The syncs answered with "persisted", in the order of their answers, are the ones
\* completed followed by the ones queued: whichever workers look at the queue at the
\* same time, none is lost, completed twice or overtaken. The ids do not tell them
\* apart for the callers, so no more is claimed than of the list (schedule_sync,
\* worker_once).
SyncsInOrder == completed \o syncJobs = scheduled

\* The limiter keeps its promise for every window, not only for the ones that
\* start with an event: no actor has more than Limit requests in any.
WindowNeverFull ==
    \A k \in DOMAIN admitted :
        Cardinality({j \in 1..k : admitted[j] + Window > admitted[k]}) <= Limit

\* However the thread pool interleaves the handlers: no request is granted what was
\* taken before it began, the list of syncs loses nothing, and the limiter admits no
\* more than it says (services.py, setup_app.py, browser_security.py).
AnswersHold == NoStaleGrant /\ SyncsInOrder /\ WindowNeverFull
=============================================================================
