---------------------------- MODULE GitHubClient ----------------------------
(***************************************************************************)
(* The GitHub adapter as a client (adapters/github/adapter.py, app.py):    *)
(* every call passes the circuit, takes an installation token from a cache *)
(* that renews it early, and waits for an answer.  publish_projection is   *)
(* two requests, a read that compares the revision and a write.  GitHub    *)
(* may be slow, limit the rate, refuse, fail, answer what cannot be parsed,*)
(* be out of reach, or apply a write whose answer is lost; others edit the *)
(* issue meanwhile.  A failure counter opens the circuit and nothing but a *)
(* new adapter closes it.                                                  *)
(***************************************************************************)
EXTENDS Naturals, Sequences

CONSTANTS
    Cooldown,       \* the 30 seconds that docs/integrations/GITHUB.md gives an open circuit
    HasNodeId,      \* the issue has a node id, as GitHub's have
    Threshold,      \* circuit_threshold
    Margin,         \* how early a token is renewed
    TokenLife,      \* life of an installation token, as GitHub gives it
    MaxIssue,       \* bound: versions of the issue
    MaxGitHubNow    \* bound: the clock

\* The adapter refuses a threshold below one; GitHub's tokens live for an hour and
\* are renewed five minutes early.
ASSUME GitHubOK ==
    /\ Threshold \in Nat \ {0}
    /\ Margin \in Nat /\ TokenLife \in Nat /\ Margin < TokenLife
    /\ Cooldown \in Nat

VARIABLES
    ghNow,          \* the clock
    cached,         \* expiry of the cached token, 0 for none
    failures,       \* _consecutive_failures
    call,           \* the call under way
    issue,          \* version of the issue
    streak,         \* history: when each failure since the last 2xx answer was reported
    outlived        \* history: a request that took no longer than the margin outlived its token

ghVars == <<ghNow, cached, failures, call, issue, streak, outlived>>

NoCall == [step |-> "idle", op |-> "none", expected |-> 0, token |-> 0, at |-> 0]

GitHubInit ==
    /\ ghNow = 0 /\ cached = 0 /\ failures = 0
    /\ call = NoCall /\ issue = 1
    /\ streak = << >> /\ outlived = FALSE

-----------------------------------------------------------------------------
\* list_items, get_item, current_revision, or publish_projection with the
\* revision its guard expects.
Call(op, expected) ==
    /\ call = NoCall
    /\ call' = [NoCall EXCEPT !.step = "request", !.op = op, !.expected = expected]
    /\ UNCHANGED <<ghNow, cached, failures, issue, streak, outlived>>

\* _request with an open circuit: unavailable, nothing is sent.
CircuitOpen ==
    /\ call.step \in {"request", "write"} /\ failures >= Threshold
    /\ call' = NoCall
    /\ UNCHANGED <<ghNow, cached, failures, issue, streak, outlived>>

\* GitHubAppTokenProvider.token: the cached one, unless it is about to expire.
StillGood == cached # 0 /\ ghNow + Margin < cached

\* GitHubAppTokenProvider.token when GitHub gives one with the permissions
\* required, and the request.
Send ==
    /\ call.step \in {"request", "write"} /\ failures < Threshold
    /\ cached' = IF StillGood THEN cached ELSE ghNow + TokenLife
    /\ call' = [call EXCEPT !.step = IF @ = "write" THEN "writing" ELSE "reading",
                            !.token = cached', !.at = ghNow]
    /\ UNCHANGED <<ghNow, failures, issue, streak, outlived>>

\* GitHubAppTokenProvider.token when there is no such token: the call fails and
\* the circuit does not count it.
NoToken ==
    /\ call.step \in {"request", "write"} /\ failures < Threshold /\ ~StillGood
    /\ call' = NoCall
    /\ UNCHANGED <<ghNow, cached, failures, issue, streak, outlived>>

Ok == {"ok", "malformed"}
Failure == {"timeout", "rate_limited", "unauthorized", "unavailable"}

\* An issue that is not found ends the streak of failures.
CountedForgiving(outcome) == IF outcome \in Ok \cup {"not_found"} THEN 0 ELSE failures + 1

\* _request: what an answer does to the counter. A 2xx answer resets it before anybody
\* parses it; an issue that is not found, and every transport error but TimeoutError,
\* leave it alone.
Counted(outcome) ==
    CASE outcome \in Ok -> 0
      [] outcome \in Failure -> failures + 1
      [] OTHER -> failures

\* The end of a request; a write may be applied although the answer is lost.
Answers(applied) == {"timeout", "transport_error"} \cup
                    (IF applied THEN Ok ELSE {"rate_limited", "unauthorized", "not_found", "unavailable"})

Answered(outcome) ==
    /\ failures' = Counted(outcome)
    /\ streak' = CASE outcome \in Ok -> << >>
                [] outcome \in Failure -> Append(streak, ghNow)
                [] OTHER -> streak
    /\ outlived' = (outlived \/ (ghNow - call.at <= Margin /\ ghNow >= call.token))

\* _parse_issue: the node id, which never changes, or the time of the last change.
IssueRevision == IF HasNodeId THEN 1 ELSE issue

\* A read: the call is done, or publish_projection compares and goes on to write.
ReadAnswered(outcome) ==
    /\ call.step = "reading"
    /\ outcome \in Ok => ghNow < call.token
    /\ Answered(outcome)
    /\ call' = IF call.op = "publish" /\ outcome = "ok" /\ IssueRevision = call.expected
               THEN [call EXCEPT !.step = "write"] ELSE NoCall
    /\ UNCHANGED <<ghNow, cached, issue>>

\* The PATCH, which names no revision.
WriteAnswered(outcome, applied) ==
    /\ call.step = "writing"
    /\ outcome \in Answers(applied)
    /\ applied => ghNow < call.token /\ issue < MaxIssue
    /\ Answered(outcome)
    /\ issue' = IF applied THEN issue + 1 ELSE issue
    /\ call' = NoCall
    /\ UNCHANGED <<ghNow, cached>>

-----------------------------------------------------------------------------
\* Somebody edits the issue.
EditIssue ==
    /\ issue < MaxIssue
    /\ issue' = issue + 1
    /\ UNCHANGED <<ghNow, cached, failures, call, streak, outlived>>

\* The process starts again, with a new adapter.
NewAdapter ==
    /\ cached' = 0 /\ failures' = 0 /\ call' = NoCall /\ streak' = << >>
    /\ UNCHANGED <<ghNow, issue, outlived>>

GitHubTick ==
    /\ ghNow < MaxGitHubNow
    /\ ghNow' = ghNow + 1
    /\ UNCHANGED <<cached, failures, call, issue, streak, outlived>>

GitHubNext ==
    \/ Call("read", 0) \/ \E r \in 1..MaxIssue : Call("publish", r)
    \/ CircuitOpen \/ Send \/ NoToken
    \/ \E o \in Answers(TRUE) \cup Answers(FALSE) :
          ReadAnswered(o) \/ \E applied \in BOOLEAN : WriteAnswered(o, applied)
    \/ EditIssue \/ NewAdapter \/ GitHubTick

GitHubSpec == GitHubInit /\ [][GitHubNext]_ghVars

-----------------------------------------------------------------------------
InFlight == call.step \in {"reading", "writing"}

\* The circuit is open and its cooldown is not over.
CoolingDown(t) == Len(streak) >= Threshold /\ t < streak[Len(streak)] + Cooldown

\* A request that takes no longer than the margin never outlives its token (app.py).
\* Once as many requests as the threshold have timed out or been answered with an
\* error since the last 2xx answer, whatever else came between them (a missing issue,
\* another transport error, a publication given up half way), no request is sent
\* before the cooldown is over (_request). What happens after the cooldown is not
\* claimed, and neither is anything about transport errors, which _request lets pass.
RequestsDisciplined == ~outlived /\ (InFlight => ~CoolingDown(call.at))
=============================================================================
