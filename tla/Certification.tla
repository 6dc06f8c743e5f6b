--------------------------- MODULE Certification ---------------------------
(***************************************************************************)
(* Revision-bound certification (contracts/harness_runner.py with          *)
(* evidence_writer.py, evidence_record.py, harness_applicability.py and    *)
(* release_certification.py).  Harnesses run one after the other as shell  *)
(* commands; each leaves a record naming the revision it finds when it is  *)
(* written.  Meanwhile people edit, commit and restore the working tree,   *)
(* and a running harness may touch the evidence of the earlier ones.  A    *)
(* SHA-256 digest is the value it digests, and a commit stands for its     *)
(* tree.                                                                   *)
(***************************************************************************)
EXTENDS Naturals, Sequences, FiniteSets

CONSTANTS
    Order,          \* the harnesses to certify, in the order they run
    Prerequisites,  \* [harness -> harnesses], get_prerequisites
    Blocking,       \* blocks_release
    Scoped,         \* _SCOPED_IDS
    RunnerEvidence, \* artifact_mode runner_evidence: the record is the artifact
    MaxCommits,     \* bound: commits
    MaxEdits        \* bound: edits of the working tree

VARIABLES
    head,           \* HEAD
    dirty,          \* the working tree differs from HEAD
    edits,          \* edits of the working tree so far
    restored,       \* some edit was undone without a commit
    cert,           \* the certification under way
    outcome,        \* the command that has just run: exit code and artifact
    record,         \* <evidence_root>/<harness>.json on disk
    artifact,       \* the declared artifact on disk
    stray,          \* a file nobody's record refers to is on disk
    ranOn,          \* history: revision and cleanliness when a command ran
    written         \* history: the record its harness wrote

certVars == <<head, dirty, edits, restored, cert, outcome, record, artifact, stray, ranOn, written>>

Members == {Order[k] : k \in DOMAIN Order}
NoRecord == [harness |-> "none", subject |-> 0, exit |-> 0, status |-> "none", artifact |-> "none"]

\* validate_registry: the foundation closure is a list that is not empty and
\* duplicate-free, every prerequisite is known and no harness is its own.
ASSUME OrderOK ==
    /\ Order \in Seq(Members) /\ Order # << >>
    /\ Cardinality(Members) = Len(Order)
    /\ \A h \in Members : Prerequisites[h] \subseteq Members \ {h}

-----------------------------------------------------------------------------
(* What the commands of the registry can leave behind. *)

Passes(left) == [exit |-> 0, artifact |-> left]
Fails(left) == [exit |-> 1, artifact |-> left]

\* run_platform_harness: a receipt is written whether the mode passes or fails.
PlatformOutcomes == {Passes("result"), Fails("result")}

\* run_wave3_harness: a missing environment ends it before any receipt.
WaveOutcomes == PlatformOutcomes \cup {Fails("none")}

\* run_ops_harness, run_security_harness: an artifact only for a mode that
\* passes.
OpsOutcomes == {Passes("result"), Fails("none")}

\* run_final_harness: the command may leave one itself, and fail.
FinalOutcomes == OpsOutcomes \cup {Fails("result")}

\* dead_code: findings are advisory.
AdvisoryOutcomes == {Passes("result"), Passes("not_applicable")}

\* scoped_capacity: not applicable unless declared.
ScopedOutcomes == {Passes("not_applicable"), Fails("none")}

\* Any other shell command.
ShellOutcomes == {[exit |-> e, artifact |-> a] :
                     e \in {0, 1}, a \in {"none", "result", "not_applicable", "unreasoned"}}

Outcomes(kind) ==
    CASE kind = "platform" -> PlatformOutcomes
      [] kind = "wave" -> WaveOutcomes
      [] kind = "ops" -> OpsOutcomes
      [] kind = "final" -> FinalOutcomes
      [] kind = "advisory" -> AdvisoryOutcomes
      [] kind = "scoped" -> ScopedOutcomes
      [] OTHER -> ShellOutcomes

\* resolve_declared_outcome, then run_harness for a declared file that is missing.
Status(h, o) ==
    CASE o.exit # 0 -> "fail"
      [] h \in RunnerEvidence -> "pass"
      [] o.artifact = "not_applicable" -> "not_applicable"
      [] o.artifact = "result" -> "pass"
      [] OTHER -> "fail"

-----------------------------------------------------------------------------
(* validate_evidence_record with require_blocking_pass. *)

\* A declared file is there and is the one the record digests.
ArtifactIntact(r) ==
    r.harness \in RunnerEvidence \/ (r.artifact # "none" /\ artifact[r.harness] = r.artifact)

RecordValid(h, r) ==
    /\ r.harness = h
    /\ r.subject = cert.subject /\ r.subject = cert.tree
    /\ ArtifactIntact(r)
    /\ h \in Blocking => r.status = "pass"
    /\ r.status = "pass" => r.exit = 0
    /\ r.status = "fail" => r.exit # 0

\* run_harness_with_prerequisites and run_release_certification go on only with
\* a pass or, for what does not block, not_applicable.
Acceptable(h, r) ==
    r.status = "pass" \/ (r.status = "not_applicable" /\ h \notin Blocking)

-----------------------------------------------------------------------------
(* The steps of a certification. *)

Current == Order[cert.next]

CertInit(kinds, producers) ==
    /\ head = 1 /\ dirty = FALSE /\ edits = 0 /\ restored = FALSE
    /\ cert \in [kind : kinds, producer : producers, pc : {"start"}, subject : {0}, tree : {0},
                 next : {1}, failed : {FALSE}, satisfied : {{}}, hashes : {[h \in Members |-> NoRecord]},
                 evidence : {{}}, verdict : {"none"}]
    /\ outcome = Fails("none")
    /\ record = [h \in Members |-> NoRecord]
    /\ artifact = [h \in Members |-> "none"]
    /\ stray = FALSE
    /\ ranOn = [h \in Members |-> [head |-> 0, dirty |-> FALSE]]
    /\ written = [h \in Members |-> NoRecord]

\* recertify_foundation names the subject first, the others look at the tree first.
FirstCheck == IF cert.kind = "foundation" THEN "subject" ELSE "clean"
SecondCheck == IF cert.kind = "foundation" THEN "clean" ELSE "subject"

\* get_git_commit_sha, get_git_tree_sha: the subject of this certification.
ReadSubject(next) ==
    /\ cert' = [cert EXCEPT !.subject = head, !.tree = head, !.pc = next]
    /\ UNCHANGED <<head, dirty, edits, restored, outcome, record, artifact, stray, ranOn, written>>

\* is_working_tree_clean; recertify_foundation reads the tree after it.
CheckClean(next) ==
    /\ cert' = IF dirty THEN [cert EXCEPT !.pc = "done", !.verdict = "refused"]
               ELSE [cert EXCEPT !.pc = next, !.tree = head]
    /\ UNCHANGED <<head, dirty, edits, restored, outcome, record, artifact, stray, ranOn, written>>

Prepare ==
    \/ cert.pc = "start" /\ FirstCheck = "subject" /\ ReadSubject("second")
    \/ cert.pc = "start" /\ FirstCheck = "clean" /\ CheckClean("second")
    \/ cert.pc = "second" /\ SecondCheck = "subject" /\ ReadSubject("run")
    \/ cert.pc = "second" /\ SecondCheck = "clean" /\ CheckClean("run")

\* recertify_foundation runs a harness only after its prerequisites passed in
\* this run; the other two run whatever is next.
Runnable == cert.kind = "foundation" => Prerequisites[Current] \subseteq cert.satisfied

NextHarness == IF cert.next = Len(Order) THEN "recheck" ELSE "run"

SkipHarness ==
    /\ cert.pc = "run" /\ ~Runnable
    /\ cert' = [cert EXCEPT !.failed = TRUE, !.pc = NextHarness,
                            !.next = IF @ = Len(Order) THEN @ ELSE @ + 1]
    /\ UNCHANGED <<head, dirty, edits, restored, outcome, record, artifact, stray, ranOn, written>>

\* run_harness: a leftover artifact is deleted, then the command runs.
RunCommand(o) ==
    /\ cert.pc = "run" /\ Runnable
    /\ o \in Outcomes(cert.producer[Current])
    /\ outcome' = o
    /\ artifact' = [artifact EXCEPT ![Current] = IF Current \in RunnerEvidence THEN "none" ELSE o.artifact]
    /\ ranOn' = [ranOn EXCEPT ![Current] = [head |-> head, dirty |-> dirty]]
    /\ cert' = [cert EXCEPT !.pc = "record"]
    /\ UNCHANGED <<head, dirty, edits, restored, record, stray, written>>

\* run_harness digests the artifact and write_evidence names the HEAD it finds;
\* the record is read back and validated.
RecordEvidence ==
    LET h == Current
        r == [harness |-> h, subject |-> head, exit |-> outcome.exit,
              status |-> Status(h, outcome), artifact |-> artifact[h]]
        valid == RecordValid(h, r)
    IN  /\ cert.pc = "record"
        /\ record' = [record EXCEPT ![h] = r]
        /\ written' = [written EXCEPT ![h] = r]
        /\ cert' =
              IF cert.kind # "foundation" /\ ~(valid /\ Acceptable(h, r))
              THEN [cert EXCEPT !.pc = "done", !.verdict = "refused"]
              ELSE [cert EXCEPT !.failed = @ \/ ~valid \/ r.status # "pass",
                                !.satisfied = IF r.status = "pass" THEN @ \cup {h} ELSE @,
                                !.hashes[h] = r,
                                !.pc = NextHarness,
                                !.next = IF @ = Len(Order) THEN @ ELSE @ + 1]
        /\ UNCHANGED <<head, dirty, edits, restored, outcome, artifact, stray, ranOn>>

\* The recheck without the working tree.
SameRevision == head = cert.subject

\* recertify_foundation: the tree and the revision again, after the last harness.
StillExact == ~dirty /\ head = cert.subject

Recheck ==
    /\ cert.pc = "recheck" /\ cert.kind = "foundation"
    /\ cert' = IF ~cert.failed /\ StillExact THEN [cert EXCEPT !.pc = "reload"]
               ELSE [cert EXCEPT !.pc = "done", !.verdict = "refused"]
    /\ UNCHANGED <<head, dirty, edits, restored, outcome, record, artifact, stray, ranOn, written>>

\* recertify_foundation: the record on disk is the one hashed when it was written.
Unaltered(h) == record[h] # NoRecord /\ record[h] = cert.hashes[h]

\* recertify_foundation: every record again from disk, and the exact set of files.
Reload ==
    /\ cert.pc = "reload"
    /\ cert' = [cert EXCEPT !.pc = "done",
                            !.verdict = IF /\ \A h \in Members : /\ Unaltered(h)
                                                                 /\ RecordValid(h, record[h])
                                           /\ ~stray
                                        THEN "certified" ELSE "refused"]
    /\ UNCHANGED <<head, dirty, edits, restored, outcome, record, artifact, stray, ranOn, written>>

\* run_harness_with_prerequisites returns its records after the last of them.
FinishStandalone ==
    /\ cert.pc = "recheck" /\ cert.kind = "standalone"
    /\ cert' = [cert EXCEPT !.pc = "done", !.verdict = "certified"]
    /\ UNCHANGED <<head, dirty, edits, restored, outcome, record, artifact, stray, ranOn, written>>

\* collect_evidence: the receipt of a harness as it is on disk now.
Collectible(h) ==
    /\ record[h].harness = h /\ record[h].subject = cert.subject
    /\ record[h].status = "pass" \/ (record[h].status = "not_applicable" /\ h \in Scoped)

\* run_release_certification: collect_evidence, sign_certification,
\* verify_certification on the same files.
SignRelease ==
    /\ cert.pc = "recheck" /\ cert.kind = "release"
    /\ cert' = IF \A h \in Members : Collectible(h)
               THEN [cert EXCEPT !.pc = "done", !.verdict = "signed",
                                 !.evidence = {record[h] : h \in Members}]
               ELSE [cert EXCEPT !.pc = "done", !.verdict = "refused"]
    /\ UNCHANGED <<head, dirty, edits, restored, outcome, record, artifact, stray, ranOn, written>>

-----------------------------------------------------------------------------
(* What happens around it. *)

\* Somebody edits a tracked file.
EditTree ==
    /\ edits < MaxEdits
    /\ dirty' = TRUE /\ edits' = edits + 1
    /\ UNCHANGED <<head, restored, cert, outcome, record, artifact, stray, ranOn, written>>

\* The edits are undone without a commit.
RestoreTree ==
    /\ dirty
    /\ dirty' = FALSE /\ restored' = TRUE
    /\ UNCHANGED <<head, edits, cert, outcome, record, artifact, stray, ranOn, written>>

\* The edits are committed.
CommitTree ==
    /\ dirty /\ head < MaxCommits
    /\ dirty' = FALSE /\ head' = head + 1
    /\ UNCHANGED <<edits, restored, cert, outcome, record, artifact, stray, ranOn, written>>

\* The harness that is running overwrites the record or the artifact of one
\* that has run, or both so that they agree, or leaves a file of its own behind.
HarnessInterferes ==
    /\ cert.pc = "record"
    /\ UNCHANGED <<head, dirty, edits, restored, cert, outcome, ranOn, written>>
    /\ \/ /\ \E h \in Members \ {Current}, s \in {"pass", "fail"} :
                 record[h] # NoRecord /\ record' = [record EXCEPT ![h].status = s]
          /\ UNCHANGED <<artifact, stray>>
       \/ /\ \E h \in Members \ {Current} :
                 record[h] # NoRecord /\ record' = [record EXCEPT ![h] = NoRecord]
          /\ UNCHANGED <<artifact, stray>>
       \/ /\ \E h \in Members \ {Current} :
                 artifact[h] # "none" /\ artifact' = [artifact EXCEPT ![h] = "altered"]
          /\ UNCHANGED <<record, stray>>
       \/ /\ \E h \in Members \ {Current} :
                 /\ record[h].artifact # "none"
                 /\ record' = [record EXCEPT ![h].artifact = "altered"]
                 /\ artifact' = [artifact EXCEPT ![h] = "altered"]
          /\ UNCHANGED stray
       \/ stray' = TRUE /\ UNCHANGED <<record, artifact>>

CertNext ==
    \/ Prepare \/ SkipHarness
    \/ cert.pc = "run" /\ \E o \in Outcomes(cert.producer[Current]) : RunCommand(o)
    \/ RecordEvidence \/ Recheck \/ Reload \/ FinishStandalone \/ SignRelease
    \/ EditTree \/ RestoreTree \/ CommitTree \/ HarnessInterferes

CertSpec(kinds, producers) == CertInit(kinds, producers) /\ [][CertNext]_certVars

-----------------------------------------------------------------------------
\* A certified foundation is bound to its revision: unless somebody undid an
\* edit while it ran, every harness ran on exactly the subject, although HEAD
\* and the tree are only looked at before the first and after the last one.
RevisionBound ==
    (cert.kind = "foundation" /\ cert.verdict = "certified" /\ ~restored) =>
        \A h \in Members : ranOn[h] = [head |-> cert.subject, dirty |-> FALSE]

\* A certified foundation rests on the evidence its harnesses wrote: no record,
\* artifact or file that another harness overwrote, deleted or added is part of
\* it, and every prerequisite passed before what needs it.
EvidenceAsWritten ==
    (cert.kind = "foundation" /\ cert.verdict = "certified") =>
        /\ \A h \in Members : record[h] = written[h] /\ artifact[h] = written[h].artifact
        /\ ~stray
        /\ \A h \in Members : Prerequisites[h] \subseteq cert.satisfied

\* A signed release has a pass of the subject for every harness, and
\* not_applicable only where a scope was not declared: neither blocking
\* harnesses nor merely advisory ones can be waived by their own artifact.
NothingWaived ==
    cert.verdict = "signed" =>
        /\ {r.harness : r \in cert.evidence} = Members
        /\ \A r \in cert.evidence :
              /\ r.subject = cert.subject
              /\ r.status = "pass" \/ (r.status = "not_applicable" /\ r.harness \in Scoped \ Blocking)

\* The command of h ran on the revision that was named, whether or not the tree was
\* clean by then, and the record it left names that revision and is acceptable.
EarnedOn(h) ==
    /\ ranOn[h].head = cert.subject
    /\ written[h].subject = cert.subject
    /\ Acceptable(h, written[h])

\* Of every kind of certification: no harness ran on another revision than the one
\* certified or signed, and none was passed over, although HEAD is read once before
\* the first of them and may move on at any time.
RanOnSubject ==
    cert.verdict \in {"certified", "signed"} => \A h \in Members : EarnedOn(h)

\* A certified foundation (recertify_foundation) is for a clean tree of its revision
\* and the evidence as its harnesses wrote it. A standalone certificate
\* (run_harness_with_prerequisites) and a signed release (run_release_certification.py)
\* only had every harness run on their revision with an acceptable record; a signed
\* release has waived nothing besides. That the tree stayed clean, or that nobody
\* touched a record after its harness wrote it, is not claimed for those two.
CertificationSound == RevisionBound /\ EvidenceAsWritten /\ RanOnSubject /\ NothingWaived
=============================================================================
