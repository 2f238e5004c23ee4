---------------------------- MODULE ReviewSweep ----------------------------
(***************************************************************************)
(* A code review over several focuses and the outcomes recorded for its    *)
(* findings: review/multi.rs, the pipeline of review/mod.rs, and the       *)
(* stores of review/outcome.rs and review/anti_pattern.rs.                 *)
(*                                                                         *)
(* The sweep spawns one task for each focus and joins them until a         *)
(* deadline.  A task goes from await to await in one step each: it fetches *)
(* the diff and loads the rejected findings, asks a detector about one     *)
(* chunk of files after the other, asks a validator about what was found,  *)
(* and writes the record of its run.  Beside them the window and the agent *)
(* record that a finding was accepted or rejected, each with a file read   *)
(* and a file written, one at a time under REJECTION_STORE_LOCK.           *)
(*                                                                         *)
(* A finding is a focus and an anchor (file, lines and title).  Two things *)
(* found under one anchor count once.  What a task reports of its progress *)
(* inside a focus is left out but for its end.                             *)
(***************************************************************************)
EXTENDS Integers, Sequences, FiniteSets, FiniteSetsExt, SequencesExt

CONSTANTS
  Focuses,      \* the focuses asked for, once each
  Security,     \* the focus that also obeys the rejections of the first store format
  Anchors,
  Actionable,   \* the anchors of tier 1 and 2
  Threshold,    \* noise_threshold_percent
  MaxFiles,     \* MAX_FILES_PER_INVOCATION
  MaxLines,     \* MAX_LINES_PER_INVOCATION
  Diffs,        \* what a review can find to read: its files by their length, after the caps
  Older,        \* findings in the records of earlier runs
  Rejections,   \* what the store of rejected findings can hold at the start
  Writers,      \* the commands that record outcomes
  Judged        \* bound: the findings they are about

Keys == Focuses \X Anchors
OldKey(a) == <<"v1", a>>
OldKeys == {OldKey(a) : a \in Anchors}

ASSUME ReviewAssumption ==
  /\ IsFiniteSet(Focuses) /\ "v1" \notin Focuses
  /\ IsFiniteSet(Anchors) /\ Actionable \subseteq Anchors
  /\ Threshold \in 0..100
  /\ MaxFiles \in Nat \ {0} /\ MaxLines \in Nat
  /\ Diffs \subseteq Seq(Nat)
  /\ Older \subseteq Keys /\ Judged \subseteq Keys /\ Judged # {}
  /\ Rejections \subseteq SUBSET (Keys \cup OldKeys)
  /\ "free" \notin Writers

VARIABLES
  \* the sweep
  phase,      \* where run_multi_focus_review_with_child is
  pending,
  results,    \* the focuses whose result was joined
  errors,     \* the focuses with an error
  found,      \* total_findings
  hidden,     \* total_suppressed
  elapsed,    \* the deadline has passed
  doomed,     \* the tasks of the JoinSet are aborted
  \* as the receiver of the events sees it
  status,
  ended,
  \* the task of each focus
  pc,
  todo,       \* chunks the detector has not been asked about
  answered,   \* the focuses with a chunk the detector did not fail on
  barred,     \* the anchors of its focus in the store it loaded
  blind,      \* the focuses whose task could not load the store
  cand,       \* candidates
  out,        \* what the task returned
  \* the files under .gospel
  record,     \* review_runs, of this sweep
  unsaved,    \* the focuses whose run could not be written
  rejected,   \* rejected_findings.json
  accepted,   \* accepted_findings.json
  \* the commands that record outcomes
  lock,       \* REJECTION_STORE_LOCK
  step,       \* of each command
  about,      \* its finding
  seen,       \* the file as it read it
  \* history
  told,       \* the last outcome a command confirmed
  kept        \* rejections that stood at the start of the sweep and ever since

sweepVars == <<phase, pending, results, errors, found, hidden, elapsed, doomed, status>>
localVars == <<todo, answered, barred, cand>>
taskVars == <<pc, localVars, blind, out>>
runVars == <<record, unsaved>>
storeVars == <<rejected, accepted, lock, step, about, seen, told, kept>>
vars == <<sweepVars, ended, taskVars, runVars, storeVars>>

Live == {"fetching", "detecting", "validating", "leaving"}

Failure == [ok |-> FALSE, comments |-> {}, hidden |-> 0]
-----------------------------------------------------------------------------
(* Pure parts *)

\* is_rejected
IsRejected(set, f, a) ==
  \/ <<f, a>> \in set
  \/ f = Security /\ OldKey(a) \in set

\* What remove_rejection takes out.
Matching(f, a) == {<<f, a>>} \cup IF f = Security THEN {OldKey(a)} ELSE {}

\* chunk_files: a chunk is closed when the next file would be one too many or too long.
Lines(chunk) == FoldLeft(+, 0, chunk)
Full(chunk, file) == Len(chunk) >= MaxFiles \/ Lines(chunk) + file > MaxLines

Put(chunks, file) ==
  IF chunks = <<>> \/ Full(Last(chunks), file)
  THEN Append(chunks, <<file>>)
  ELSE Append(Front(chunks), Append(Last(chunks), file))

Chunks(files) == FoldLeft(Put, <<>>, files)

\* signal::percentage, in tenths of a percent
Snr(set) ==
  LET n == Cardinality(set)
      k == Cardinality(set \cap Actionable)
  IN IF n = 0 THEN 1000 ELSE (2000 * k + n) \div (2 * n)

Noisy(set) == set # {} /\ Snr(set) < 10 * Threshold

\* finalize_review_result: what is left to see of the findings.
Visible(set) == IF Noisy(set) THEN set \cap Actionable ELSE set

\* filter_rejected_comments
Unrejected(set, f) == set \ barred[f]

\* FocusEmitter keeps the end of a task to itself.
\* A slip: it forwards it under the run id of the sweep.
ForwardsAll(kind) == TRUE
Forwards(kind) == kind \notin {"done", "failed"}
-----------------------------------------------------------------------------
Init ==
  /\ phase = "idle"
  /\ pending = {} /\ results = {} /\ errors = {}
  /\ found = 0 /\ hidden = 0
  /\ elapsed = FALSE /\ doomed = FALSE
  /\ status = [f \in Focuses |-> "unseen"]
  /\ ended = "none"
  /\ pc = [f \in Focuses |-> "none"]
  /\ todo = [f \in Focuses |-> 0]
  /\ answered = {}
  /\ barred = [f \in Focuses |-> {}]
  /\ blind = {}
  /\ cand = [f \in Focuses |-> {}]
  /\ out = [f \in Focuses |-> Failure]
  /\ record = [f \in Focuses |-> {}]
  /\ unsaved = {}
  /\ rejected \in Rejections
  /\ accepted = {}
  /\ lock = "free"
  /\ step = [w \in Writers |-> "idle"]
  /\ about = [w \in Writers |-> CHOOSE k \in Judged : TRUE]
  /\ seen = [w \in Writers |-> {}]
  /\ told = [k \in Keys |-> IF k \in rejected THEN "rejected" ELSE "none"]
  /\ kept = {}
-----------------------------------------------------------------------------
(* The task of a focus *)

\* The next await, which a task that was aborted while it was being polled does not leave.
GoesTo(f, place) == pc' = [pc EXCEPT ![f] = IF doomed THEN "leaving" ELSE place]

\* The task tells its emitter how it ended.
Announce(kind) == ended' = IF Forwards(kind) THEN kind ELSE ended

\* What a task held is gone when it ends.
Forget(f) ==
  /\ todo' = [todo EXCEPT ![f] = 0]
  /\ answered' = answered \ {f}
  /\ barred' = [barred EXCEPT ![f] = {}]
  /\ cand' = [cand EXCEPT ![f] = {}]

Fails(f) ==
  /\ pc' = [pc EXCEPT ![f] = "finished"]
  /\ Forget(f)
  /\ blind' = blind \ {f}
  /\ UNCHANGED <<out, runVars>>

\* finalize_review_result, which writes the run with all its findings before any is left out.
\* A run is on file too when only the sync of its directory failed, and the result says it is not.
Finalize(f, set) ==
  /\ pc' = [pc EXCEPT ![f] = "finished"]
  /\ Forget(f)
  /\ out' = [out EXCEPT ![f] = [ok |-> TRUE, comments |-> Visible(set),
                                hidden |-> Cardinality(set) - Cardinality(Visible(set))]]
  /\ \/ record' = [record EXCEPT ![f] = set] /\ UNCHANGED unsaved
     \/ unsaved' = unsaved \cup {f} /\ record' \in {record, [record EXCEPT ![f] = set]}
  /\ Announce("done")
  /\ UNCHANGED blind

\* The diff or the list of files cannot be read; a diff fails without a word to the emitter.
DiffFails(f) ==
  /\ pc[f] = "fetching"
  /\ Fails(f)
  /\ UNCHANGED ended \/ Announce("failed")
  /\ UNCHANGED <<sweepVars, storeVars>>

NothingToRead(f) ==
  /\ pc[f] = "fetching"
  /\ <<>> \in Diffs
  /\ Finalize(f, {})
  /\ UNCHANGED <<sweepVars, storeVars>>

\* The store is loaded once; one that cannot be read rejects nothing.
DiffArrives(f) ==
  /\ pc[f] = "fetching"
  /\ \E files \in Diffs \ {<<>>} : todo' = [todo EXCEPT ![f] = Len(Chunks(files))]
  /\ \/ /\ barred' = [barred EXCEPT ![f] = {a \in Anchors : IsRejected(rejected, f, a)}]
        /\ UNCHANGED blind
     \/ /\ blind' = blind \cup {f}
        /\ UNCHANGED barred
  /\ GoesTo(f, "detecting")
  /\ UNCHANGED <<sweepVars, ended, answered, cand, out, runVars, storeVars>>

\* An answer that cannot be parsed is one without findings.
\* A slip: the answer to the last chunk is taken for one to an earlier chunk.
DetectorAnswersOnceMore(f) ==
  /\ pc[f] = "detecting"
  /\ \E set \in SUBSET Anchors : cand' = [cand EXCEPT ![f] = @ \cup Unrejected(set, f)]
  /\ answered' = answered \cup {f}
  /\ todo' = [todo EXCEPT ![f] = @ - 1]
  /\ GoesTo(f, "detecting")
  /\ UNCHANGED <<sweepVars, ended, barred, blind, out, runVars, storeVars>>
DetectorAnswers(f) ==
  /\ pc[f] = "detecting" /\ todo[f] > 1
  /\ \E set \in SUBSET Anchors : cand' = [cand EXCEPT ![f] = @ \cup Unrejected(set, f)]
  /\ answered' = answered \cup {f}
  /\ todo' = [todo EXCEPT ![f] = @ - 1]
  /\ GoesTo(f, "detecting")
  /\ UNCHANGED <<sweepVars, ended, barred, blind, out, runVars, storeVars>>

DetectorFails(f) ==
  /\ pc[f] = "detecting" /\ todo[f] > 1
  /\ todo' = [todo EXCEPT ![f] = @ - 1]
  /\ GoesTo(f, "detecting")
  /\ UNCHANGED <<sweepVars, ended, answered, barred, blind, cand, out, runVars, storeVars>>

\* After the last chunk the candidates go to the validator, if there are any.
Validate(f, candidates) ==
  \/ candidates = {} /\ Finalize(f, {})
  \/ /\ candidates # {}
     /\ cand' = [cand EXCEPT ![f] = candidates]
     /\ todo' = [todo EXCEPT ![f] = 0]
     /\ GoesTo(f, "validating")
     /\ UNCHANGED <<ended, answered, barred, blind, out, runVars>>

LastAnswers(f) ==
  /\ pc[f] = "detecting" /\ todo[f] = 1
  /\ \E set \in SUBSET Anchors : Validate(f, cand[f] \cup Unrejected(set, f))
  /\ UNCHANGED <<sweepVars, storeVars>>

\* A review whose detector failed on every chunk has failed.
LastFails(f) ==
  /\ pc[f] = "detecting" /\ todo[f] = 1
  /\ IF f \in answered THEN Validate(f, cand[f]) ELSE Fails(f) /\ Announce("failed")
  /\ UNCHANGED <<sweepVars, storeVars>>

\* The validator may name findings the detectors did not; they are filtered again.
\* A slip: they are not.
ValidatorAnswersRaw(f) ==
  /\ pc[f] = "validating"
  /\ \E set \in SUBSET Anchors : Finalize(f, set)
  /\ UNCHANGED <<sweepVars, storeVars>>
ValidatorAnswers(f) ==
  /\ pc[f] = "validating"
  /\ \E set \in SUBSET Anchors : Finalize(f, Unrejected(set, f))
  /\ UNCHANGED <<sweepVars, storeVars>>

\* It failed, timed out or cannot be parsed: the candidates stand.
ValidatorFails(f) ==
  /\ pc[f] = "validating"
  /\ Finalize(f, cand[f])
  /\ UNCHANGED <<sweepVars, storeVars>>

\* A panic is caught and becomes the error of the focus.
Panic(f) ==
  /\ pc[f] \in Live
  /\ Fails(f)
  /\ UNCHANGED <<sweepVars, ended, storeVars>>

Reap(f) ==
  /\ doomed
  /\ pc[f] \in Live
  /\ pc' = [pc EXCEPT ![f] = "gone"]
  /\ Forget(f)
  /\ UNCHANGED <<sweepVars, ended, out, blind, runVars, storeVars>>
-----------------------------------------------------------------------------
(* The sweep *)

\* Every focus is announced as running before its task is spawned.
Launch ==
  /\ phase = "idle"
  /\ phase' = "joining"
  /\ pending' = Focuses
  /\ status' = [f \in Focuses |-> "running"]
  /\ pc' = [f \in Focuses |-> "fetching"]
  /\ kept' = rejected
  /\ UNCHANGED <<results, errors, found, hidden, elapsed, doomed, ended, localVars, blind, out,
                 runVars, rejected, accepted, lock, step, about, seen, told>>

JoinResult(f) ==
  /\ out[f].ok
  /\ results' = results \cup {f}
  /\ found' = found + Cardinality(out[f].comments)
  /\ hidden' = hidden + out[f].hidden
  /\ status' = [status EXCEPT ![f] = "done"]
  /\ UNCHANGED errors

JoinError(f) ==
  /\ ~out[f].ok
  /\ errors' = errors \cup {f}
  /\ status' = [status EXCEPT ![f] = "failed"]
  /\ UNCHANGED <<results, found, hidden>>

\* join_next is polled before the deadline: a task that has finished is taken even after it.
Join(f) ==
  /\ phase = "joining"
  /\ pc[f] = "finished"
  /\ pc' = [pc EXCEPT ![f] = "joined"]
  /\ pending' = pending \ {f}
  /\ JoinResult(f) \/ JoinError(f)
  /\ UNCHANGED <<phase, elapsed, doomed, ended, localVars, blind, out, runVars, storeVars>>

Elapse ==
  /\ phase = "joining"
  /\ ~elapsed
  /\ elapsed' = TRUE
  /\ UNCHANGED <<phase, pending, results, errors, found, hidden, doomed, status, ended,
                 taskVars, runVars, storeVars>>

\* The deadline passed with tasks left: each of their focuses is reported, also one that finished
\* since the last poll.
\* A slip: every focus is reported.
TimeOutAll ==
  /\ phase = "joining" /\ elapsed /\ pending # {}
  /\ errors' = errors \cup Focuses
  /\ status' = [f \in Focuses |-> "failed"]
  /\ pending' = {}
  /\ phase' = "aborting"
  /\ UNCHANGED <<results, found, hidden, elapsed, doomed, ended, taskVars, runVars, storeVars>>
TimeOut ==
  /\ phase = "joining" /\ elapsed /\ pending # {}
  /\ errors' = errors \cup pending
  /\ status' = [f \in Focuses |-> IF f \in pending THEN "failed" ELSE status[f]]
  /\ pending' = {}
  /\ phase' = "aborting"
  /\ UNCHANGED <<results, found, hidden, elapsed, doomed, ended, taskVars, runVars, storeVars>>

\* A slip: the tasks are waited for and not aborted.
AbortNone ==
  /\ phase = "aborting"
  /\ phase' = "draining"
  /\ UNCHANGED <<pending, results, errors, found, hidden, elapsed, doomed, status, ended,
                 taskVars, runVars, storeVars>>
AbortAll ==
  /\ phase = "aborting"
  /\ phase' = "draining"
  /\ doomed' = TRUE
  /\ UNCHANGED <<pending, results, errors, found, hidden, elapsed, status, ended, taskVars,
                 runVars, storeVars>>

\* After the last join, or when the aborted tasks are gone.
Conclude ==
  /\ \/ phase = "joining" /\ pending = {}
     \/ phase = "draining" /\ \A f \in Focuses : pc[f] \in {"finished", "joined", "gone"}
  /\ phase' = "over"
  /\ ended' = IF results = {} THEN "failed" ELSE "done"
  /\ UNCHANGED <<pending, results, errors, found, hidden, elapsed, doomed, status, taskVars,
                 runVars, storeVars>>

\* The turn that called the tool is dropped, and the JoinSet with it.
Drop ==
  /\ phase \in {"joining", "draining"}
  /\ phase' = "dropped"
  /\ doomed' = TRUE
  /\ UNCHANGED <<pending, results, errors, found, hidden, elapsed, status, ended, taskVars,
                 runVars, storeVars>>
-----------------------------------------------------------------------------
(* The outcomes *)

OthersOfStore == <<sweepVars, ended, taskVars, runVars>>

\* A command takes the lock and reads its first file; a finding must be in the record of a run.
\* A slip: the lock is forgotten.
BeginUnlocked(w, k, place) ==
  /\ step[w] = "idle"
  /\ lock' = w
  /\ about' = [about EXCEPT ![w] = k]
  /\ step' = [step EXCEPT ![w] = place]
  /\ seen' = [seen EXCEPT ![w] = IF place = "accept" THEN accepted ELSE rejected]
  /\ UNCHANGED <<OthersOfStore, rejected, accepted, told, kept>>
Begin(w, k, place) ==
  /\ step[w] = "idle"
  /\ lock = "free"
  /\ lock' = w
  /\ about' = [about EXCEPT ![w] = k]
  /\ step' = [step EXCEPT ![w] = place]
  /\ seen' = [seen EXCEPT ![w] = IF place = "accept" THEN accepted ELSE rejected]
  /\ UNCHANGED <<OthersOfStore, rejected, accepted, told, kept>>

\* The window rejects any finding it holds, without a look at the records.
Reject(w) == \E k \in Judged : Begin(w, k, "reject")

Accept(w) ==
  \E k \in Judged : (k \in Older \/ k[2] \in record[k[1]]) /\ Begin(w, k, "accept")

Release(w) ==
  /\ step' = [step EXCEPT ![w] = "idle"]
  /\ lock' = "free"
  /\ seen' = [seen EXCEPT ![w] = {}]

Store(set) ==
  /\ rejected' = set
  /\ kept' = kept \cap set

\* AntiPatternStore::save after add_rejection
SaveRejection(w) ==
  /\ step[w] = "reject"
  /\ Store(seen[w] \cup {about[w]})
  /\ told' = [told EXCEPT ![about[w]] = "rejected"]
  /\ Release(w)
  /\ UNCHANGED <<OthersOfStore, accepted, about>>

\* save_accepted_findings, and then the other file is read.
SaveAcceptance(w) ==
  /\ step[w] = "accept"
  /\ accepted' = seen[w] \cup {about[w]}
  /\ step' = [step EXCEPT ![w] = "clear"]
  /\ seen' = [seen EXCEPT ![w] = rejected]
  /\ UNCHANGED <<OthersOfStore, rejected, lock, about, told, kept>>

\* clear_prior_rejection, which does not write when there is nothing to remove.
ClearRejection(w) ==
  /\ step[w] = "clear"
  /\ LET k == about[w]
         gone == Matching(k[1], k[2])
     IN /\ IF seen[w] \cap gone = {} THEN UNCHANGED <<rejected, kept>> ELSE Store(seen[w] \ gone)
        /\ told' = [told EXCEPT ![k] = "accepted"]
  /\ Release(w)
  /\ UNCHANGED <<OthersOfStore, accepted, about>>

\* A file cannot be read or written, and the command reports the error; also when only the
\* directory could not be synced after accepted_findings.json was replaced.
WriteFails(w) ==
  /\ step[w] # "idle"
  /\ \/ UNCHANGED accepted
     \/ step[w] = "accept" /\ accepted' = seen[w] \cup {about[w]}
  /\ Release(w)
  /\ UNCHANGED <<OthersOfStore, rejected, about, told, kept>>
-----------------------------------------------------------------------------
Task(f) ==
  \/ DiffFails(f) \/ NothingToRead(f) \/ DiffArrives(f)
  \/ DetectorAnswers(f) \/ DetectorFails(f) \/ LastAnswers(f) \/ LastFails(f)
  \/ ValidatorAnswers(f) \/ ValidatorFails(f)
  \/ Panic(f)

Sweep == Launch \/ (\E f \in Focuses : Join(f)) \/ TimeOut \/ AbortAll \/ Conclude

Outcome(w) ==
  \/ Reject(w) \/ Accept(w)
  \/ SaveRejection(w) \/ SaveAcceptance(w) \/ ClearRejection(w) \/ WriteFails(w)

Next ==
  \/ Sweep \/ Elapse \/ Drop
  \/ \E f \in Focuses : Task(f) \/ Reap(f)
  \/ \E w \in Writers : Outcome(w)

Spec == Init /\ [][Next]_vars

(***************************************************************************)
(* The sweep is polled when it can go on, time passes, and an aborted task *)
(* is dropped.  Nothing is asked of the tasks: a provider may never        *)
(* answer.                                                                 *)
(***************************************************************************)
FairSpec ==
  /\ Spec
  /\ WF_vars(Sweep) /\ WF_vars(Elapse)
  /\ \A f \in Focuses : WF_vars(Reap(f))
-----------------------------------------------------------------------------
(* Properties *)

Stores == Keys \cup OldKeys

\* The state has the shape run_multi_focus_review_with_child and its tasks give it: the focuses
\* that wait for a join are those whose task is not joined, and a focus is counted once.
TypeOK ==
  /\ phase \in {"idle", "joining", "aborting", "draining", "over", "dropped"}
  /\ pending \subseteq Focuses /\ results \subseteq Focuses /\ errors \subseteq Focuses
  /\ found \in Nat /\ hidden \in Nat
  /\ elapsed \in BOOLEAN /\ doomed \in BOOLEAN
  /\ status \in [Focuses -> {"unseen", "running", "done", "failed"}]
  /\ ended \in {"none", "done", "failed"}
  /\ pc \in [Focuses -> Live \cup {"none", "finished", "joined", "gone"}]
  /\ todo \in [Focuses -> Nat] /\ answered \subseteq Focuses
  /\ \A f \in Focuses : pc[f] = "detecting" => todo[f] > 0
  /\ barred \in [Focuses -> SUBSET Anchors] /\ blind \subseteq Focuses
  /\ cand \in [Focuses -> SUBSET Anchors]
  /\ out \in [Focuses -> [ok : BOOLEAN, comments : SUBSET Anchors, hidden : Nat]]
  /\ record \in [Focuses -> SUBSET Anchors] /\ unsaved \subseteq Focuses
  /\ rejected \subseteq Stores /\ accepted \subseteq Stores /\ kept \subseteq Stores
  /\ lock \in Writers \cup {"free"}
  /\ step \in [Writers -> {"idle", "reject", "accept", "clear"}]
  /\ about \in [Writers -> Keys]
  /\ seen \in [Writers -> SUBSET Stores]
  /\ told \in [Keys -> {"none", "rejected", "accepted"}]

\* What run_multi_focus_review returns is true of its focuses: each has a result or an error and
\* never both, also one whose task ended as the deadline passed; the totals are the sums over the
\* results; and the run of a result is on file with everything found, shown or suppressed, so
\* that an outcome can be recorded for it, unless the result says that it could not be written.
ReportIsTrue ==
  phase = "over" =>
    /\ results \cup errors = Focuses /\ results \cap errors = {}
    /\ \A f \in Focuses : status[f] = IF f \in results THEN "done" ELSE "failed"
    /\ found = MapThenSumSet(LAMBDA f : Cardinality(out[f].comments), results)
    /\ hidden = MapThenSumSet(LAMBDA f : out[f].hidden, results)
    /\ \A f \in results \ unsaved :
         /\ out[f].comments \subseteq record[f]
         /\ Cardinality(record[f]) = Cardinality(out[f].comments) + out[f].hidden
         /\ out[f].hidden > 0 => 100 * Cardinality(out[f].comments) < Threshold * Cardinality(record[f])

\* A finding that was rejected before the review began and has not been accepted since is in no
\* result, whatever the detectors and the validator answer, unless the task reported that it
\* could not load the store: filter_rejected_comments runs on both answers.
RejectedStaysAway ==
  \A f \in Focuses \ blind :
    \A a \in out[f].comments : ~IsRejected(kept, f, a)

\* What a command confirmed is what the files say, with two commands at work and either file
\* failing: a rejection is on file until it is overruled, and an acceptance is on file with no
\* rejection left that would suppress the finding, of the old format or the new.
\* A command that is at it may be between its two files.
OutcomesAreKept ==
  \A k \in Keys :
    /\ told[k] = "rejected" => k \in rejected
    /\ told[k] = "accepted" => k \in accepted /\ ~IsRejected(rejected, k[1], k[2])

\* To the receiver of its events the review is the one of ReviewContract: every focus comes to one
\* end, and the review ends once, after all of them, however its tasks end.
Contract == INSTANCE ReviewContract
ImplementsContract == Contract!Spec

\* A review ends at its deadline although a provider never answers, unless it is dropped.
SweepEnds == phase = "joining" ~> phase \in {"over", "dropped"}
=============================================================================
