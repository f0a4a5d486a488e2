------------------------------- MODULE Retention -------------------------------
(***************************************************************************)
(* Which sessions of the log are deleted                                   *)
(* (packages/operation-log/src/retention.ts): a run lists the ended        *)
(* sessions once and deletes the oldest, one call of the store after the   *)
(* other.  Meanwhile sessions start, end and are recovered, and other tabs *)
(* have runs of their own.  A page load takes the name of the session from *)
(* its options (apps/playground/src/main.ts:40), so several loads, and     *)
(* several tabs, may write one session, each as if it were alone.          *)
(***************************************************************************)
EXTENDS Integers, FiniteSetsExt

CONSTANTS
  SessionIds,      \* of one project, numbers that are compared
  Runs,            \* calls of enforceRetention
  MaxBytes,        \* maxBytes
  Cutoff,          \* now - maxAgeMs
  LastTime,        \* bound: when sessions end
  NoSession

ASSUME RetentionAssumption ==
  /\ SessionIds \subseteq Nat
  /\ MaxBytes \in Nat /\ Cutoff \in Int /\ LastTime \in Nat

VARIABLES
  sessions,        \* of the store: the status, when it ended, how large it is
  retentions,      \* the runs
  recovering,      \* the sessions a recovery listed and has not written yet
  everEnded        \* history: the sessions that ever ended, and when

retentionVars == <<sessions, retentions, recovering, everEnded>>

RetentionInit ==
  /\ sessions = [id \in {} |-> 0]
  /\ retentions = [run \in Runs |-> [stage |-> "idle", completed |-> {}, newest |-> NoSession, usage |-> 0]]
  /\ recovering = {}
  /\ everEnded = {}

\* By the time they ended, then by their names.
Before(a, b) == a.endedAt < b.endedAt \/ (a.endedAt = b.endedAt /\ a.id < b.id)

\* estimateUsage.
Usage == MapThenSumSet(LAMBDA id : sessions[id].bytes, DOMAIN sessions)

-----------------------------------------------------------------------------
(* The sessions' own life.                                                 *)

\* putSession: the whole record, whatever the store has of the session.
PutSession(id, status, time) ==
  \E bytes \in 1 .. MaxBytes :
    sessions' = [x \in DOMAIN sessions \cup {id} |->
      IF x = id THEN [status |-> status, endedAt |-> time, bytes |-> bytes] ELSE sessions[x]]

\* A page load starts the session, or writes the one it started, as active: one that
\* ended, that was cut off, or that was deleted meanwhile too.
StartSession(id) ==
  /\ PutSession(id, "active", 0)
  /\ UNCHANGED <<retentions, recovering, everEnded>>

\* A page ends the session it started.  The clock may have gone back meanwhile.
EndSession(id, time) ==
  /\ id \in DOMAIN sessions \/ \E ended \in everEnded : ended.id = id
  /\ everEnded' = everEnded \cup {[id |-> id, endedAt |-> time]}
  /\ PutSession(id, "ended", time)
  /\ UNCHANGED <<retentions, recovering>>

\* recover lists the active sessions that have not been started lately, ...
ListActive ==
  /\ \E stale \in SUBSET {id \in DOMAIN sessions : sessions[id].status = "active"} :
       recovering' = recovering \cup stale
  /\ UNCHANGED <<sessions, retentions, everEnded>>

\* ... and writes each back as abnormal, whatever became of it since.
AbandonSession(id) ==
  /\ id \in recovering
  /\ PutSession(id, "abnormal", 0)
  /\ recovering' = recovering \ {id}
  /\ UNCHANGED <<retentions, everEnded>>

-----------------------------------------------------------------------------
(* A run.                                                                  *)

\* listSessions, and what follows it: the ended sessions, and the newest of them.
ListSessions(run) ==
  LET completed == {[id |-> id, endedAt |-> sessions[id].endedAt] :
                     id \in {x \in DOMAIN sessions : sessions[x].status = "ended"}}
  IN  /\ retentions[run].stage = "idle"
      /\ \E newest \in (IF completed = {} THEN {NoSession} ELSE completed) :
           /\ \A other \in completed \ {newest} : Before(other, newest)
           /\ retentions' = [retentions EXCEPT ![run] =
                [stage |-> "listed", completed |-> completed, newest |-> newest, usage |-> 0]]
      /\ UNCHANGED <<sessions, recovering, everEnded>>

\* estimateUsage, before the first deletion and after each.
EstimateUsage(run) ==
  /\ retentions[run].stage = "listed"
  /\ retentions' = [retentions EXCEPT ![run].stage = "deciding", ![run].usage = Usage]
  /\ UNCHANGED <<sessions, recovering, everEnded>>

\* A loop without the exception of the newest.
DeletesAny(run, ended) == ended.endedAt < Cutoff \/ retentions[run].usage > MaxBytes

\* Whether the loop deletes the session: one too old or one too many.
Deletes(run, ended) ==
  /\ ended # retentions[run].newest
  /\ ended.endedAt < Cutoff \/ retentions[run].usage > MaxBytes

\* The loop takes the sessions from the oldest to the newest.
Oldest(completed) ==
  {ended \in completed : \A other \in completed \ {ended} : Before(ended, other)}

\* deleteSession, of a session that may be gone already.
DeleteSession(run) ==
  /\ retentions[run].stage = "deciding"
  /\ \E ended \in Oldest(retentions[run].completed) :
       /\ Deletes(run, ended)
       /\ sessions' = [id \in DOMAIN sessions \ {ended.id} |-> sessions[id]]
       /\ retentions' = [retentions EXCEPT ![run].stage = "listed", ![run].completed = @ \ {ended}]
  /\ UNCHANGED <<recovering, everEnded>>

\* The loop ends, at the newest session, which is the last, or at one that stays.
FinishRun(run) ==
  /\ retentions[run].stage = "deciding"
  /\ \A ended \in Oldest(retentions[run].completed) : ~Deletes(run, ended)
  /\ retentions' = [retentions EXCEPT ![run].stage = "done", ![run].completed = {}]
  /\ UNCHANGED <<sessions, recovering, everEnded>>

RetentionNext ==
  \/ \E id \in SessionIds :
       \/ StartSession(id) \/ AbandonSession(id)
       \/ \E time \in 0 .. LastTime : EndSession(id, time)
  \/ ListActive
  \/ \E run \in Runs :
       ListSessions(run) \/ EstimateUsage(run) \/ DeleteSession(run) \/ FinishRun(run)

RetentionSpec == RetentionInit /\ [][RetentionNext]_retentionVars

-----------------------------------------------------------------------------
RetentionTypeOK ==
  /\ DOMAIN sessions \subseteq SessionIds
  /\ \A id \in DOMAIN sessions :
       sessions[id].status = "ended" => [id |-> id, endedAt |-> sessions[id].endedAt] \in everEnded
  /\ \A run \in Runs : retentions[run].completed \subseteq everEnded

\* However runs, recoveries and the pages' writes interleave, with clocks that go
\* back too, the session that ended last is never deleted: what a run took for the
\* newest when it listed them may be out of date when it deletes, but only to the
\* safe side.  Excepted is a session that had ended at another time before: a run
\* that listed it then deletes it now.
NewestEndedKept ==
  \A ended \in everEnded :
    (\A other \in everEnded \ {ended} : other.id # ended.id /\ Before(other, ended)) =>
      ended.id \in DOMAIN sessions
===============================================================================
