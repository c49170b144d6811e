---------------------------- MODULE Notification ----------------------------
(***************************************************************************)
(* What the notification queue promises for each client record, without    *)
(* workers, locks, transactions or the database: a notification is         *)
(* registered when the record is stored, may be attempted only after the   *)
(* record has been past the review gate, keeps one log entry per recorded  *)
(* attempt, is closed as delivered only on a logged success and as dead    *)
(* only on a logged failure, is never reopened, and disappears with its    *)
(* record.  AtMostOnceClosed says whether a closed notification may be     *)
(* closed again with the other verdict.                                    *)
(***************************************************************************)
EXTENDS Naturals, Sequences

CONSTANTS Records, AtMostOnceClosed

VARIABLES stage, log, cleared

nvars == <<stage, log, cleared>>

Init == /\ stage = [r \in Records |-> "absent"]
        /\ log = [r \in Records |-> <<>>]
        /\ cleared = {}

\* A record is stored, already past the gate or not, with a notification
\* owed or, when there is nobody to notify, without one.
Register(r) ==
    /\ stage[r] = "absent"
    /\ \E s \in {"pending", "none"} : stage' = [stage EXCEPT ![r] = s]
    /\ cleared' \in {cleared, cleared \cup {r}}
    /\ UNCHANGED log

\* A review lets records pass the gate.
Clear(rs) ==
    /\ \A r \in rs : stage[r] \notin {"absent", "erased"}
    /\ cleared' = cleared \cup rs
    /\ UNCHANGED <<stage, log>>

\* An attempt is recorded.
Attempt(r, success) ==
    /\ stage[r] \in {"pending", "done", "dead"}
    /\ r \in cleared
    /\ log' = [log EXCEPT ![r] = Append(@, success)]
    /\ UNCHANGED <<stage, cleared>>

\* The notification gets its verdict, backed by a log entry.
Close(r, verdict) ==
    /\ stage[r] \in IF AtMostOnceClosed THEN {"pending"}
                                        ELSE {"pending", "done", "dead"}
    /\ \E i \in 1..Len(log[r]) : log[r][i] = (verdict = "done")
    /\ stage' = [stage EXCEPT ![r] = verdict]
    /\ UNCHANGED <<log, cleared>>

\* The record is erased, its notification and log with it.
Erase(r) ==
    /\ stage[r] # "absent"
    /\ stage' = [stage EXCEPT ![r] = "erased"]
    /\ log' = [log EXCEPT ![r] = <<>>]
    /\ UNCHANGED cleared

Next == \/ \E r \in Records : \/ Register(r) \/ Erase(r)
                              \/ \E ok \in BOOLEAN : Attempt(r, ok)
                              \/ \E v \in {"done", "dead"} : Close(r, v)
        \/ \E rs \in SUBSET Records : Clear(rs)

Spec == Init /\ [][Next]_nvars
=============================================================================
