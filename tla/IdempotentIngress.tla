--------------------------- MODULE IdempotentIngress ---------------------------
(***************************************************************************)
(* What a sender of automation events may rely on: all deliveries under    *)
(* one idempotency key are one job.  The job is accepted or rejected once, *)
(* an accepted job is queued once, and no delivery is told that its job is *)
(* queued or ignored before that is so.                                    *)
(***************************************************************************)
CONSTANTS Keys

VARIABLES
    job,     \* per key, how far its job is
    told     \* pairs of a key and an answer that some delivery was given

Init ==
    /\ job = [k \in Keys |-> "unknown"]
    /\ told = {}

Record(k, verdict) ==
    /\ job[k] = "unknown"
    /\ verdict \in {"accepted", "rejected"}
    /\ job' = [job EXCEPT ![k] = verdict]

Queue(k) ==
    /\ job[k] = "accepted"
    /\ job' = [job EXCEPT ![k] = "queued"]

Tell(k) ==
    \/ /\ job'[k] = "queued"
       /\ told' = told \cup {<<k, "queued">>}
    \/ /\ job'[k] = "rejected"
       /\ told' = told \cup {<<k, "ignored">>}

\* A step that makes progress on a job may tell of it at once.
Next ==
    \E k \in Keys :
        /\ Queue(k) \/ (\E v \in {"accepted", "rejected"} : Record(k, v)) \/ job' = job
        /\ Tell(k) \/ told' = told

Spec == Init /\ [][Next]_<<job, told>>
================================================================================
