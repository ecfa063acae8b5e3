---------------------------- MODULE ReplayContract ----------------------------
(***************************************************************************)
(* What the durable outbox promises about one message or presence, said    *)
(* without journals, calls or memos: it is accepted once, takes effect at  *)
(* most once, and is settled once, with a verdict that is true for good.   *)
(* Only a request the client was refused may still take effect afterwards. *)
(***************************************************************************)
CONSTANT Request

VARIABLES outcome, done

Verdicts == {"applied", "expired", "superseded", "rejected"}

ContractInit ==
    /\ outcome = [i \in Request |-> "absent"]
    /\ done = {}

Accept(i) ==
    /\ outcome[i] = "absent"
    /\ outcome' = [outcome EXCEPT ![i] = "pending"]
    /\ UNCHANGED done

TakeEffect(i) ==
    /\ outcome[i] \in {"pending", "rejected"}
    /\ i \notin done
    /\ done' = done \cup {i}
    /\ UNCHANGED outcome

Conclude(i, v) ==
    /\ outcome[i] = "pending"
    /\ v = "applied" => i \in done
    /\ v \in {"expired", "superseded"} => i \notin done
    /\ outcome' = [outcome EXCEPT ![i] = v]
    /\ UNCHANGED done

ContractNext ==
    \E i \in Request :
        Accept(i) \/ TakeEffect(i) \/ \E v \in Verdicts : Conclude(i, v)

Contract == ContractInit /\ [][ContractNext]_<<outcome, done>>
=============================================================================
