---------------------------- MODULE JobLedger ----------------------------
(***************************************************************************)
(* What the comfy_jobs table promises, whatever fails in between: a job is *)
(* recorded only after it has finished, at most once, and is never lost    *)
(* from the table again; what is known of its submission time never gets   *)
(* worse.                                                                  *)
(***************************************************************************)
CONSTANT Prompts

VARIABLES
    done,    \* the prompts that have finished
    ledger   \* what the table knows of each prompt

vars == <<done, ledger>>

Knowledge == {"absent", "unknown", "estimated", "exact"}

\* What a further drain may make of an entry.
Improves(old, new) ==
    \/ old = "absent" /\ new \in {"unknown", "estimated", "exact"}
    \/ old = "unknown" /\ new = "estimated"

Init ==
    /\ done = {}
    /\ ledger = [p \in Prompts |-> "absent"]

Complete(p) ==
    /\ p \notin done
    /\ done' = done \cup {p}
    /\ UNCHANGED ledger

Record(p) ==
    /\ p \in done
    /\ \E entry \in Knowledge :
          /\ Improves(ledger[p], entry)
          /\ ledger' = [ledger EXCEPT ![p] = entry]
    /\ UNCHANGED done

Next == \E p \in Prompts : Complete(p) \/ Record(p)

Spec == Init /\ [][Next]_vars
=============================================================================
