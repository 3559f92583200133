----------------------------- MODULE ReportsMC -----------------------------
(* Small instances of Reports: days of two hours of two ticks, a window of two days, rows kept
   for one tick more. *)
EXTENDS Reports, TLC

Kind(status, exec, created, started, ended, completed, sighted) ==
    [status |-> status, exec |-> exec, images |-> exec, created |-> created, started |-> started,
     ended |-> ended, completed |-> completed, seen |-> sighted]

\* A long job that was seen although its submission is reported, a short one that was cancelled and
\* not seen, one whose wait is that since a sighting and whose end is not reported with its
\* completion, one of which ComfyUI tells nothing at first and then no more than its end.
JobKinds == {Kind("success", 3, TRUE, TRUE, TRUE, TRUE, TRUE),
             Kind("cancelled", 1, FALSE, TRUE, TRUE, FALSE, FALSE),
             Kind("success", 2, FALSE, TRUE, FALSE, TRUE, TRUE),
             Kind("unknown", 1, FALSE, FALSE, FALSE, FALSE, TRUE)}

Symmetry == Permutations(Labels) \union Permutations(Prompts)
=============================================================================
