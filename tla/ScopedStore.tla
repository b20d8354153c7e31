---------------------------- MODULE ScopedStore ----------------------------
(***************************************************************************)
(* What the temporary stores of api/ promise to the routes, without their  *)
(* clock reads, locks or cleanup task: an entry is admitted once, is shown *)
(* to its owner only and only while it is held, and stops being held for   *)
(* one of three reasons: it is due, its owner withdrew it, or the process  *)
(* shut down.                                                              *)
(***************************************************************************)
EXTENDS Naturals

CONSTANTS Owner, Id, TTL, None

VARIABLES clock,      \* wall-clock time
          entry,      \* entry[i]: the owner and deadline i was issued with, or None
          phase,      \* phase[i]: unknown -> issued -> held -> gone
          shown,      \* pairs <<owner, id>> some answered caller is looking at
          withdrawn,  \* pairs <<caller, id>> of successful deletions
          up          \* the process is serving requests

vars == <<clock, entry, phase, shown, withdrawn, up>>

Due(i) == phase[i] = "held" /\ entry[i].expires_at <= clock

Init ==
    /\ clock = 0
    /\ entry = [i \in Id |-> None]
    /\ phase = [i \in Id |-> "unknown"]
    /\ shown = {}
    /\ withdrawn = {}
    /\ up = TRUE

TimePasses ==
    /\ clock' = clock + 1
    /\ UNCHANGED <<entry, phase, shown, withdrawn, up>>

\* An id is issued once, for one owner, with its deadline one TTL ahead.
Issue(i, o) ==
    /\ up
    /\ phase[i] = "unknown"
    /\ entry' = [entry EXCEPT ![i] = [owner |-> o, expires_at |-> clock + TTL]]
    /\ phase' = [phase EXCEPT ![i] = "issued"]
    /\ shown' \subseteq shown
    /\ UNCHANGED <<clock, withdrawn, up>>

\* Entries that are due may be dropped at any time, by anybody's call.
Forget ==
    /\ up
    /\ \A i \in Id : phase'[i] = phase[i] \/ (Due(i) /\ phase'[i] = "gone")
    /\ UNCHANGED <<clock, entry, shown, withdrawn, up>>

\* The issued entry becomes available; entries that are due may go with it.
Admit(i) ==
    /\ up
    /\ phase[i] = "issued"
    /\ phase'[i] = "held"
    /\ \A j \in Id \ {i} : phase'[j] = phase[j] \/ (Due(j) /\ phase'[j] = "gone")
    /\ UNCHANGED <<clock, entry, shown, withdrawn, up>>

Show(i, o) ==
    /\ up
    /\ phase[i] = "held"
    /\ entry[i].owner = o
    /\ shown' = shown \cup {<<o, i>>}
    /\ UNCHANGED <<clock, entry, phase, withdrawn, up>>

\* A caller looks away, to start another call.
LookAway ==
    /\ shown' \subseteq shown
    /\ UNCHANGED <<clock, entry, phase, withdrawn, up>>

Withdraw(i, o) ==
    /\ up
    /\ phase[i] = "held"
    /\ entry[i].owner = o
    /\ phase' = [phase EXCEPT ![i] = "gone"]
    /\ withdrawn' = withdrawn \cup {<<o, i>>}
    /\ shown' \subseteq shown
    /\ UNCHANGED <<clock, entry, up>>

ShutDown ==
    /\ up
    /\ up' = FALSE
    /\ \A i \in Id : phase'[i] = IF phase[i] = "held" THEN "gone" ELSE phase[i]
    /\ UNCHANGED <<clock, entry, shown, withdrawn>>

Next ==
    \/ TimePasses
    \/ \E i \in Id, o \in Owner : Issue(i, o) \/ Show(i, o) \/ Withdraw(i, o)
    \/ \E i \in Id : Admit(i)
    \/ Forget
    \/ LookAway
    \/ ShutDown

Spec == Init /\ [][Next]_vars
=============================================================================
