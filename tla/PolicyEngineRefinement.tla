----------------------- MODULE PolicyEngineRefinement -----------------------
(***************************************************************************)
(* The engine implements ThrottleSpec: the tokens, the nodes and the count *)
(* of refused calls are seen as stages, a queue and a spent budget.        *)
(***************************************************************************)
EXTENDS PolicyEngineProperties

\* Queued without a token. Granted waiters are served already, although the walk
\* has yet to unlink them.
Unserved(t) == Waits(t) /\ ~granted[t]

\* A call is through once it is admitted, granted, or has given up its wait.
CallStage(t) ==
    CASE pc[t] \in {"user", "wrapper", "entered"} -> "outside"
      [] pc[t] = "count" -> "deciding"
      [] pc[t] \in {"blocked", "stats", "enqueue"} -> "refused"
      [] Unserved(t) /\ pc[t] # "interrupted" -> "queued"
      [] Unserved(t) /\ pc[t] = "interrupted" -> "leaving"
      [] OTHER -> "through"

CallRule(t) ==
    IF CallStage(t) \in {"outside", "through"} THEN NoRule
    ELSE Selected(rules_list, Task[t], sysno[t])

CallBefore(t) == IF Unserved(t) THEN {u \in ahead[t] : Unserved(u)} ELSE {}

\* The nodes that nobody waits on.
Abandoned == {t \in ToSet(fifo_waiters) : ~Unserved(t) /\ ~BeingUnlinked(t)}

\* current_calls counts the refused calls too: what is spent stops at the limit.
Spent(r) == IF current_calls[r] < Rule[r].max_calls THEN current_calls[r] ELSE Rule[r].max_calls

\* In set_global_monitor_state(0), from the store on.
Flushers == {k \in Walkers \ {Timer} : kpc[k] \in {"lock", "walk", "unlink", "wake"}}

Throttle == INSTANCE ThrottleSpec WITH
    Limit <- [r \in RuleIds |-> Rule[r].max_calls],
    Switchers <- Admins \cup {Rmmod},
    stage <- [t \in Threads |-> CallStage(t)],
    rule <- [t \in Threads |-> CallRule(t)],
    before <- [t \in Threads |-> CallBefore(t)],
    absent <- Abandoned,
    used <- [r \in RuleIds |-> Spent(r)],
    on <- global_monitor_state,
    flushing <- Flushers

\* README.md:39 and :45, the limit per window, "FIFO Strict" and the switch, together.
\* With the rules left alone, every step of callers, timer, signals, toggles and rmmod is a
\* step of ThrottleSpec: nobody is refused while there is budget, nobody is let through
\* without one except who a signal or a switch-off sends home, and a switch-off
\* leaves nobody in the queue.
ImplementsThrottle == Throttle!TSpec
=============================================================================
