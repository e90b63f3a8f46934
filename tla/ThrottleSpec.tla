---------------------------- MODULE ThrottleSpec ----------------------------
(***************************************************************************)
(* What the throttling engine promises to its callers, with no lock, timer *)
(* callback, token or gauge: each rule has a budget of Limit[r] calls per  *)
(* window, a call over the budget is refused and queues, and every window  *)
(* serves the queue in order, each rule's waiters first come first served, *)
(* as far as the rule's budget goes. A caller may give up waiting; it then *)
(* makes its call without being charged for it.                            *)
(*                                                                         *)
(* The monitor can be switched off, which is over when the queue is empty. *)
(* A waiter that leaves by itself because the monitor is off may forget to *)
(* sign off: the next windows still save a call of its rule's budget for   *)
(* it, at most one. It speaks of a fixed list of rules.                    *)
(***************************************************************************)
EXTENDS Integers

CONSTANTS
    Threads,
    RuleIds,
    NoRule,     \* the rule of a call that none is about
    Limit,      \* [RuleIds -> Int], the rules' budgets
    Switchers   \* who may switch the monitor off

VARIABLES
    stage,      \* where each thread is: "outside", its call to be decided ("deciding"),
                \* "refused" but not yet "queued", "leaving" the queue by itself, "through"
    rule,       \* the rule its undecided or waiting call is about, or NoRule
    before,     \* who queued before each waiter and waits still
    absent,     \* who left the queue and has not signed off
    used,       \* budget spent in this window, per rule
    on,         \* the monitor is on
    flushing    \* who is switching it off

tvars == <<stage, rule, before, absent, used, on, flushing>>

TInit ==
    /\ stage = [t \in Threads |-> "outside"]
    /\ rule = [t \in Threads |-> NoRule]
    /\ before = [t \in Threads |-> {}]
    /\ absent = {}
    /\ used = [r \in RuleIds |-> 0]
    /\ on = TRUE
    /\ flushing = {}

Moves(t, from, to) ==
    /\ stage[t] = from
    /\ stage' = [stage EXCEPT ![t] = to]

Waiting == {t \in Threads : stage[t] \in {"queued", "leaving"}}
LeavesQueue(t) ==
    /\ before' = [u \in Threads |-> IF u = t THEN {} ELSE before[u] \ {t}]
    /\ rule' = [rule EXCEPT ![t] = NoRule]

Exhausted(r) == r # NoRule /\ used[r] >= Limit[r]
Charge(r) == used' = IF r = NoRule THEN used ELSE [used EXCEPT ![r] = @ + 1]

\* A call reaches the engine: some rule is about it, or none.
Call(t) ==
    /\ on
    /\ Moves(t, "outside", "deciding")
    /\ \E r \in RuleIds \cup {NoRule} : rule' = [rule EXCEPT ![t] = r]
    /\ UNCHANGED <<before, absent, used, on, flushing>>

\* The monitor is off, the call of no interest.
Bypass(t) ==
    /\ ~on
    /\ Moves(t, "outside", "through")
    /\ UNCHANGED <<rule, before, absent, used, on, flushing>>

Return(t) ==
    /\ Moves(t, "through", "outside")
    /\ UNCHANGED <<rule, before, absent, used, on, flushing>>

\* A newcomer is let through while there is budget, whoever is queued.
Admit(t) ==
    /\ Moves(t, "deciding", "through")
    /\ ~Exhausted(rule[t])
    /\ Charge(rule[t])
    /\ rule' = [rule EXCEPT ![t] = NoRule]
    /\ UNCHANGED <<before, absent, on, flushing>>

Refuse(t) ==
    /\ Moves(t, "deciding", "refused")
    /\ Exhausted(rule[t])
    /\ UNCHANGED <<rule, before, absent, used, on, flushing>>

Queue(t) ==
    /\ Moves(t, "refused", "queued")
    /\ before' = [before EXCEPT ![t] = Waiting]
    /\ UNCHANGED <<rule, absent, used, on, flushing>>

\* The first of its rule's waiters is served from the rule's budget.
Serve(t) ==
    /\ Moves(t, "queued", "through") \/ Moves(t, "leaving", "through")
    /\ ~Exhausted(rule[t])
    /\ \A u \in before[t] : rule[u] # rule[t]
    /\ LeavesQueue(t)
    /\ Charge(rule[t])
    /\ UNCHANGED <<absent, on, flushing>>

\* A window has a call to spare for one that is no longer there.
ServeAbsent(t) ==
    /\ absent' = absent \ {t}
    /\ \E r \in RuleIds \cup {NoRule} : ~Exhausted(r) /\ Charge(r)
    /\ UNCHANGED <<stage, rule, before, on, flushing>>

LoseHeart(t) ==
    /\ on
    /\ Moves(t, "queued", "leaving")
    /\ UNCHANGED <<rule, before, absent, used, on, flushing>>

GiveUp(t) ==
    /\ Moves(t, "leaving", "through")
    /\ LeavesQueue(t)
    /\ UNCHANGED <<absent, used, on, flushing>>

\* A waiter finds the monitor off and leaves without a word.
WalkOut(t) ==
    /\ ~on
    /\ Moves(t, "queued", "through")
    /\ LeavesQueue(t)
    /\ absent' = absent \cup {t}
    /\ UNCHANGED <<used, on, flushing>>

\* Whoever switches the monitor off sends home those who wait, and strikes off those
\* who are not there. It goes on until nobody is left, also if the monitor is
\* switched on again meanwhile.
SendHome(t) ==
    /\ flushing # {}
    /\ Moves(t, "queued", "through") \/ Moves(t, "leaving", "through")
    /\ LeavesQueue(t)
    /\ UNCHANGED <<absent, used, on, flushing>>

StrikeOff(t) ==
    /\ flushing # {}
    /\ absent' = absent \ {t}
    /\ UNCHANGED <<stage, rule, before, used, on, flushing>>

SwitchOn ==
    /\ on' = TRUE
    /\ UNCHANGED <<stage, rule, before, absent, used, flushing>>

SwitchOff(k) ==
    /\ on' = FALSE
    /\ flushing' = flushing \cup {k}
    /\ UNCHANGED <<stage, rule, before, absent, used>>

Flushed(k) ==
    /\ Waiting = {} /\ absent = {}
    /\ flushing' = flushing \ {k}
    /\ UNCHANGED <<stage, rule, before, absent, used, on>>

NewWindow ==
    /\ used' = [r \in RuleIds |-> 0]
    /\ UNCHANGED <<stage, rule, before, absent, on, flushing>>

TNext ==
    \/ \E t \in Threads :
        \/ Call(t) \/ Bypass(t) \/ Return(t)
        \/ Admit(t) \/ Refuse(t) \/ Queue(t) \/ Serve(t)
        \/ LoseHeart(t) \/ GiveUp(t) \/ WalkOut(t) \/ SendHome(t)
    \/ \E t \in absent : ServeAbsent(t) \/ StrikeOff(t)
    \/ \E k \in Switchers : SwitchOff(k)
    \/ \E k \in flushing : Flushed(k)
    \/ SwitchOn \/ NewWindow

TSpec == TInit /\ [][TNext]_tvars
=============================================================================
