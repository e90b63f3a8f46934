------------------------------ MODULE RuleStats ------------------------------
(***************************************************************************)
(* The rules of kmod/registry_data.c with the statistics they carry, and   *)
(* the operations ioctl and the engine perform on the list of them, each   *)
(* in one critical section of registry_lock. A rule is                     *)
(*    [config |-> [target_uid, comm, syscall_num, max_calls],              *)
(*     peak_delay, victim, peak_threads_blocked,                           *)
(*     cumulative_threads_blocked, throttle_events]                        *)
(* where victim stands for peak_victim_uid and peak_victim_comm, which are *)
(* written together. current_calls, which is no statistic, is in           *)
(* PolicyEngine.                                                           *)
(***************************************************************************)
EXTENDS Integers, SequencesExt

NoUid == -1             \* "nessun filtro", and no victim

\* add_rule(): published at the tail.
NewRule(config) ==
    [config |-> config, peak_delay |-> 0, victim |-> NoUid, peak_threads_blocked |-> 0,
     cumulative_threads_blocked |-> 0, throttle_events |-> 0]

\* The first rule on exactly n, or 0: where every loop but is_throttled()'s stops.
IndexOn(rules, n) ==
    LET on == {i \in DOMAIN rules : rules[i].config.syscall_num = n}
    IN  IF on = {} THEN 0 ELSE Min(on)

\* faulty: the loop does not stop
Every(rules, n) == {i \in DOMAIN rules : rules[i].config.syscall_num = n}
Charged(rules, n) == {IndexOn(rules, n)}

Cleared(rule) ==
    [rule EXCEPT !.peak_delay = 0, !.victim = NoUid, !.peak_threads_blocked = 0,
                 !.cumulative_threads_blocked = 0, !.throttle_events = 0]

reset_rule_stats(rules, n) ==
    [i \in DOMAIN rules |-> IF i \in Charged(rules, n) THEN Cleared(rules[i]) ELSE rules[i]]

Larger(i, j) == IF i > j THEN i ELSE j

\* faulty: the peak is always overwritten
Overwritten(rule, now) == now
NewPeak(rule, now) == Larger(now, rule.peak_threads_blocked)

\* One more thread has blocked, which makes `now' of them.
ThreadBlocked(rule, now) ==
    [rule EXCEPT !.peak_threads_blocked = NewPeak(rule, now),
                 !.cumulative_threads_blocked = @ + now,
                 !.throttle_events = @ + 1]

update_thread_stats(rules, n, now) ==
    [i \in DOMAIN rules |->
        IF i \in Charged(rules, n) THEN ThreadBlocked(rules[i], now) ELSE rules[i]]

\* The victim goes with the longest delay.
ThreadDelayed(rule, cycles, uid) ==
    IF cycles > rule.peak_delay
    THEN [rule EXCEPT !.peak_delay = cycles, !.victim = uid]
    ELSE rule

update_peak_delay(rules, n, cycles, uid) ==
    [i \in DOMAIN rules |->
        IF i \in Charged(rules, n) THEN ThreadDelayed(rules[i], cycles, uid) ELSE rules[i]]

\* get_rule_stats(): what is copied out, with the average, rounded down.
Report(rule) ==
    [peak_delay |-> rule.peak_delay, victim |-> rule.victim,
     peak_threads_blocked |-> rule.peak_threads_blocked,
     average_threads_blocked |->
        IF rule.throttle_events > 0
        THEN rule.cumulative_threads_blocked \div rule.throttle_events
        ELSE 0]

\* faulty: past the end of the payload
All(rules, room) == Len(rules)
Shown(rules, room) == IF Len(rules) > room THEN room ELSE Len(rules)

\* get_active_rules(): as many as the payload has room for.
Export(rules, room) == [i \in 1 .. Shown(rules, room) |-> rules[i].config]
=============================================================================
