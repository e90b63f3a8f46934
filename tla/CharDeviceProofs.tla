--------------------------- MODULE CharDeviceProofs ---------------------------
(***************************************************************************)
(* Proofs about the control path, for any number of clients, callers and   *)
(* rules, whatever command lines and ioctls they use: type correctness,    *)
(* the coherence of the statistics, which rule is charged, and what the    *)
(* clients are told.                                                       *)
(***************************************************************************)
EXTENDS CharDevice, ListFacts

N == Cardinality(Threads)

\* What a rule may hold, coherent or not.
RuleStates ==
    [config : Rules, peak_delay : Delays \cup {0}, victim : Threads \cup {NoUid},
     peak_threads_blocked : 0 .. N, cumulative_threads_blocked : Nat, throttle_events : Nat]

\* What an operation on the statistics makes of a rule.
Successors(rule) ==
    {rule, Cleared(rule)}
        \cup {ThreadBlocked(rule, now) : now \in 1 .. N}
        \cup {ThreadDelayed(rule, cycles, uid) : cycles \in Delays, uid \in Threads}

\* All that ever happens to the list of rules.
RuleOperation ==
    \/ rules_list' = rules_list
    \/ /\ Len(rules_list) < MaxRules
       /\ \E config \in Rules : rules_list' = Append(rules_list, NewRule(config))
    \/ \E i \in 1 .. Len(rules_list) : rules_list' = RemoveAt(rules_list, i)
    \/ \E n : rules_list' = reset_rule_stats(rules_list, n)
    \/ \E n \in Syscalls, now \in 1 .. N : rules_list' = update_thread_stats(rules_list, n, now)
    \/ \E n \in Syscalls, cycles \in Delays, uid \in Threads :
            rules_list' = update_peak_delay(rules_list, n, cycles, uid)

LEMMA ThreadCount == N \in Nat
BY DeviceAssumption, FS_CardinalityType DEF N

\* Where the searches stop: at the first rule on the number, or nowhere.
LEMMA IndexOnIs ==
    ASSUME NEW S, NEW rules \in Seq(S), NEW n
    PROVE  /\ IndexOn(rules, n) \in 0 .. Len(rules)
           /\ IndexOn(rules, n) # 0 =>
                /\ rules[IndexOn(rules, n)].config.syscall_num = n
                /\ \A i \in 1 .. IndexOn(rules, n) - 1 : rules[i].config.syscall_num # n
<1> DEFINE on == {i \in DOMAIN rules : rules[i].config.syscall_num = n}
<1>1. Len(rules) \in Nat /\ DOMAIN rules = 1 .. Len(rules)
  BY LenProperties
<1>2. CASE on = {}
  <2>1. IndexOn(rules, n) = 0
    BY <1>2 DEF IndexOn
  <2> QED
    BY <1>1, <2>1
<1>3. CASE on # {}
  <2>1. IndexOn(rules, n) = Min(on)
    BY <1>3 DEF IndexOn
  <2>2. on \in SUBSET Nat /\ \A i \in 1 .. Len(rules) : rules[i].config.syscall_num = n => i \in on
    BY <1>1
  <2>3. \A i \in on : i \in 1 .. Len(rules) /\ rules[i].config.syscall_num = n
    BY <1>1
  <2> HIDE DEF on
  <2>4. Min(on) \in on /\ \A m \in on : Min(on) <= m
    BY <1>3, <2>2, LeastIndex
  <2>5. Min(on) \in 1 .. Len(rules) /\ rules[Min(on)].config.syscall_num = n
    BY <2>3, <2>4
  <2>6. ASSUME NEW i \in 1 .. Min(on) - 1 PROVE rules[i].config.syscall_num # n
    <3>1. i \in 1 .. Len(rules) /\ ~(Min(on) <= i)
      BY <1>1, <2>5
    <3> QED
      BY <2>2, <2>4, <3>1
  <2>7. Min(on) \in 0 .. Len(rules)
    BY <1>1, <2>5
  <2> QED
    BY <2>1, <2>5, <2>6, <2>7, Zenon
<1> QED
  BY <1>2, <1>3

\* The operations change one field at a time, so to speak: a new rule is a rule.
LEMMA NewRuleType ==
    ASSUME NEW config \in Rules
    PROVE  NewRule(config) \in RuleStates /\ Coherent(NewRule(config))
BY ThreadCount DEF NewRule, RuleStates, Coherent

LEMMA ClearedFields ==
    ASSUME NEW rule \in RuleStates
    PROVE  Cleared(rule) = NewRule(rule.config)
<1> DEFINE one == [rule EXCEPT !.peak_delay = 0]
           two == [one EXCEPT !.victim = NoUid]
           three == [two EXCEPT !.peak_threads_blocked = 0]
           four == [three EXCEPT !.cumulative_threads_blocked = 0]
<1>1. one = [config |-> rule.config, peak_delay |-> 0, victim |-> rule.victim,
             peak_threads_blocked |-> rule.peak_threads_blocked,
             cumulative_threads_blocked |-> rule.cumulative_threads_blocked,
             throttle_events |-> rule.throttle_events]
  BY DEF RuleStates
<1> HIDE DEF one
<1>2. two = [config |-> rule.config, peak_delay |-> 0, victim |-> NoUid,
             peak_threads_blocked |-> rule.peak_threads_blocked,
             cumulative_threads_blocked |-> rule.cumulative_threads_blocked,
             throttle_events |-> rule.throttle_events]
  BY <1>1
<1> HIDE DEF two
<1>3. three = [config |-> rule.config, peak_delay |-> 0, victim |-> NoUid,
               peak_threads_blocked |-> 0,
               cumulative_threads_blocked |-> rule.cumulative_threads_blocked,
               throttle_events |-> rule.throttle_events]
  BY <1>2
<1> HIDE DEF three
<1>4. four = [config |-> rule.config, peak_delay |-> 0, victim |-> NoUid,
              peak_threads_blocked |-> 0, cumulative_threads_blocked |-> 0,
              throttle_events |-> rule.throttle_events]
  BY <1>3
<1> HIDE DEF four
<1>5. [four EXCEPT !.throttle_events = 0] = NewRule(rule.config)
  BY <1>4 DEF NewRule
<1> QED
  BY <1>5, Zenon DEF Cleared, one, two, three, four

LEMMA BlockedFields ==
    ASSUME NEW rule \in RuleStates, NEW now \in 1 .. N
    PROVE  ThreadBlocked(rule, now) =
            [config |-> rule.config, peak_delay |-> rule.peak_delay, victim |-> rule.victim,
             peak_threads_blocked |-> Larger(now, rule.peak_threads_blocked),
             cumulative_threads_blocked |-> rule.cumulative_threads_blocked + now,
             throttle_events |-> rule.throttle_events + 1]
<1> DEFINE peak == Larger(now, rule.peak_threads_blocked)
           one == [rule EXCEPT !.peak_threads_blocked = peak]
           two == [one EXCEPT !.cumulative_threads_blocked
                        = rule.cumulative_threads_blocked + now]
<1> HIDE DEF peak
<1>1. one = [config |-> rule.config, peak_delay |-> rule.peak_delay, victim |-> rule.victim,
             peak_threads_blocked |-> peak,
             cumulative_threads_blocked |-> rule.cumulative_threads_blocked,
             throttle_events |-> rule.throttle_events]
  BY DEF RuleStates
<1> HIDE DEF one
<1>2. two = [config |-> rule.config, peak_delay |-> rule.peak_delay, victim |-> rule.victim,
             peak_threads_blocked |-> peak,
             cumulative_threads_blocked |-> rule.cumulative_threads_blocked + now,
             throttle_events |-> rule.throttle_events]
  BY <1>1
<1> HIDE DEF two
<1>3. [two EXCEPT !.throttle_events = rule.throttle_events + 1]
        = [config |-> rule.config, peak_delay |-> rule.peak_delay, victim |-> rule.victim,
           peak_threads_blocked |-> peak,
           cumulative_threads_blocked |-> rule.cumulative_threads_blocked + now,
           throttle_events |-> rule.throttle_events + 1]
  BY <1>2
<1> QED
  BY <1>3, Zenon DEF ThreadBlocked, NewPeak, one, two, peak

LEMMA DelayedFields ==
    ASSUME NEW rule \in RuleStates, NEW cycles \in Delays, NEW uid \in Threads
    PROVE  ThreadDelayed(rule, cycles, uid) \in
            {rule,
             [config |-> rule.config, peak_delay |-> cycles, victim |-> uid,
              peak_threads_blocked |-> rule.peak_threads_blocked,
              cumulative_threads_blocked |-> rule.cumulative_threads_blocked,
              throttle_events |-> rule.throttle_events]}
BY DEF ThreadDelayed, RuleStates

\* One more event of at most the peak, old or new, keeps the sum below events times peak.
LEMMA SumBelow ==
    ASSUME NEW sum \in Nat, NEW events \in Nat, NEW peak \in Nat, NEW now \in Nat,
           sum <= events * peak
    PROVE  sum + now <= (events + 1) * Larger(now, peak)
<1> DEFINE top == Larger(now, peak)
<1>1. top \in Nat /\ now <= top /\ peak <= top
  BY DEF Larger
<1>2. PICK d \in Nat : top = peak + d
  <2>1. top - peak \in Nat /\ top = peak + (top - peak)
    BY <1>1
  <2> QED
    BY <2>1
<1> HIDE DEF top
<1>3. events * top = events * peak + events * d /\ events * d \in Nat /\ events * peak \in Nat
  BY <1>1, <1>2
<1>4. (events + 1) * top = events * top + top /\ events * top \in Nat
  BY <1>1
<1>5. sum + now <= (events + 1) * top
  BY <1>1, <1>3, <1>4
<1> QED
  BY <1>5 DEF top

LEMMA SuccessorOfRule ==
    ASSUME NEW rule \in RuleStates, NEW after \in Successors(rule)
    PROVE  /\ after \in RuleStates /\ after.config = rule.config
           /\ Coherent(rule) => Coherent(after)
<1>1. CASE after = rule
  BY <1>1
<1>2. CASE after = Cleared(rule)
  <2>1. rule.config \in Rules /\ after = NewRule(rule.config)
    BY <1>2, ClearedFields DEF RuleStates
  <2>2. after.config = rule.config
    BY <2>1 DEF NewRule
  <2> QED
    BY <2>1, <2>2, NewRuleType
<1>3. ASSUME NEW now \in 1 .. N, after = ThreadBlocked(rule, now)
      PROVE  /\ after \in RuleStates /\ after.config = rule.config
             /\ Coherent(rule) => Coherent(after)
  <2>1. /\ rule.peak_threads_blocked \in 0 .. N /\ rule.throttle_events \in Nat
        /\ rule.cumulative_threads_blocked \in Nat
    BY DEF RuleStates
  <2>2. Larger(now, rule.peak_threads_blocked) \in 1 .. N
    BY <2>1, ThreadCount DEF Larger
  <2>3. after \in RuleStates /\ after.config = rule.config
    BY <1>3, <2>1, <2>2, BlockedFields, ThreadCount DEF RuleStates
  <2>4. ASSUME Coherent(rule) PROVE Coherent(after)
    <3>1. /\ after.throttle_events = rule.throttle_events + 1
          /\ after.peak_threads_blocked = Larger(now, rule.peak_threads_blocked)
          /\ after.cumulative_threads_blocked = rule.cumulative_threads_blocked + now
          /\ after.peak_delay = rule.peak_delay /\ after.victim = rule.victim
      BY <1>3, BlockedFields
    <3>2. after.cumulative_threads_blocked <= after.throttle_events * after.peak_threads_blocked
      BY <2>1, <2>4, <3>1, SumBelow, ThreadCount DEF Coherent
    <3>3. after.throttle_events <= after.cumulative_threads_blocked
      BY <2>1, <2>4, <3>1, ThreadCount DEF Coherent
    <3>4. after.throttle_events # 0 /\ after.peak_threads_blocked # 0
      BY <2>1, <2>2, <3>1
    <3> QED
      BY <2>4, <3>1, <3>2, <3>3, <3>4 DEF Coherent
  <2> QED
    BY <2>3, <2>4
<1>4. ASSUME NEW cycles \in Delays, NEW uid \in Threads,
             after = ThreadDelayed(rule, cycles, uid)
      PROVE  /\ after \in RuleStates /\ after.config = rule.config
             /\ Coherent(rule) => Coherent(after)
  <2>1. cycles # 0 /\ uid # NoUid
    BY DeviceAssumption DEF NoUid
  <2> QED
    BY <1>1, <1>4, <2>1, DelayedFields DEF RuleStates, Coherent
<1> QED
  BY <1>1, <1>2, <1>3, <1>4 DEF Successors
-----------------------------------------------------------------------------
(* What the operations do to the list.                                     *)

LEMMA SequenceOf ==
    ASSUME NEW S, NEW n \in Nat, NEW s \in [1 .. n -> S]
    PROVE  s \in Seq(S) /\ Len(s) = n
<1>1. s \in Seq(S)
  BY SeqDef
<1>2. Len(s) \in Nat /\ 1 .. Len(s) = 1 .. n
  BY <1>1, LenProperties
<1> QED
  BY <1>1, <1>2

\* Every rule listed afterwards is new, or made from one that was listed before.
LEMMA ListAfter ==
    ASSUME rules_list \in Seq(RuleStates), RuleOperation
    PROVE  /\ rules_list' \in Seq(RuleStates)
           /\ Len(rules_list') <= Len(rules_list) \/ Len(rules_list') <= MaxRules
           /\ \A j \in DOMAIN rules_list' :
                \/ \E config \in Rules : rules_list'[j] = NewRule(config)
                \/ \E i \in DOMAIN rules_list : rules_list'[j] \in Successors(rules_list[i])
<1>1. /\ Len(rules_list) \in Nat /\ DOMAIN rules_list = 1 .. Len(rules_list)
      /\ \A i \in DOMAIN rules_list : rules_list[i] \in RuleStates
  BY LenProperties, ElementOfSeq
<1>2. \A rule : rule \in Successors(rule) /\ Cleared(rule) \in Successors(rule)
  BY DEF Successors
<1>3. CASE rules_list' = rules_list
  BY <1>1, <1>2, <1>3
<1>4. ASSUME Len(rules_list) < MaxRules,
             NEW config \in Rules, rules_list' = Append(rules_list, NewRule(config))
      PROVE  /\ rules_list' \in Seq(RuleStates)
             /\ Len(rules_list') <= MaxRules
             /\ \A j \in DOMAIN rules_list' :
                    \/ rules_list'[j] = NewRule(config)
                    \/ \E i \in DOMAIN rules_list : rules_list'[j] \in Successors(rules_list[i])
  <2>1. NewRule(config) \in RuleStates
    BY NewRuleType
  <2>2. /\ rules_list' \in Seq(RuleStates) /\ Len(rules_list') = Len(rules_list) + 1
        /\ \A i \in 1 .. Len(rules_list) : rules_list'[i] = rules_list[i]
        /\ rules_list'[Len(rules_list) + 1] = NewRule(config)
    BY <1>4, <2>1, AppendProperties
  <2>3. DOMAIN rules_list' = 1 .. Len(rules_list) + 1
    BY <2>2, LenProperties
  <2> QED
    BY <1>1, <1>2, <1>4, <2>2, <2>3, DeviceAssumption
<1>5. ASSUME NEW k \in 1 .. Len(rules_list), rules_list' = RemoveAt(rules_list, k)
      PROVE  /\ rules_list' \in Seq(RuleStates)
             /\ Len(rules_list') <= Len(rules_list)
             /\ \A j \in DOMAIN rules_list' :
                    \E i \in DOMAIN rules_list : rules_list'[j] \in Successors(rules_list[i])
  <2>1. /\ rules_list' \in Seq(RuleStates) /\ Len(rules_list') = Len(rules_list) - 1
        /\ \A j \in 1 .. Len(rules_list) - 1 :
            rules_list'[j] = IF j < k THEN rules_list[j] ELSE rules_list[j + 1]
    BY <1>5, RemoveAtElements
  <2>2. DOMAIN rules_list' = 1 .. Len(rules_list) - 1
    BY <2>1, LenProperties
  <2> QED
    BY <1>1, <1>2, <2>1, <2>2
<1>6. ASSUME rules_list' \in [DOMAIN rules_list -> RuleStates],
             \A i \in DOMAIN rules_list : rules_list'[i] \in Successors(rules_list[i])
      PROVE  /\ rules_list' \in Seq(RuleStates)
             /\ Len(rules_list') <= Len(rules_list)
             /\ \A j \in DOMAIN rules_list' :
                    \E i \in DOMAIN rules_list : rules_list'[j] \in Successors(rules_list[i])
  BY <1>1, <1>6, SequenceOf
<1>7. \A i \in DOMAIN rules_list :
        \A after \in Successors(rules_list[i]) : after \in RuleStates
  BY <1>1, SuccessorOfRule
<1>8. ASSUME NEW n, rules_list' = reset_rule_stats(rules_list, n)
      PROVE  /\ rules_list' \in [DOMAIN rules_list -> RuleStates]
             /\ \A i \in DOMAIN rules_list : rules_list'[i] \in Successors(rules_list[i])
  BY <1>2, <1>7, <1>8 DEF reset_rule_stats
<1>9. ASSUME NEW n, NEW now \in 1 .. N, rules_list' = update_thread_stats(rules_list, n, now)
      PROVE  /\ rules_list' \in [DOMAIN rules_list -> RuleStates]
             /\ \A i \in DOMAIN rules_list : rules_list'[i] \in Successors(rules_list[i])
  <2>1. \A rule : ThreadBlocked(rule, now) \in Successors(rule)
    BY DEF Successors
  <2> QED
    BY <1>2, <1>7, <1>9, <2>1 DEF update_thread_stats
<1>10. ASSUME NEW n, NEW cycles \in Delays, NEW uid \in Threads,
              rules_list' = update_peak_delay(rules_list, n, cycles, uid)
       PROVE  /\ rules_list' \in [DOMAIN rules_list -> RuleStates]
              /\ \A i \in DOMAIN rules_list : rules_list'[i] \in Successors(rules_list[i])
  <2>1. \A rule : ThreadDelayed(rule, cycles, uid) \in Successors(rule)
    BY DEF Successors
  <2> QED
    BY <1>2, <1>7, <1>10, <2>1 DEF update_peak_delay
<1> QED
  BY <1>3, <1>4, <1>5, <1>6, <1>8, <1>9, <1>10 DEF RuleOperation
-----------------------------------------------------------------------------
(* The inductive invariant.                                                *)

Ioctls == RawIoctls \cup {Request(Parsed(line)) : line \in CommandLines} \cup {NoIoctl}
Results == {"ok", "failed", "EPERM", "ENOTTY", "EFAULT", "ENOMEM", "ENOENT"}
Payloads ==
    {Nothing} \cup {<<Report(rule)>> : rule \in RuleStates}
        \cup {list \in Seq(Rules) : Len(list) <= MAX_RULES_EXPORT}

RulesOK == rules_list \in Seq(RuleStates) /\ Len(rules_list) <= MaxRules

\* What a client has been told fits what it has got and what was done for it.
Fits(label, request, code, answer, what) ==
    /\ label # "return" => code = "ok" /\ what = "nothing"
    /\ label \in {"serve", "copyout"} => request.cmd \in Commands
    /\ label \in {"idle", "ioctl", "serve"} => answer = Nothing
    /\ label = "return" => what = IF code = "ok" THEN request.cmd ELSE "nothing"

ClientsOK ==
    /\ cpc \in [Clients -> {"idle", "ioctl", "serve", "copyout", "return"}]
    /\ ioctl \in [Clients -> Ioctls]
    /\ ret \in [Clients -> Results]
    /\ payload \in [Clients -> Payloads]
    /\ done \in [Clients -> Commands \cup {"nothing"}]
    /\ \A c \in Clients : Fits(cpc[c], ioctl[c], ret[c], payload[c], done[c])

\* The threads total_blocked_threads counts.
Inside == {t \in Threads : tpc[t] \in {"stats", "blocked"}}

ThreadsOK ==
    /\ tpc \in [Threads -> {"user", "stats", "blocked", "peak"}]
    /\ sysno \in [Threads -> Syscalls]
    /\ current_val \in [Threads -> 0 .. N]
    /\ calls \in [Threads -> 0 .. MaxCalls]
    /\ total_blocked_threads = Cardinality(Inside)
    /\ \A t \in Threads : tpc[t] = "stats" => current_val[t] # 0

ControlInv == RulesOK /\ global_monitor_state \in BOOLEAN /\ ClientsOK /\ ThreadsOK

\* The command of no ioctl at all is none, and that is no command.
LEMMA SomeCommand ==
    ASSUME NEW request \in Ioctls, request.cmd \in Commands
    PROVE  request.config \in Rules
<1>1. NoIoctl.cmd \notin Commands
  BY DEF NoIoctl, Ioctl, Commands
<1> QED
  BY <1>1 DEF Ioctls, Rules

\* The list changes in no other way.
LEMMA RuleSteps ==
    ASSUME ControlInv, [Next]_vars
    PROVE  RuleOperation
<1>1. CASE UNCHANGED rules_list
  BY <1>1 DEF RuleOperation
<1>2. ASSUME NEW c \in Clients, ClientStep(c) PROVE RuleOperation
  <2>1. CASE SetRule(c)
    <3>1. ioctl[c] \in Ioctls /\ ioctl[c].cmd \in Commands
      BY <2>1 DEF ControlInv, ClientsOK, SetRule, Serving, Commands
    <3> QED
      BY <2>1, <3>1, SomeCommand DEF SetRule, RuleOperation
  <2>2. CASE RemoveRule(c)
    <3>1. IndexOn(rules_list, Number(c)) \in 0 .. Len(rules_list)
      BY IndexOnIs DEF ControlInv, RulesOK
    <3>2. Len(rules_list) \in Nat
      BY LenProperties DEF ControlInv, RulesOK
    <3> QED
      BY <2>2, <3>1, <3>2 DEF RemoveRule, RuleOperation
  <2>3. CASE ResetStats(c)
    BY <2>3 DEF ResetStats, RuleOperation
  <2>4. CASE \/ \E euid \in {Root, 1000} : Refuse(c, euid)
             \/ Accept(c) \/ ToggleMonitor(c) \/ GetStats(c) \/ ListRules(c)
             \/ CopyOut(c) \/ Exit(c)
    BY <1>1, <2>4 DEF Refuse, Accept, ToggleMonitor, GetStats, ListRules, CopyOut, Exit
  <2> QED
    BY <1>2, <2>1, <2>2, <2>3, <2>4 DEF ClientStep
<1>3. ASSUME NEW t \in Threads, ThreadStep(t) PROVE RuleOperation
  <2>1. CASE RecordBlocked(t)
    <3>1. sysno[t] \in Syscalls /\ current_val[t] \in 1 .. N
      BY <2>1, ThreadCount DEF ControlInv, ThreadsOK, RecordBlocked, AtT
    <3> QED
      BY <2>1, <3>1 DEF RecordBlocked, RuleOperation
  <2>2. CASE RecordDelay(t)
    BY <2>2 DEF RecordDelay, RuleOperation, ControlInv, ThreadsOK
  <2>3. CASE Unblock(t) \/ \E n \in Syscalls : Block(t, n)
    BY <1>1, <2>3 DEF Unblock, Block
  <2> QED
    BY <1>3, <2>1, <2>2, <2>3 DEF ThreadStep
<1>4. CASE \/ \E c \in Tools, line \in CommandLines : RunTool(c, line)
           \/ \E c \in Raw, request \in RawIoctls : CallIoctl(c, request)
           \/ UNCHANGED vars
  BY <1>1, <1>4 DEF RunTool, CallIoctl, vars
<1> QED
  BY <1>2, <1>3, <1>4 DEF Next

LEMMA RulesStep ==
    ASSUME ControlInv, [Next]_vars
    PROVE  RulesOK'
<1>1. Len(rules_list) \in Nat
  BY LenProperties DEF ControlInv, RulesOK
<1>2. Len(rules_list') \in Nat /\ rules_list' \in Seq(RuleStates)
  BY RuleSteps, ListAfter, LenProperties DEF ControlInv, RulesOK
<1> QED
  BY <1>1, <1>2, RuleSteps, ListAfter, DeviceAssumption DEF ControlInv, RulesOK

\* The callers: the gauge is the number of those inside.
LEMMA ThreadsStep ==
    ASSUME ThreadsOK, [Next]_vars
    PROVE  ThreadsOK'
<1>1. /\ IsFiniteSet(Inside) /\ Cardinality(Inside) \in Nat
      /\ \A S \in SUBSET Threads : IsFiniteSet(S) /\ Cardinality(S) \in 0 .. N
  <2>1. ASSUME NEW S \in SUBSET Threads
        PROVE  IsFiniteSet(S) /\ Cardinality(S) \in Nat /\ Cardinality(S) <= N
    BY DeviceAssumption, FS_Subset, FS_CardinalityType DEF N
  <2>2. Inside \in SUBSET Threads
    BY DEF Inside
  <2> QED
    BY <2>1, <2>2, ThreadCount
<1>2. CASE UNCHANGED <<total_blocked_threads, thread>>
  BY <1>2 DEF ThreadsOK, Inside, thread
<1>3. ASSUME NEW t \in Threads, NEW n \in Syscalls, Block(t, n) PROVE ThreadsOK'
  <2>1. Inside' = Inside \cup {t} /\ t \notin Inside
    BY <1>3 DEF ThreadsOK, Inside, Block, AtT, GotoT
  <2>2. Cardinality(Inside') = Cardinality(Inside) + 1 /\ Cardinality(Inside') \in 0 .. N
    BY <1>1, <2>1, CardinalityMove DEF Inside
  <2>3. calls[t] + 1 \in 0 .. MaxCalls
    BY <1>3, DeviceAssumption DEF ThreadsOK, Block
  <2> QED
    BY <1>1, <1>3, <2>2, <2>3 DEF ThreadsOK, Block, AtT, GotoT
<1>4. ASSUME NEW t \in Threads, RecordBlocked(t) PROVE ThreadsOK'
  <2>1. Inside' = Inside
    BY <1>4 DEF ThreadsOK, Inside, RecordBlocked, AtT, GotoT
  <2> QED
    BY <1>4, <2>1, ThreadCount DEF ThreadsOK, RecordBlocked, AtT, GotoT
<1>5. ASSUME NEW t \in Threads, Unblock(t) PROVE ThreadsOK'
  <2>1. Inside' = Inside \ {t} /\ t \in Inside
    BY <1>5 DEF ThreadsOK, Inside, Unblock, AtT, GotoT
  <2>2. Cardinality(Inside') = Cardinality(Inside) - 1
    BY <1>1, <2>1, CardinalityMove
  <2> QED
    BY <1>5, <2>2 DEF ThreadsOK, Unblock, AtT, GotoT
<1>6. ASSUME NEW t \in Threads, RecordDelay(t) PROVE ThreadsOK'
  <2>1. Inside' = Inside
    BY <1>6 DEF ThreadsOK, Inside, RecordDelay, AtT, GotoT
  <2> QED
    BY <1>6, <2>1 DEF ThreadsOK, RecordDelay, AtT, GotoT
<1>7. ASSUME NEW c \in Clients, ClientStep(c) PROVE ThreadsOK'
  BY <1>2, <1>7 DEF ClientStep, Refuse, Accept, SetRule, RemoveRule, ResetStats,
                    ToggleMonitor, GetStats, ListRules, CopyOut, Exit
<1>8. CASE \/ \E c \in Tools, line \in CommandLines : RunTool(c, line)
           \/ \E c \in Raw, request \in RawIoctls : CallIoctl(c, request)
           \/ UNCHANGED vars
  BY <1>2, <1>8 DEF RunTool, CallIoctl, vars
<1> QED
  BY <1>3, <1>4, <1>5, <1>6, <1>7, <1>8 DEF Next, ThreadStep

\* An exported list has room, and shows the rules as they were set.
LEMMA ExportedList ==
    ASSUME NEW rules \in Seq(RuleStates), NEW room \in Nat
    PROVE  Export(rules, room) \in Seq(Rules) /\ Len(Export(rules, room)) <= room
<1>1. /\ Len(rules) \in Nat
      /\ \A i \in 1 .. Len(rules) : rules[i] \in RuleStates
  BY LenProperties, ElementOfSeq
<1>2. /\ Shown(rules, room) \in Nat
      /\ Shown(rules, room) <= room /\ Shown(rules, room) <= Len(rules)
  BY <1>1 DEF Shown
<1>3. ASSUME NEW i \in 1 .. Shown(rules, room)
      PROVE  rules[i].config \in Rules
  <2>1. i \in 1 .. Len(rules)
    BY <1>1, <1>2
  <2>2. rules[i] \in RuleStates
    BY <1>1, <2>1
  <2> QED
    BY <2>2 DEF RuleStates
<1>4. Export(rules, room) \in [1 .. Shown(rules, room) -> Rules]
  BY <1>3 DEF Export
<1> QED
  BY <1>2, <1>4, SequenceOf

\* The clients: an ioctl that was refused has done nothing, one that was served has.
LEMMA ClientsStep ==
    ASSUME ControlInv, [Next]_vars
    PROVE  ClientsOK'
<1>1. ClientsOK
  BY DEF ControlInv
<1>2. CASE UNCHANGED client
  BY <1>1, <1>2 DEF ClientsOK, client
<1>3. ASSUME NEW c \in Tools, NEW line \in CommandLines, RunTool(c, line) PROVE ClientsOK'
  <2>1. c \in Clients /\ Request(Parsed(line)) \in Ioctls /\ "failed" \in Results
    BY DEF Clients, Ioctls, Results
  <2> QED
    BY <1>1, <1>3, <2>1 DEF ClientsOK, RunTool, At, Goto, Fits
<1>4. ASSUME NEW c \in Raw, NEW request \in RawIoctls, CallIoctl(c, request) PROVE ClientsOK'
  <2>1. c \in Clients /\ request \in Ioctls
    BY DEF Clients, Ioctls
  <2> QED
    BY <1>1, <1>4, <2>1 DEF ClientsOK, CallIoctl, At, Goto, Fits
<1>5. ASSUME NEW c \in Clients, ClientStep(c) PROVE ClientsOK'
  <2>1. CASE \E euid \in {Root, 1000} : Refuse(c, euid)
    <3>1. PICK euid \in {Root, 1000} : Refuse(c, euid)
      BY <2>1
    <3>2. PICK code \in Refusals(c, euid) : Return(c, code)
      BY <3>1 DEF Refuse
    <3>3. code \in Results /\ code # "ok"
      BY DEF Refusals, Results
    <3> QED
      BY <1>1, <3>1, <3>2, <3>3 DEF ClientsOK, Refuse, Return, At, Goto, Fits
  <2>2. CASE Accept(c)
    BY <1>1, <2>2 DEF ClientsOK, Accept, At, Goto, Fits
  <2>3. CASE SetRule(c)
    BY <1>1, <2>3 DEF ClientsOK, SetRule, Serving, At, Did, Return, Goto, Fits, Results, Commands
  <2>4. CASE RemoveRule(c)
    BY <1>1, <2>4 DEF ClientsOK, RemoveRule, NotFound, Serving, At, Did, Return, Goto, Fits,
                      Results, Commands
  <2>5. CASE ResetStats(c)
    BY <1>1, <2>5 DEF ClientsOK, ResetStats, NotFound, Serving, At, Did, Return, Goto, Fits,
                      Results, Commands
  <2>6. CASE ToggleMonitor(c)
    BY <1>1, <2>6 DEF ClientsOK, ToggleMonitor, Serving, At, Did, Return, Goto, Fits, Results,
                      Commands
  <2>7. CASE GetStats(c)
    <3> DEFINE i == IndexOn(rules_list, Number(c))
    <3>1. i # 0 => <<Report(rules_list[i])>> \in Payloads
      <4>1. i # 0 => i \in 1 .. Len(rules_list)
        BY IndexOnIs DEF ControlInv, RulesOK
      <4>2. i # 0 => rules_list[i] \in RuleStates
        BY <4>1, ElementOfSeq DEF ControlInv, RulesOK
      <4> QED
        BY <4>2 DEF Payloads
    <3> QED
      BY <1>1, <2>7, <3>1 DEF ClientsOK, GetStats, NotFound, Serving, At, Return, Goto, Fits,
                              Results, Commands
  <2>8. CASE ListRules(c)
    <3>1. Export(rules_list, MAX_RULES_EXPORT) \in Payloads
      BY ExportedList, DeviceAssumption DEF ControlInv, RulesOK, Payloads
    <3> QED
      BY <1>1, <2>8, <3>1 DEF ClientsOK, ListRules, Serving, At, Goto, Fits, Commands
  <2>9. CASE CopyOut(c)
    BY <1>1, <2>9 DEF ClientsOK, CopyOut, At, Did, Return, Goto, Fits, Results
  <2>10. CASE Exit(c)
    BY <1>1, <2>10 DEF ClientsOK, Exit, At, Goto, Fits, Results, Ioctls, Payloads
  <2> QED
    BY <1>5, <2>1, <2>2, <2>3, <2>4, <2>5, <2>6, <2>7, <2>8, <2>9, <2>10 DEF ClientStep
<1>6. ASSUME NEW t \in Threads, ThreadStep(t) PROVE ClientsOK'
  BY <1>2, <1>6 DEF ThreadStep, Block, RecordBlocked, Unblock, RecordDelay
<1> QED
  BY <1>2, <1>3, <1>4, <1>5, <1>6 DEF Next, vars

LEMMA ControlInit == Init => ControlInv
<1> SUFFICES ASSUME Init PROVE ControlInv
  OBVIOUS
<1>1. RulesOK
  BY DeviceAssumption, EmptySeq DEF Init, RulesOK
<1>2. ClientsOK
  BY DEF Init, ClientsOK, Fits, Results, Ioctls, Payloads
<1>3. Inside = {} /\ Cardinality({}) = 0
  BY FS_EmptySet DEF Init, Inside
<1>4. ThreadsOK
  BY <1>3, ThreadCount, DeviceAssumption DEF Init, ThreadsOK
<1> QED
  BY <1>1, <1>2, <1>4 DEF Init, ControlInv

LEMMA ControlStep ==
    ASSUME ControlInv, [Next]_vars
    PROVE  ControlInv'
<1>1. RulesOK' /\ ClientsOK' /\ ThreadsOK'
  BY RulesStep, ClientsStep, ThreadsStep DEF ControlInv
<1>2. global_monitor_state' \in BOOLEAN
  <2>1. \/ global_monitor_state' = global_monitor_state
        \/ \E c \in Clients : global_monitor_state' = (Number(c) # 0)
    BY DEF Next, ClientStep, ThreadStep, RunTool, CallIoctl, Refuse, Accept, SetRule,
           RemoveRule, ResetStats, ToggleMonitor, GetStats, ListRules, CopyOut, Exit,
           Block, RecordBlocked, Unblock, RecordDelay, vars
  <2> QED
    BY <2>1 DEF ControlInv
<1> QED
  BY <1>1, <1>2 DEF ControlInv

LEMMA ControlAlways == Spec => []ControlInv
<1>1. Init => ControlInv
  BY ControlInit
<1>2. ControlInv /\ [Next]_vars => ControlInv'
  BY ControlStep
<1> QED
  BY <1>1, <1>2, PTL DEF Spec

\* The variables of the control path always have the values of their types: the list
\* of rules and what is copied out stay within their room, and the gauge of blocked
\* threads, which every event reads, never leaves 0 .. the number of threads.
THEOREM TypesCorrect == Spec => []TypeOK
<1>1. ASSUME ControlInv PROVE TypeOK
  <2>1. /\ Len(rules_list) <= MaxRules
        /\ \A i \in DOMAIN rules_list : IsRule(rules_list[i])
    <3>1. \A i \in DOMAIN rules_list : rules_list[i] \in RuleStates
      BY <1>1, LenProperties, ElementOfSeq DEF ControlInv, RulesOK
    <3>2. \A rule \in RuleStates : IsRule(rule)
      BY DEF RuleStates, IsRule, N
    <3> QED
      BY <1>1, <3>1, <3>2 DEF ControlInv, RulesOK
  <2>2. total_blocked_threads \in 0 .. N
    <3>1. Inside \in SUBSET Threads
      BY DEF Inside
    <3>2. Cardinality(Inside) \in Nat /\ Cardinality(Inside) <= N
      BY <3>1, DeviceAssumption, FS_Subset, FS_CardinalityType DEF N
    <3> QED
      BY <1>1, <3>2, ThreadCount DEF ControlInv, ThreadsOK
  <2>3. \A c \in Clients : Len(payload[c]) <= Larger(1, MAX_RULES_EXPORT)
    <3> SUFFICES ASSUME NEW c \in Clients
                 PROVE  Len(payload[c]) <= Larger(1, MAX_RULES_EXPORT)
      OBVIOUS
    <3>1. payload[c] \in Payloads
      BY <1>1 DEF ControlInv, ClientsOK
    <3>2. \/ Len(payload[c]) = 0 \/ Len(payload[c]) = 1
          \/ Len(payload[c]) \in Nat /\ Len(payload[c]) <= MAX_RULES_EXPORT
      BY <3>1, LenProperties DEF Payloads, Nothing
    <3>3. /\ Larger(1, MAX_RULES_EXPORT) \in Nat
          /\ 1 <= Larger(1, MAX_RULES_EXPORT) /\ MAX_RULES_EXPORT <= Larger(1, MAX_RULES_EXPORT)
      BY DeviceAssumption DEF Larger
    <3>4. \A n \in Nat :
            n = 0 \/ n = 1 \/ n <= MAX_RULES_EXPORT => n <= Larger(1, MAX_RULES_EXPORT)
      BY <3>3, DeviceAssumption
    <3> QED
      BY <3>2, <3>4
  <2>4. \A c \in Clients : ioctl[c].config \in Rules \cup {NoIoctl.config}
    BY <1>1 DEF ControlInv, ClientsOK, Ioctls, Rules
  <2> QED
    BY <1>1, <2>1, <2>2, <2>3, <2>4
    DEF TypeOK, ControlInv, ClientsOK, ThreadsOK, Results, N
<1> QED
  BY <1>1, ControlAlways, PTL

\* Whatever other clients do in the meantime, a client that is told of success had its
\* request carried out, and one that is told of an error had nothing done to the rules.
THEOREM StatusesTruthful == Spec => []ExitStatusIsTruthful
<1>1. ControlInv => ExitStatusIsTruthful
  BY DEF ControlInv, ClientsOK, Fits, ExitStatusIsTruthful, At
<1> QED
  BY <1>1, ControlAlways, PTL
-----------------------------------------------------------------------------
(* The statistics.                                                         *)

RulesCoherent == \A i \in DOMAIN rules_list : Coherent(rules_list[i])
ReportsCoherent ==
    \A c \in Clients :
        ioctl[c].cmd = "GET_STATS" /\ payload[c] # Nothing => CoherentReport(payload[c][1])

\* Rounding down keeps the average between one and the peak.
LEMMA RoundedAverage ==
    ASSUME NEW sum \in Nat, NEW events \in Nat, events > 0, NEW peak \in Nat,
           events <= sum, sum <= events * peak
    PROVE  sum \div events \in 1 .. peak
<1> DEFINE q == sum \div events
           r == sum % events
<1>1. q \in Int /\ r \in 0 .. events - 1 /\ sum = events * q + r
  OBVIOUS
<1> HIDE DEF q, r
<1>2. q > 0
  <2> SUFFICES ASSUME q <= 0 PROVE FALSE
    BY <1>1
  <2>1. events * q <= 0
    BY <1>1
  <2> QED
    BY <1>1, <2>1
<1>3. q <= peak
  <2> SUFFICES ASSUME q >= peak + 1 PROVE FALSE
    BY <1>1
  <2>1. events * q >= events * (peak + 1) /\ events * (peak + 1) = events * peak + events
    BY <1>1
  <2> QED
    BY <1>1, <2>1
<1> QED
  BY <1>1, <1>2, <1>3 DEF q

LEMMA ReportOfRule ==
    ASSUME NEW rule \in RuleStates, Coherent(rule)
    PROVE  CoherentReport(Report(rule))
<1>1. /\ rule.peak_threads_blocked \in Nat /\ rule.throttle_events \in Nat
      /\ rule.cumulative_threads_blocked \in Nat
  BY ThreadCount DEF RuleStates
<1>2. CASE rule.throttle_events = 0
  BY <1>1, <1>2 DEF Report, Coherent, CoherentReport
<1>3. CASE rule.throttle_events > 0
  <2>1. rule.cumulative_threads_blocked \div rule.throttle_events
            \in 1 .. rule.peak_threads_blocked
    BY <1>1, <1>3, RoundedAverage DEF Coherent
  <2> QED
    BY <1>1, <1>3, <2>1 DEF Report, Coherent, CoherentReport
<1> QED
  BY <1>1, <1>2, <1>3

LEMMA RulesStayCoherent ==
    ASSUME ControlInv, RulesCoherent, [Next]_vars
    PROVE  RulesCoherent'
<1> SUFFICES ASSUME NEW j \in DOMAIN rules_list' PROVE Coherent(rules_list'[j])
  BY DEF RulesCoherent
<1>1. \/ \E config \in Rules : rules_list'[j] = NewRule(config)
      \/ \E i \in DOMAIN rules_list : rules_list'[j] \in Successors(rules_list[i])
  BY RuleSteps, ListAfter DEF ControlInv, RulesOK
<1>2. \A i \in DOMAIN rules_list : rules_list[i] \in RuleStates /\ Coherent(rules_list[i])
  BY LenProperties, ElementOfSeq DEF ControlInv, RulesOK, RulesCoherent
<1> QED
  BY <1>1, <1>2, NewRuleType, SuccessorOfRule

LEMMA ReportsStayCoherent ==
    ASSUME ControlInv, RulesCoherent, ReportsCoherent, [Next]_vars
    PROVE  ReportsCoherent'
<1> SUFFICES ASSUME NEW c \in Clients, ioctl'[c].cmd = "GET_STATS", payload'[c] # Nothing
             PROVE  CoherentReport(payload'[c][1])
  BY DEF ReportsCoherent
<1>1. CASE ioctl'[c] = ioctl[c] /\ payload'[c] = payload[c]
  BY <1>1 DEF ReportsCoherent
<1>2. CASE GetStats(c) /\ ~(ioctl'[c] = ioctl[c] /\ payload'[c] = payload[c])
  <2> DEFINE i == IndexOn(rules_list, Number(c))
  <2>1. i # 0
    BY <1>2 DEF GetStats
  <2>2. i \in 1 .. Len(rules_list) /\ DOMAIN rules_list = 1 .. Len(rules_list)
    BY <2>1, IndexOnIs, LenProperties DEF ControlInv, RulesOK
  <2>3. rules_list[i] \in RuleStates /\ Coherent(rules_list[i])
    BY <2>2, ElementOfSeq DEF ControlInv, RulesOK, RulesCoherent
  <2>4. payload'[c] = <<Report(rules_list[i])>>
    BY <1>2, <2>1 DEF GetStats, ControlInv, ClientsOK
  <2> QED
    BY <2>3, <2>4, ReportOfRule
<1>3. CASE ~GetStats(c) /\ ~(ioctl'[c] = ioctl[c] /\ payload'[c] = payload[c])
  \* It is another client's, a list's, or nothing at all.
  <2>1. payload[c] = Nothing \/ ~At(c, "idle")
    BY DEF ControlInv, ClientsOK, Fits, At
  <2> QED
    BY <1>3, <2>1
    DEF Next, ClientStep, ThreadStep, RunTool, CallIoctl, Refuse, Accept, SetRule, RemoveRule,
        ResetStats, ToggleMonitor, GetStats, ListRules, CopyOut, Exit, Block, RecordBlocked,
        Unblock, RecordDelay, vars, client, Serving, At, ControlInv, ClientsOK
<1> QED
  BY <1>1, <1>2, <1>3

\* Callers charge the rules in several critical sections, with numbers read before, while
\* administrators clear, remove and set them: in every state the counters of every rule,
\* and of every report on its way out, agree with each other.
THEOREM StatisticsCoherent == Spec => []StatsCoherent
<1>1. Init => RulesCoherent /\ ReportsCoherent
  BY EmptySeq DEF Init, RulesCoherent, ReportsCoherent
<1>2. ControlInv /\ RulesCoherent /\ ReportsCoherent /\ [Next]_vars
        => RulesCoherent' /\ ReportsCoherent'
  BY RulesStayCoherent, ReportsStayCoherent
<1>3. StatsCoherent <=> RulesCoherent /\ ReportsCoherent
  BY DEF StatsCoherent, RulesCoherent, ReportsCoherent
<1> QED
  BY <1>1, <1>2, <1>3, ControlAlways, PTL DEF Spec
-----------------------------------------------------------------------------
(* Which rule is charged.                                                  *)

\* A rule on which no event was charged is as it was set.
Fresh(rule) == rule = NewRule(rule.config)

\* One that is charged for a caller is the first on the number of the call, which is not
\* the number of a rule on every call.
LEMMA ChargedInTurn ==
    ASSUME NEW rules \in Seq(RuleStates), NEW n \in Syscalls, NEW j \in 1 .. Len(rules),
           j \in Charged(rules, n)
    PROVE  ~OutOfTurn(rules, j)
<1>1. j = IndexOn(rules, n)
  BY DEF Charged
<1>2. /\ rules[j].config.syscall_num = n
      /\ \A i \in 1 .. j - 1 : rules[i].config.syscall_num # n
  BY <1>1, IndexOnIs, LenProperties
<1>3. n # AnySyscall
  BY DeviceAssumption DEF AnySyscall
<1> QED
  BY <1>2, <1>3 DEF OutOfTurn

\* The rules that come before a rule do not change: it stays out of turn.
LEMMA SameConfigs ==
    ASSUME NEW rules, NEW after, NEW j \in Nat \ {0}, OutOfTurn(after, j),
           \A i \in 1 .. j : after[i].config = rules[i].config
    PROVE  OutOfTurn(rules, j)
<1>1. j \in 1 .. j /\ \A i \in 1 .. j - 1 : i \in 1 .. j
  OBVIOUS
<1> QED
  BY <1>1 DEF OutOfTurn

LEMMA OutOfTurnStaysFresh ==
    ASSUME RulesOK, OneRuleCharged, RuleOperation
    PROVE  OneRuleCharged'
<1>1. /\ Len(rules_list) \in Nat /\ DOMAIN rules_list = 1 .. Len(rules_list)
      /\ \A i \in DOMAIN rules_list : rules_list[i] \in RuleStates
      /\ \A i \in DOMAIN rules_list : OutOfTurn(rules_list, i) => Fresh(rules_list[i])
  BY LenProperties, ElementOfSeq DEF RulesOK, OneRuleCharged, Fresh
<1>2. ASSUME DOMAIN rules_list' = DOMAIN rules_list,
             \A i \in DOMAIN rules_list : rules_list'[i].config = rules_list[i].config,
             \A i \in DOMAIN rules_list : OutOfTurn(rules_list, i) => Fresh(rules_list'[i])
      PROVE  OneRuleCharged'
  <2>1. ASSUME NEW j \in DOMAIN rules_list, OutOfTurn(rules_list', j)
        PROVE  OutOfTurn(rules_list, j)
    <3>1. j \in Nat \ {0} /\ \A i \in 1 .. j : i \in DOMAIN rules_list
      BY <1>1
    <3> QED
      BY <1>2, <2>1, <3>1, SameConfigs
  <2> QED
    BY <1>2, <2>1 DEF OneRuleCharged, Fresh
<1>3. CASE rules_list' = rules_list
  BY <1>1, <1>2, <1>3
<1>4. ASSUME NEW config \in Rules, rules_list' = Append(rules_list, NewRule(config))
      PROVE  OneRuleCharged'
  <2>1. NewRule(config) \in RuleStates /\ NewRule(config).config = config
    BY NewRuleType DEF NewRule
  <2>2. /\ rules_list' \in Seq(RuleStates) /\ Len(rules_list') = Len(rules_list) + 1
        /\ \A i \in 1 .. Len(rules_list) : rules_list'[i] = rules_list[i]
        /\ rules_list'[Len(rules_list) + 1] = NewRule(config)
    BY <1>4, <2>1, AppendProperties DEF RulesOK
  <2>3. ASSUME NEW j \in 1 .. Len(rules_list), OutOfTurn(rules_list', j)
        PROVE  Fresh(rules_list'[j])
    <3>1. j \in Nat \ {0} /\ \A i \in 1 .. j : i \in 1 .. Len(rules_list)
      BY <1>1
    <3>2. OutOfTurn(rules_list, j)
      BY <2>2, <2>3, <3>1, SameConfigs
    <3> QED
      BY <1>1, <2>2, <3>2
  <2>4. Fresh(rules_list'[Len(rules_list) + 1])
    BY <2>1, <2>2 DEF Fresh
  <2>5. \A j \in DOMAIN rules_list' : j \in 1 .. Len(rules_list) \/ j = Len(rules_list) + 1
    BY <1>1, <2>2, LenProperties
  <2> QED
    BY <2>3, <2>4, <2>5 DEF OneRuleCharged, Fresh
<1>5. ASSUME NEW k \in 1 .. Len(rules_list), rules_list' = RemoveAt(rules_list, k)
      PROVE  OneRuleCharged'
  <2> DEFINE old(i) == IF i < k THEN i ELSE i + 1
  <2>1. /\ DOMAIN rules_list' = 1 .. Len(rules_list) - 1
        /\ \A i \in 1 .. Len(rules_list) - 1 : rules_list'[i] = rules_list[old(i)]
    <3>1. /\ rules_list' \in Seq(RuleStates) /\ Len(rules_list') = Len(rules_list) - 1
          /\ \A i \in 1 .. Len(rules_list) - 1 :
                rules_list'[i] = IF i < k THEN rules_list[i] ELSE rules_list[i + 1]
      BY <1>5, RemoveAtElements DEF RulesOK
    <3> QED
      BY <3>1, LenProperties
  <2>2. ASSUME NEW j \in DOMAIN rules_list', OutOfTurn(rules_list', j)
        PROVE  Fresh(rules_list'[j])
    <3>1. old(j) \in DOMAIN rules_list /\ rules_list'[j] = rules_list[old(j)]
      BY <1>1, <2>1
    <3>2. \A i \in 1 .. j - 1 :
            old(i) \in 1 .. old(j) - 1 /\ rules_list'[i] = rules_list[old(i)]
      BY <1>1, <2>1
    <3> HIDE DEF old
    <3>3. OutOfTurn(rules_list, old(j))
      BY <2>2, <3>1, <3>2 DEF OutOfTurn
    <3> QED
      BY <1>1, <3>1, <3>3
  <2> QED
    BY <2>2 DEF OneRuleCharged, Fresh
<1>6. ASSUME NEW n, rules_list' = reset_rule_stats(rules_list, n) PROVE OneRuleCharged'
  <2>1. \A rule \in RuleStates :
            Cleared(rule).config = rule.config /\ Fresh(Cleared(rule))
    BY ClearedFields DEF NewRule, Fresh
  <2> QED
    BY <1>1, <1>2, <1>6, <2>1 DEF reset_rule_stats
<1>7. ASSUME NEW n \in Syscalls, NEW now \in 1 .. N,
             rules_list' = update_thread_stats(rules_list, n, now)
      PROVE  OneRuleCharged'
  <2>1. \A rule \in RuleStates : ThreadBlocked(rule, now).config = rule.config
    BY BlockedFields
  <2>2. \A i \in DOMAIN rules_list : OutOfTurn(rules_list, i) => i \notin Charged(rules_list, n)
    BY <1>1, ChargedInTurn DEF RulesOK
  <2> QED
    BY <1>1, <1>2, <1>7, <2>1, <2>2 DEF update_thread_stats
<1>8. ASSUME NEW n \in Syscalls, NEW cycles \in Delays, NEW uid \in Threads,
             rules_list' = update_peak_delay(rules_list, n, cycles, uid)
      PROVE  OneRuleCharged'
  <2>1. \A rule \in RuleStates : ThreadDelayed(rule, cycles, uid).config = rule.config
    BY DelayedFields
  <2>2. \A i \in DOMAIN rules_list : OutOfTurn(rules_list, i) => i \notin Charged(rules_list, n)
    BY <1>1, ChargedInTurn DEF RulesOK
  <2> QED
    BY <1>1, <1>2, <1>8, <2>1, <2>2 DEF update_peak_delay
<1> QED
  BY <1>3, <1>4, <1>5, <1>6, <1>7, <1>8 DEF RuleOperation

\* In any order of setting, removing, clearing and blocking, a rule on every call, and a
\* rule that has another on the same number before it, is never charged with an event:
\* the charge goes to the first rule on the number of the call.
THEOREM FirstRuleCharged == Spec => []OneRuleCharged
<1>1. Init => OneRuleCharged
  BY EmptySeq DEF Init, OneRuleCharged
<1>2. ControlInv /\ OneRuleCharged /\ [Next]_vars => OneRuleCharged'
  BY RuleSteps, OutOfTurnStaysFresh DEF ControlInv
<1> QED
  BY <1>1, <1>2, ControlAlways, PTL DEF Spec
-----------------------------------------------------------------------------
(* A rule on every call is out of the tool's reach.                        *)

\* The first action asked for says what the request is, and none is asked for with the
\* number that stands for an option not given.
LEMMA RequestIsGiven ==
    ASSUME NEW main,
           Request(main).cmd \in {"SET_THROTTLING_RULE", "REMOVE_RULE", "RESET_STATS"}
    PROVE  Request(main).config.syscall_num # AnySyscall
<1> DEFINE actions == Actions(main)
           asked == {i \in DOMAIN actions : actions[i].asked}
<1>1. DOMAIN actions = 1 .. 6
  BY DEF Actions
<1>2. asked # {} /\ Request(main) = actions[Min(asked)].ioctl
  BY DEF Request, NoIoctl, Ioctl
<1>3. Min(asked) \in asked
  <2>1. asked \in SUBSET Nat
    BY <1>1
  <2> HIDE DEF asked
  <2> QED
    BY <1>2, <2>1, LeastIndex
<1>4. \A i \in 1 .. 6 :
        actions[i].asked
            /\ actions[i].ioctl.cmd \in {"SET_THROTTLING_RULE", "REMOVE_RULE", "RESET_STATS"}
                => actions[i].ioctl.config.syscall_num # NotGiven
  <2>1. ASSUME NEW cmd, NEW n
        PROVE  Ioctl(cmd, n).cmd = cmd /\ Ioctl(cmd, n).config.syscall_num = n
    BY DEF Ioctl, Config, Defaults
  <2>2. actions[1].ioctl.cmd = "TOGGLE_MONITOR" /\ actions[2].ioctl.cmd = "GET_STATS"
        /\ actions[3].ioctl.cmd = "LIST_RULES"
    BY <2>1 DEF Actions
  <2>3. /\ actions[4].asked => Given(main.remove)
        /\ actions[4].ioctl = Ioctl("REMOVE_RULE", main.remove)
    BY DEF Actions
  <2>4. /\ actions[5].asked => Given(main.reset)
        /\ actions[5].ioctl = Ioctl("RESET_STATS", main.reset)
    BY DEF Actions
  <2>5. /\ actions[6].asked => Given(main.syscall_num)
        /\ actions[6].ioctl.config.syscall_num = main.syscall_num
    BY DEF Actions, Config
  <2> HIDE DEF actions
  <2> QED
    BY <2>1, <2>2, <2>3, <2>4, <2>5 DEF Given
<1>5. Min(asked) \in 1 .. 6 /\ actions[Min(asked)].asked
  BY <1>1, <1>3
<1> HIDE DEF actions, asked
<1> QED
  BY <1>2, <1>4, <1>5 DEF NotGiven, AnySyscall

\* What a tool is at is what its command line comes to.
ToolsAsk ==
    \A c \in Tools :
        ioctl[c] \in {Request(Parsed(line)) : line \in CommandLines} \cup {NoIoctl}

LEMMA ToolsKeepAsking ==
    ASSUME ControlInv, ToolsAsk, [Next]_vars
    PROVE  ToolsAsk'
<1> SUFFICES ASSUME NEW c \in Tools
             PROVE  ioctl'[c] \in
                        {Request(Parsed(line)) : line \in CommandLines} \cup {NoIoctl}
  BY DEF ToolsAsk
<1> DEFINE asks == {Request(Parsed(line)) : line \in CommandLines} \cup {NoIoctl}
<1>1. ioctl[c] \in asks /\ DOMAIN ioctl = Clients /\ c \in Clients /\ NoIoctl \in asks
  BY DEF ToolsAsk, ControlInv, ClientsOK, Clients
<1>2. ASSUME NEW d \in Tools, NEW line \in CommandLines, RunTool(d, line)
      PROVE  ioctl'[c] \in asks
  <2>1. Request(Parsed(line)) \in asks
    OBVIOUS
  <2> HIDE DEF asks
  <2> QED
    BY <1>1, <1>2, <2>1 DEF RunTool
<1> HIDE DEF asks
<1>3. ASSUME NEW d \in Raw, NEW request \in RawIoctls, CallIoctl(d, request)
      PROVE  ioctl'[c] \in asks
  <2>1. d # c
    BY DeviceAssumption
  <2> QED
    BY <1>1, <1>3, <2>1 DEF CallIoctl
<1>4. ASSUME NEW d \in Clients, ClientStep(d)
      PROVE  ioctl'[c] \in asks
  <2>1. ioctl' = ioctl \/ ioctl' = [ioctl EXCEPT ![d] = NoIoctl]
    BY <1>4 DEF ClientStep, Refuse, Accept, SetRule, RemoveRule, ResetStats, ToggleMonitor,
                GetStats, ListRules, CopyOut, Exit
  <2> QED
    BY <1>1, <2>1
<1>5. ASSUME NEW t \in Threads, ThreadStep(t)
      PROVE  ioctl'[c] \in asks
  BY <1>1, <1>5 DEF ThreadStep, Block, RecordBlocked, Unblock, RecordDelay, client
<1>6. ASSUME UNCHANGED vars PROVE ioctl'[c] \in asks
  BY <1>1, <1>6 DEF vars, client
<1> QED
  BY <1>2, <1>3, <1>4, <1>5, <1>6 DEF Next, asks

\* The positions of the rules on every call.
OnEvery(rules) == {i \in DOMAIN rules : rules[i].config.syscall_num = AnySyscall}

\* Two lists whose rules on every call correspond, in their order, show the same ones.
LEMMA SameWildcards ==
    ASSUME NEW before \in Seq(RuleStates), NEW after \in Seq(RuleStates), NEW old,
           \A j \in OnEvery(after) : old[j] \in OnEvery(before) /\ before[old[j]] = after[j],
           \A j, k \in OnEvery(after) : k <= j <=> old[k] <= old[j],
           \A i \in OnEvery(before) : \E j \in OnEvery(after) : old[j] = i
    PROVE  Wildcards(after) = Wildcards(before)
<1> DEFINE upto(rules, i) == {k \in OnEvery(rules) : k <= i}
<1>1. /\ Len(before) \in Nat /\ DOMAIN before = 1 .. Len(before)
      /\ Len(after) \in Nat /\ DOMAIN after = 1 .. Len(after)
  BY LenProperties
<1>2. OnEvery(before) \in SUBSET (1 .. Len(before)) /\ OnEvery(after) \in SUBSET (1 .. Len(after))
  BY <1>1 DEF OnEvery
<1>3. ASSUME NEW j \in OnEvery(after)
      PROVE  Cardinality(upto(after, j)) = Cardinality(upto(before, old[j]))
  <2> DEFINE f == [k \in upto(after, j) |-> old[k]]
  <2>1. f \in [upto(after, j) -> upto(before, old[j])]
    BY <1>2, <1>3
  <2>2. \A k, l \in upto(after, j) : f[k] = f[l] => k = l
    <3> SUFFICES ASSUME NEW k \in upto(after, j), NEW l \in upto(after, j), old[k] = old[l]
                 PROVE  k = l
      OBVIOUS
    <3>1. k \in 1 .. Len(after) /\ l \in 1 .. Len(after) /\ old[k] \in 1 .. Len(before)
      BY <1>2
    <3>2. k <= l /\ l <= k
      BY <3>1
    <3> QED
      BY <3>1, <3>2
  <2>3. \A i \in upto(before, old[j]) : \E k \in upto(after, j) : f[k] = i
    <3> SUFFICES ASSUME NEW i \in upto(before, old[j])
                 PROVE  \E k \in upto(after, j) : old[k] = i
      OBVIOUS
    <3>1. PICK k \in OnEvery(after) : old[k] = i
      OBVIOUS
    <3> QED
      BY <1>3, <3>1
  <2>4. IsFiniteSet(upto(after, j))
    <3>1. IsFiniteSet(1 .. Len(after)) /\ upto(after, j) \in SUBSET (1 .. Len(after))
      BY <1>1, <1>2, FS_Interval
    <3> QED
      BY <3>1, FS_Subset
  <2> HIDE DEF f, upto
  <2>5. f \in Bijection(upto(after, j), upto(before, old[j]))
    <3>1. f \in Injection(upto(after, j), upto(before, old[j]))
      BY <2>1, <2>2 DEF Injection, IsInjective
    <3>2. f \in Surjection(upto(after, j), upto(before, old[j]))
      BY <2>1, <2>3 DEF Surjection
    <3> QED
      BY <3>1, <3>2 DEF Bijection
  <2>6. ExistsBijection(upto(after, j), upto(before, old[j]))
    BY <2>5 DEF ExistsBijection
  <2> QED
    BY <2>4, <2>6, FS_Bijection
<1>4. \A rules : Wildcards(rules) = {<<Cardinality(upto(rules, i)), rules[i]>> : i \in OnEvery(rules)}
  BY DEF Wildcards, OnEvery
<1> HIDE DEF upto
<1>5. ASSUME NEW w \in Wildcards(after) PROVE w \in Wildcards(before)
  BY <1>3, <1>4
<1>6. ASSUME NEW w \in Wildcards(before) PROVE w \in Wildcards(after)
  BY <1>3, <1>4
<1> QED
  BY <1>5, <1>6

\* Setting a rule on one call leaves them alone, ...
LEMMA AppendSparesWildcards ==
    ASSUME NEW rules \in Seq(RuleStates), NEW rule \in RuleStates,
           rule.config.syscall_num # AnySyscall
    PROVE  Wildcards(Append(rules, rule)) = Wildcards(rules)
<1> DEFINE after == Append(rules, rule)
           old == [j \in OnEvery(after) |-> j]
<1>1. /\ after \in Seq(RuleStates) /\ Len(after) = Len(rules) + 1
      /\ \A k \in 1 .. Len(rules) : after[k] = rules[k]
      /\ after[Len(rules) + 1] = rule
  BY AppendProperties
<1>2. Len(rules) \in Nat /\ DOMAIN rules = 1 .. Len(rules) /\ DOMAIN after = 1 .. Len(rules) + 1
  BY <1>1, LenProperties
<1> HIDE DEF after
<1>3. OnEvery(after) = OnEvery(rules)
  BY <1>1, <1>2 DEF OnEvery
<1>4. \A j \in OnEvery(rules) : after[j] = rules[j] /\ j \in Int
  BY <1>1, <1>2 DEF OnEvery
<1>5. /\ \A j \in OnEvery(after) : old[j] \in OnEvery(rules) /\ rules[old[j]] = after[j]
      /\ \A j, k \in OnEvery(after) : k <= j <=> old[k] <= old[j]
      /\ \A i \in OnEvery(rules) : \E j \in OnEvery(after) : old[j] = i
  BY <1>3, <1>4
<1> HIDE DEF old
<1>6. Wildcards(after) = Wildcards(rules)
  BY <1>1, <1>5, SameWildcards
<1> QED
  BY <1>6 DEF after

\* ... so does removing one, ...
LEMMA RemovalSparesWildcards ==
    ASSUME NEW rules \in Seq(RuleStates), NEW i \in 1 .. Len(rules),
           rules[i].config.syscall_num # AnySyscall
    PROVE  Wildcards(RemoveAt(rules, i)) = Wildcards(rules)
<1> DEFINE after == RemoveAt(rules, i)
           old == [j \in OnEvery(after) |-> IF j < i THEN j ELSE j + 1]
<1>1. /\ after \in Seq(RuleStates) /\ Len(after) = Len(rules) - 1
      /\ \A k \in 1 .. Len(rules) - 1 : after[k] = IF k < i THEN rules[k] ELSE rules[k + 1]
  BY RemoveAtElements
<1>2. Len(rules) \in Nat /\ DOMAIN rules = 1 .. Len(rules) /\ DOMAIN after = 1 .. Len(rules) - 1
  BY <1>1, LenProperties
<1> HIDE DEF after
<1>3. ASSUME NEW j \in OnEvery(after) PROVE old[j] \in OnEvery(rules) /\ rules[old[j]] = after[j]
  BY <1>1, <1>2 DEF OnEvery
<1>4. ASSUME NEW j \in OnEvery(after), NEW k \in OnEvery(after) PROVE k <= j <=> old[k] <= old[j]
  BY <1>2 DEF OnEvery
<1>5. ASSUME NEW m \in OnEvery(rules) PROVE \E j \in OnEvery(after) : old[j] = m
  <2>1. CASE m < i
    <3>1. m \in OnEvery(after) /\ old[m] = m
      BY <1>1, <1>2, <2>1 DEF OnEvery
    <3> QED
      BY <3>1
  <2>2. CASE m > i
    <3>1. m - 1 \in 1 .. Len(rules) - 1 /\ ~(m - 1 < i) /\ (m - 1) + 1 = m
      BY <1>2, <2>2 DEF OnEvery
    <3>2. m - 1 \in OnEvery(after) /\ old[m - 1] = m
      BY <1>1, <1>2, <3>1 DEF OnEvery
    <3> QED
      BY <3>2
  <2> QED
    BY <1>2, <2>1, <2>2 DEF OnEvery
<1>6. /\ \A j \in OnEvery(after) : old[j] \in OnEvery(rules) /\ rules[old[j]] = after[j]
      /\ \A j, k \in OnEvery(after) : k <= j <=> old[k] <= old[j]
      /\ \A m \in OnEvery(rules) : \E j \in OnEvery(after) : old[j] = m
  <2> HIDE DEF old
  <2> QED
    BY <1>3, <1>4, <1>5
<1> HIDE DEF old
<1>7. after \in Seq(RuleStates)
  BY <1>1
<1>8. Wildcards(after) = Wildcards(rules)
  BY <1>6, <1>7, SameWildcards
<1> QED
  BY <1>8 DEF after

\* ... and so does clearing the statistics of one.
LEMMA ResetSparesWildcards ==
    ASSUME NEW rules \in Seq(RuleStates), NEW n, n # AnySyscall
    PROVE  Wildcards(reset_rule_stats(rules, n)) = Wildcards(rules)
<1> DEFINE after == reset_rule_stats(rules, n)
           old == [j \in OnEvery(after) |-> j]
<1>1. /\ Len(rules) \in Nat /\ DOMAIN rules = 1 .. Len(rules)
      /\ \A i \in 1 .. Len(rules) : rules[i] \in RuleStates
  BY LenProperties, ElementOfSeq
<1>2. \A i \in DOMAIN rules : Cleared(rules[i]) \in RuleStates
        /\ Cleared(rules[i]).config = rules[i].config
  BY <1>1, SuccessorOfRule DEF Successors
<1>3. \A i \in DOMAIN rules : i \in Charged(rules, n) => rules[i].config.syscall_num = n
  BY <1>1, IndexOnIs DEF Charged
<1>4. /\ after \in [1 .. Len(rules) -> RuleStates]
      /\ \A i \in 1 .. Len(rules) :
            /\ after[i].config = rules[i].config
            /\ rules[i].config.syscall_num # n => after[i] = rules[i]
  BY <1>1, <1>2, <1>3 DEF reset_rule_stats
<1> HIDE DEF after
<1>5. after \in Seq(RuleStates) /\ DOMAIN after = 1 .. Len(rules)
  BY <1>1, <1>4, SequenceOf
<1>6. OnEvery(after) = OnEvery(rules)
  BY <1>1, <1>4, <1>5 DEF OnEvery
<1>7. \A j \in OnEvery(rules) : after[j] = rules[j] /\ j \in Int
  BY <1>1, <1>4 DEF OnEvery
<1>8. /\ \A j \in OnEvery(after) : old[j] \in OnEvery(rules) /\ rules[old[j]] = after[j]
      /\ \A j, k \in OnEvery(after) : k <= j <=> old[k] <= old[j]
      /\ \A i \in OnEvery(rules) : \E j \in OnEvery(after) : old[j] = i
  BY <1>6, <1>7
<1> HIDE DEF old
<1>9. Wildcards(after) = Wildcards(rules)
  BY <1>5, <1>8, SameWildcards
<1> QED
  BY <1>9 DEF after

\* What serving a tool does.
LEMMA ToolsSpareWildcards ==
    ASSUME ControlInv, ToolsAsk, [Next]_vars,
           NEW c \in Tools, At(c, "serve"), cpc'[c] # "serve"
    PROVE  Wildcards(rules_list') = Wildcards(rules_list)
<1>1. /\ rules_list \in Seq(RuleStates) /\ c \in Clients
      /\ cpc \in [Clients -> {"idle", "ioctl", "serve", "copyout", "return"}]
      /\ ioctl[c] \in Ioctls
  BY DEF ControlInv, RulesOK, ClientsOK, Clients
<1>2. ioctl[c].cmd \in {"SET_THROTTLING_RULE", "REMOVE_RULE", "RESET_STATS"}
        => Number(c) # AnySyscall
  <2>1. NoIoctl.cmd \notin {"SET_THROTTLING_RULE", "REMOVE_RULE", "RESET_STATS"}
    BY DEF NoIoctl, Ioctl
  <2> QED
    BY <2>1, RequestIsGiven DEF ToolsAsk, Number
<1>3. ASSUME NEW d \in Clients, d # c, ClientStep(d) PROVE FALSE
  <2>1. \E label : cpc' = [cpc EXCEPT ![d] = label]
    BY <1>3 DEF ClientStep, Refuse, Accept, SetRule, RemoveRule, ResetStats, ToggleMonitor,
                GetStats, ListRules, CopyOut, Exit, Return, Goto
  <2> QED
    BY <1>1, <1>3, <2>1 DEF At
<1>4. ClientStep(c)
  <2>1. ASSUME NEW d \in Tools, NEW line \in CommandLines, RunTool(d, line) PROVE FALSE
    <3>1. d # c
      BY <2>1 DEF RunTool, At
    <3> QED
      BY <1>1, <2>1, <3>1 DEF RunTool, At, Goto
  <2>2. ASSUME NEW d \in Raw, NEW request \in RawIoctls, CallIoctl(d, request) PROVE FALSE
    <3>1. d # c
      BY DeviceAssumption
    <3> QED
      BY <1>1, <2>2, <3>1 DEF CallIoctl, At, Goto
  <2>3. ASSUME NEW t \in Threads, ThreadStep(t) PROVE FALSE
    BY <2>3 DEF ThreadStep, Block, RecordBlocked, Unblock, RecordDelay, client, At
  <2>4. CASE UNCHANGED vars
    BY <2>4 DEF vars, client, At
  <2> QED
    BY <1>3, <2>1, <2>2, <2>3, <2>4 DEF Next
<1>5. CASE SetRule(c)
  <2>1. CASE UNCHANGED rules_list
    BY <2>1
  <2>2. CASE rules_list' = Append(rules_list, NewRule(ioctl[c].config))
    <3>1. ioctl[c].cmd = "SET_THROTTLING_RULE"
      BY <1>5 DEF SetRule, Serving
    <3>2. ioctl[c].config \in Rules /\ ioctl[c].config.syscall_num # AnySyscall
      BY <1>1, <1>2, <3>1, SomeCommand DEF Commands, Number
    <3>3. NewRule(ioctl[c].config) \in RuleStates
          /\ NewRule(ioctl[c].config).config.syscall_num # AnySyscall
      BY <3>2, NewRuleType DEF NewRule
    <3> QED
      BY <1>1, <2>2, <3>3, AppendSparesWildcards
  <2> QED
    BY <1>5, <2>1, <2>2 DEF SetRule
<1>6. CASE RemoveRule(c)
  <2>1. CASE UNCHANGED rules_list
    BY <2>1
  <2>2. CASE /\ IndexOn(rules_list, Number(c)) # 0
             /\ rules_list' = RemoveAt(rules_list, IndexOn(rules_list, Number(c)))
    <3> DEFINE i == IndexOn(rules_list, Number(c))
    <3>1. Number(c) # AnySyscall
      BY <1>2, <1>6 DEF RemoveRule, Serving
    <3>2. Len(rules_list) \in Nat
      BY <1>1, LenProperties
    <3>3. i \in 0 .. Len(rules_list) /\ rules_list[i].config.syscall_num = Number(c)
      BY <1>1, <2>2, IndexOnIs
    <3> HIDE DEF i
    <3>4. i # 0 /\ rules_list' = RemoveAt(rules_list, i)
      BY <2>2 DEF i
    <3>5. i \in 1 .. Len(rules_list)
      BY <3>2, <3>3, <3>4
    <3> QED
      BY <1>1, <3>1, <3>3, <3>4, <3>5, RemovalSparesWildcards
  <2> QED
    BY <1>6, <2>1, <2>2 DEF RemoveRule
<1>7. CASE ResetStats(c)
  <2>1. CASE UNCHANGED rules_list
    BY <2>1
  <2>2. CASE rules_list' = reset_rule_stats(rules_list, Number(c))
    <3>1. Number(c) # AnySyscall
      BY <1>2, <1>7 DEF ResetStats, Serving
    <3> QED
      BY <1>1, <2>2, <3>1, ResetSparesWildcards
  <2> QED
    BY <1>7, <2>1, <2>2 DEF ResetStats
<1>8. ASSUME ~SetRule(c), ~RemoveRule(c), ~ResetStats(c)
      PROVE  UNCHANGED rules_list
  BY <1>4, <1>8 DEF ClientStep, Refuse, Accept, ToggleMonitor, GetStats, ListRules, CopyOut, Exit
<1> QED
  BY <1>5, <1>6, <1>7, <1>8

\* main() of the tool tells an option that was not given by -1, the number the kernel
\* takes for every call: no command line sets, removes or clears a rule on every call,
\* whatever else it says and whoever else works on the rules.
THEOREM ToolsReach == Spec => WildcardOutOfReach
<1>1. Init => ToolsAsk
  BY DEF Init, ToolsAsk, Clients
<1>2. ControlInv /\ ToolsAsk /\ [Next]_vars => ToolsAsk'
  BY ToolsKeepAsking
<1>3. ControlInv /\ ToolsAsk /\ [Next]_vars
        => [\A c \in Tools : At(c, "serve") /\ cpc'[c] # "serve"
                => Wildcards(rules_list') = Wildcards(rules_list)]_vars
  BY ToolsSpareWildcards
<1> QED
  BY <1>1, <1>2, <1>3, ControlAlways, PTL DEF Spec, WildcardOutOfReach
=============================================================================
