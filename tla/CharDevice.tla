----------------------------- MODULE CharDevice -----------------------------
(***************************************************************************)
(* The control path of kmod/char_device.c: processes run the command line  *)
(* tool or call ioctl() themselves; the handler checks, copies the payload *)
(* in, works on the rules under registry_lock, copies the answer out; the  *)
(* tool turns what comes back into its exit status. At the same time       *)
(* callers block and are let go, and record it in the same rules: how many *)
(* were blocked when they blocked, and how long they were delayed.         *)
(*                                                                         *)
(* Why and how long a caller waits is in PolicyEngine, what hooks a rule   *)
(* has in SysInterceptor.                                                  *)
(***************************************************************************)
EXTENDS RuleStats, CliTool

CONSTANTS
    Threads,            \* callers of hooked system calls, named by their uids
    Tools,              \* processes that run the command line tool
    Raw,                \* processes that call ioctl() themselves
    CommandLines,       \* what tools are run with
    RawIoctls,          \* what others call
    Syscalls,           \* numbers callers use
    MAX_RULES_EXPORT,
    Delays,             \* how long a caller may have waited, in cycles
    MaxRules,           \* bound: rules listed
    MaxCalls            \* bound: calls each thread makes that block

Clients == Tools \cup Raw
AnySyscall == -1
Root == 0

ASSUME DeviceAssumption ==
    /\ Tools \cap Raw = {}
    /\ IsFiniteSet(Threads) /\ Threads \subseteq Nat
    /\ Syscalls \subseteq Nat
    /\ MAX_RULES_EXPORT \in Nat
    /\ Delays \subseteq Nat \ {0}
    /\ MaxRules \in Nat /\ MaxCalls \in Nat

VARIABLES
    rules_list,
    global_monitor_state,
    total_blocked_threads,
    cpc,            \* where each client is
    ioctl,          \* the ioctl it makes
    ret,            \* what the handler has returned: "ok" is 0
    payload,        \* a report or a list on its way out
    done,           \* history: what the call in progress did to the registry
    tpc,            \* where each thread is
    sysno,          \* the system call it makes
    current_val,    \* the number of blocked threads it has read
    calls           \* how often it has blocked, at most MaxCalls

client == <<cpc, ioctl, ret, payload, done>>
thread == <<tpc, sysno, current_val, calls>>
vars == <<rules_list, global_monitor_state, total_blocked_threads, client, thread>>

Nothing == <<>>
Commands == {"SET_THROTTLING_RULE", "GET_STATS", "TOGGLE_MONITOR", "LIST_RULES",
             "REMOVE_RULE", "RESET_STATS"}

Init ==
    /\ rules_list = <<>>
    /\ global_monitor_state = TRUE
    /\ total_blocked_threads = 0
    /\ cpc = [c \in Clients |-> "idle"]
    /\ ioctl = [c \in Clients |-> NoIoctl]
    /\ ret = [c \in Clients |-> "ok"]
    /\ payload = [c \in Clients |-> Nothing]
    /\ done = [c \in Clients |-> "nothing"]
    /\ tpc = [t \in Threads |-> "user"]
    /\ sysno \in [Threads -> Syscalls]
    /\ current_val = [t \in Threads |-> 0]
    /\ calls = [t \in Threads |-> 0]

At(c, label) == cpc[c] = label
Goto(c, label) == cpc' = [cpc EXCEPT ![c] = label]
-----------------------------------------------------------------------------
(* The clients.                                                            *)

\* main() up to the ioctl. Without one, or if the device does not open, the tool
\* fails.
RunTool(c, line) ==
    /\ At(c, "idle")
    /\ \E opened \in BOOLEAN :
        LET request == Request(Parsed(line))
        IN  IF opened /\ request # NoIoctl
            THEN /\ Goto(c, "ioctl")
                 /\ ioctl' = [ioctl EXCEPT ![c] = request]
                 /\ UNCHANGED ret
            ELSE /\ Goto(c, "return")
                 /\ ret' = [ret EXCEPT ![c] = "failed"]
                 /\ UNCHANGED ioctl
    /\ UNCHANGED <<rules_list, global_monitor_state, total_blocked_threads,
                   payload, done, thread>>

CallIoctl(c, request) ==
    /\ At(c, "idle")
    /\ Goto(c, "ioctl")
    /\ ioctl' = [ioctl EXCEPT ![c] = request]
    /\ UNCHANGED <<rules_list, global_monitor_state, total_blocked_threads, ret,
                   payload, done, thread>>

\* The end of the tool, or of another process: the next one has forgotten it all.
Exit(c) ==
    /\ At(c, "return")
    /\ Goto(c, "idle")
    /\ ioctl' = [ioctl EXCEPT ![c] = NoIoctl]
    /\ ret' = [ret EXCEPT ![c] = "ok"]
    /\ payload' = [payload EXCEPT ![c] = Nothing]
    /\ done' = [done EXCEPT ![c] = "nothing"]
    /\ UNCHANGED <<rules_list, global_monitor_state, total_blocked_threads, thread>>
-----------------------------------------------------------------------------
(* defender_ioctl().                                                       *)

Return(c, code) ==
    /\ Goto(c, "return")
    /\ ret' = [ret EXCEPT ![c] = code]

\* What stops a call before it reaches the registry: the caller's uid, the command,
\* the pointer, the heap.
Refusals(c, euid) ==
    IF euid # Root THEN {"EPERM"}
    ELSE IF ioctl[c].cmd \notin Commands THEN {"ENOTTY"}
    ELSE IF ioctl[c].cmd = "LIST_RULES" THEN {"ENOMEM"}
    ELSE {"EFAULT"}

Refuse(c, euid) ==
    /\ At(c, "ioctl")
    /\ \E code \in Refusals(c, euid) : Return(c, code)
    /\ UNCHANGED <<rules_list, global_monitor_state, total_blocked_threads, ioctl,
                   payload, done, thread>>

Accept(c) ==
    /\ At(c, "ioctl")
    /\ ioctl[c].cmd \in Commands
    /\ Goto(c, "serve")
    /\ UNCHANGED <<rules_list, global_monitor_state, total_blocked_threads, ioctl,
                   ret, payload, done, thread>>

Serving(c, cmd) == At(c, "serve") /\ ioctl[c].cmd = cmd
Number(c) == ioctl[c].config.syscall_num
Did(c, what) == done' = [done EXCEPT ![c] = what]

\* add_rule(): the rule is listed whether or not its system call can be hooked.
SetRule(c) ==
    /\ Serving(c, "SET_THROTTLING_RULE")
    /\ \/ /\ Len(rules_list) < MaxRules
          /\ rules_list' = Append(rules_list, NewRule(ioctl[c].config))
          /\ Did(c, "SET_THROTTLING_RULE")
          /\ Return(c, "ok")
       \/ Return(c, "ENOMEM") /\ UNCHANGED <<rules_list, done>>
    /\ UNCHANGED <<global_monitor_state, total_blocked_threads, ioctl, payload, thread>>

\* faulty: the answer of remove_rule() is dropped
Ignored(c) == "ok"
NotFound(c) == "ENOENT"

RemoveRule(c) ==
    /\ Serving(c, "REMOVE_RULE")
    /\ LET i == IndexOn(rules_list, Number(c))
       IN  IF i = 0
           THEN Return(c, NotFound(c)) /\ UNCHANGED <<rules_list, done>>
           ELSE /\ rules_list' = RemoveAt(rules_list, i)
                /\ Did(c, "REMOVE_RULE")
                /\ Return(c, "ok")
    /\ UNCHANGED <<global_monitor_state, total_blocked_threads, ioctl, payload, thread>>

ResetStats(c) ==
    /\ Serving(c, "RESET_STATS")
    /\ IF IndexOn(rules_list, Number(c)) = 0
       THEN Return(c, NotFound(c)) /\ UNCHANGED <<rules_list, done>>
       ELSE /\ rules_list' = reset_rule_stats(rules_list, Number(c))
            /\ Did(c, "RESET_STATS")
            /\ Return(c, "ok")
    /\ UNCHANGED <<global_monitor_state, total_blocked_threads, ioctl, payload, thread>>

\* set_global_monitor_state(); the flush is in PolicyEngine.
ToggleMonitor(c) ==
    /\ Serving(c, "TOGGLE_MONITOR")
    /\ global_monitor_state' = (Number(c) # 0)
    /\ Did(c, "TOGGLE_MONITOR")
    /\ Return(c, "ok")
    /\ UNCHANGED <<rules_list, total_blocked_threads, ioctl, payload, thread>>

GetStats(c) ==
    /\ Serving(c, "GET_STATS")
    /\ LET i == IndexOn(rules_list, Number(c))
       IN  IF i = 0
           THEN Return(c, NotFound(c)) /\ UNCHANGED payload
           ELSE /\ payload' = [payload EXCEPT ![c] = <<Report(rules_list[i])>>]
                /\ Goto(c, "copyout")
                /\ UNCHANGED ret
    /\ UNCHANGED <<rules_list, global_monitor_state, total_blocked_threads, ioctl,
                   done, thread>>

ListRules(c) ==
    /\ Serving(c, "LIST_RULES")
    /\ payload' = [payload EXCEPT ![c] = Export(rules_list, MAX_RULES_EXPORT)]
    /\ Goto(c, "copyout")
    /\ UNCHANGED <<rules_list, global_monitor_state, total_blocked_threads, ioctl,
                   ret, done, thread>>

CopyOut(c) ==
    /\ At(c, "copyout")
    /\ \/ Return(c, "ok") /\ Did(c, ioctl[c].cmd)
       \/ Return(c, "EFAULT") /\ UNCHANGED done
    /\ UNCHANGED <<rules_list, global_monitor_state, total_blocked_threads, ioctl,
                   payload, thread>>
-----------------------------------------------------------------------------
(* enforce_syscall_policy(), as far as the statistics see it.              *)

AtT(t, label) == tpc[t] = label
GotoT(t, label) == tpc' = [tpc EXCEPT ![t] = label]

\* Some rule on n, or on every call, has refused the call: the thread counts itself
\* and goes on with the number it has read.
Block(t, n) ==
    /\ AtT(t, "user")
    /\ calls[t] < MaxCalls
    /\ global_monitor_state
    /\ IndexOn(rules_list, n) # 0 \/ IndexOn(rules_list, AnySyscall) # 0
    /\ GotoT(t, "stats")
    /\ sysno' = [sysno EXCEPT ![t] = n]
    /\ total_blocked_threads' = total_blocked_threads + 1
    /\ current_val' = [current_val EXCEPT ![t] = total_blocked_threads + 1]
    /\ calls' = [calls EXCEPT ![t] = @ + 1]
    /\ UNCHANGED <<rules_list, global_monitor_state, client>>

\* update_thread_stats(): the first rule on the number is charged, if there is one.
RecordBlocked(t) ==
    /\ AtT(t, "stats")
    /\ GotoT(t, "blocked")
    /\ rules_list' = update_thread_stats(rules_list, sysno[t], current_val[t])
    /\ current_val' = [current_val EXCEPT ![t] = 0]
    /\ UNCHANGED <<global_monitor_state, total_blocked_threads, client, sysno, calls>>

\* Granted, flushed or interrupted: the last records no delay.
Unblock(t) ==
    /\ AtT(t, "blocked")
    /\ \E label \in {"peak", "user"} : GotoT(t, label)
    /\ total_blocked_threads' = total_blocked_threads - 1
    /\ UNCHANGED <<rules_list, global_monitor_state, client, sysno, current_val, calls>>

\* update_peak_delay(): skipped if the clock of the CPU it woke up on is behind.
RecordDelay(t) ==
    /\ AtT(t, "peak")
    /\ GotoT(t, "user")
    /\ \/ \E cycles \in Delays :
            rules_list' = update_peak_delay(rules_list, sysno[t], cycles, t)
       \/ UNCHANGED rules_list
    /\ UNCHANGED <<global_monitor_state, total_blocked_threads, client, sysno,
                   current_val, calls>>
-----------------------------------------------------------------------------
ClientStep(c) ==
    \/ \E euid \in {Root, 1000} : Refuse(c, euid)
    \/ Accept(c) \/ SetRule(c) \/ RemoveRule(c) \/ ResetStats(c) \/ ToggleMonitor(c)
    \/ GetStats(c) \/ ListRules(c) \/ CopyOut(c) \/ Exit(c)

ThreadStep(t) ==
    \/ \E n \in Syscalls : Block(t, n)
    \/ RecordBlocked(t) \/ Unblock(t) \/ RecordDelay(t)

Next ==
    \/ \E c \in Tools, line \in CommandLines : RunTool(c, line)
    \/ \E c \in Raw, request \in RawIoctls : CallIoctl(c, request)
    \/ \E c \in Clients : ClientStep(c)
    \/ \E t \in Threads : ThreadStep(t)

Spec == Init /\ [][Next]_vars
-----------------------------------------------------------------------------
(* What should hold.                                                       *)

Rules == {request.config : request \in RawIoctls \cup {Request(Parsed(line)) : line \in CommandLines}}

IsRule(rule) ==
    /\ rule.config \in Rules
    /\ rule.peak_delay \in Delays \cup {0}
    /\ rule.victim \in Threads \cup {NoUid}
    /\ rule.peak_threads_blocked \in 0 .. Cardinality(Threads)
    /\ rule.cumulative_threads_blocked \in Nat
    /\ rule.throttle_events \in Nat

\* The values the variables take.
TypeOK ==
    /\ Len(rules_list) <= MaxRules
    /\ \A i \in DOMAIN rules_list : IsRule(rules_list[i])
    /\ global_monitor_state \in BOOLEAN
    /\ total_blocked_threads \in 0 .. Cardinality(Threads)
    /\ cpc \in [Clients -> {"idle", "ioctl", "serve", "copyout", "return"}]
    /\ \A c \in Clients : ioctl[c].config \in Rules \cup {NoIoctl.config}
    /\ ret \in [Clients -> {"ok", "failed", "EPERM", "ENOTTY", "EFAULT", "ENOMEM", "ENOENT"}]
    /\ \A c \in Clients : Len(payload[c]) <= Larger(1, MAX_RULES_EXPORT)
    /\ done \in [Clients -> Commands \cup {"nothing"}]
    /\ tpc \in [Threads -> {"user", "stats", "blocked", "peak"}]
    /\ sysno \in [Threads -> Syscalls]
    /\ current_val \in [Threads -> 0 .. Cardinality(Threads)]
    /\ calls \in [Threads -> 0 .. MaxCalls]

\* The counters of a rule agree with each other.
Coherent(rule) ==
    /\ (rule.throttle_events = 0) <=> (rule.peak_threads_blocked = 0)
    /\ rule.throttle_events <= rule.cumulative_threads_blocked
    /\ rule.cumulative_threads_blocked <= rule.throttle_events * rule.peak_threads_blocked
    /\ (rule.peak_delay = 0) <=> (rule.victim = NoUid)

CoherentReport(report) ==
    /\ report.average_threads_blocked <= report.peak_threads_blocked
    /\ (report.average_threads_blocked = 0) <=> (report.peak_threads_blocked = 0)
    /\ (report.peak_delay = 0) <=> (report.victim = NoUid)

\* Callers charge a rule in several critical sections, with a number they have read
\* before, while administrators clear it, remove it and set it again: the counters of
\* a rule, and every report on its way to an administrator, still agree with each
\* other. A peak is what some event recorded, the average is not above it, and the
\* victim is there exactly when there is a delay.
StatsCoherent ==
    /\ \A i \in DOMAIN rules_list : Coherent(rules_list[i])
    /\ \A c \in Clients :
        ioctl[c].cmd = "GET_STATS" /\ payload[c] # Nothing => CoherentReport(payload[c][1])

\* The rule is on every call, or comes after another on the same number.
OutOfTurn(rules, j) ==
    \/ rules[j].config.syscall_num = AnySyscall
    \/ \E i \in 1 .. j - 1 : rules[i].config.syscall_num = rules[j].config.syscall_num

\* Whatever rule stopped a caller, the first rule on the number of its call is charged:
\* a rule that has another on the same number before it, and a rule on every call,
\* never shows an event, in any order of setting, removing, clearing and blocking.
OneRuleCharged ==
    \A j \in DOMAIN rules_list :
        OutOfTurn(rules_list, j) => rules_list[j] = NewRule(rules_list[j].config)

\* A client hears of success only when the registry did what it asked for, and of an
\* error only when it did nothing, whatever other clients do in the meantime.
ExitStatusIsTruthful ==
    \A c \in Clients :
        At(c, "return") => done[c] = IF ret[c] = "ok" THEN ioctl[c].cmd ELSE "nothing"

\* The rules on every call, numbered in the order they stand in.
Wildcards(rules) ==
    LET on == {i \in DOMAIN rules : rules[i].config.syscall_num = AnySyscall}
    IN  {<<Cardinality({k \in on : k <= i}), rules[i]>> : i \in on}

\* The tool takes -1 for an option that was not given. A rule on every call, which the
\* kernel accepts from others, is out of its reach: no command line sets one, removes
\* one or clears one.
WildcardOutOfReach ==
    [][\A c \in Tools :
        At(c, "serve") /\ cpc'[c] # "serve" => Wildcards(rules_list') = Wildcards(rules_list)]_vars
=============================================================================
