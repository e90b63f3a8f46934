---------------------------- MODULE RegistryRules ----------------------------
(***************************************************************************)
(* The rule database of kmod/registry_data.c seen by one reader: which     *)
(* rule of the list a call is counted against, and what counting it says.  *)
(* The list is a sequence of rule identifiers; the fields add_rule() fills *)
(* once and never changes are the constant function Rule, the counter that *)
(* does change (current_calls) stays with the module that owns it.         *)
(***************************************************************************)
EXTENDS Integers, SequencesExt

CONSTANTS
    RuleIds,    \* the nodes kmalloc'ed by add_rule()
    Rule,       \* their fields: [uid, comm, syscall_num, max_calls]
    NoRule      \* the traversal ended without a match

AnyUid == -1        \* "-1 per ignorare questo filtro"
NoComm == ""        \* "stringa vuota per ignorare"
AnySyscall == -1

ASSUME RegistryAssumption ==
    /\ NoRule \notin RuleIds
    /\ \A r \in RuleIds : Rule[r].syscall_num \in Int /\ Rule[r].max_calls \in Int

\* Names are those of the task, already cut to TASK_COMM_LEN on both sides.
Matches(rule, task, n) ==
    /\ rule.syscall_num \in {n, AnySyscall}
    /\ \/ rule.uid # AnyUid /\ rule.uid = task.uid
       \/ rule.comm # NoComm /\ rule.comm = task.comm

\* The first matching rule of the list: the loop of is_throttled() breaks there.
Selected(list, task, n) ==
    LET matching == {i \in DOMAIN list : Matches(Rule[list[i]], task, n)}
    IN  IF matching = {} THEN NoRule ELSE list[Min(matching)]

\* The first rule set on exactly syscall n, which is what remove_rule(),
\* reset_rule_stats() and the statistics operate on.
FirstOn(list, n) ==
    LET on == {i \in DOMAIN list : Rule[list[i]].syscall_num = n}
    IN  IF on = {} THEN NoRule ELSE list[Min(on)]

\* faulty: compares the count before the increment
OffByOne(r, count) == r # NoRule /\ count[r] > Rule[r].max_calls

\* The verdict of is_throttled() when the selected rule r had seen `count' calls.
OverLimit(r, count) == r # NoRule /\ count[r] + 1 > Rule[r].max_calls

\* ... and the counters afterwards: atomic_inc_return() on the selected rule.
Counted(r, count) == IF r = NoRule THEN count ELSE [count EXCEPT ![r] = @ + 1]
=============================================================================
