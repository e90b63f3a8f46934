------------------------------- MODULE CliTool -------------------------------
(***************************************************************************)
(* userspace/cli_tool.c: what a command line comes to. A command line is   *)
(* the sequence of options getopt() returns, [opt |-> letter, arg |-> ...] *)
(* with the argument already read by atoi(); "?" is an option it does not  *)
(* know or whose argument is missing. The outcome is the one ioctl the     *)
(* tool makes, or a message and no ioctl.                                  *)
(***************************************************************************)
EXTENDS Integers, SequencesExt

Below == -2             \* faulty: -1 is left to mean a system call
NotGiven == -1          \* the value the variables of main() start with
NoProgram == ""

Defaults ==
    [syscall_num |-> NotGiven, max_calls |-> NotGiven, target_uid |-> -1, comm |-> NoProgram,
     get_stats |-> NotGiven, toggle |-> NotGiven, list |-> FALSE,
     remove |-> NotGiven, reset |-> NotGiven, usage |-> FALSE]

\* One turn of the switch: a later option overrides an earlier one.
Take(main, option) ==
    CASE option.opt = "s" -> [main EXCEPT !.syscall_num = option.arg]
      [] option.opt = "m" -> [main EXCEPT !.max_calls = option.arg]
      [] option.opt = "u" -> [main EXCEPT !.target_uid = option.arg]
      [] option.opt = "p" -> [main EXCEPT !.comm = option.arg]
      [] option.opt = "g" -> [main EXCEPT !.get_stats = option.arg]
      [] option.opt = "e" -> [main EXCEPT !.toggle = 1]
      [] option.opt = "d" -> [main EXCEPT !.toggle = 0]
      [] option.opt = "l" -> [main EXCEPT !.list = TRUE]
      [] option.opt = "r" -> [main EXCEPT !.remove = option.arg]
      [] option.opt = "R" -> [main EXCEPT !.reset = option.arg]
      [] OTHER -> [main EXCEPT !.usage = TRUE]

\* getopt() fails at once, so what follows an unknown option does not matter.
Parsed(line) == FoldLeft(Take, [Defaults EXCEPT !.usage = line = <<>>], line)

Config(main) ==
    [target_uid |-> main.target_uid, comm |-> main.comm,
     syscall_num |-> main.syscall_num, max_calls |-> main.max_calls]

\* An ioctl and its payload; those that pass one int pass it as syscall_num.
Ioctl(cmd, n) == [cmd |-> cmd, config |-> [Config(Defaults) EXCEPT !.syscall_num = n]]
NoIoctl == Ioctl("none", NotGiven)

\* A number counts as given unless it is the one the variables start with.
Given(number) == number # NotGiven

\* The actions A to F of main(), in their order.
Actions(main) ==
    << [asked |-> Given(main.toggle), ioctl |-> Ioctl("TOGGLE_MONITOR", main.toggle)],
       [asked |-> Given(main.get_stats), ioctl |-> Ioctl("GET_STATS", main.get_stats)],
       [asked |-> main.list, ioctl |-> Ioctl("LIST_RULES", 0)],
       [asked |-> Given(main.remove), ioctl |-> Ioctl("REMOVE_RULE", main.remove)],
       [asked |-> Given(main.reset), ioctl |-> Ioctl("RESET_STATS", main.reset)],
       [asked |-> Given(main.syscall_num) /\ Given(main.max_calls),
        ioctl |-> [cmd |-> "SET_THROTTLING_RULE", config |-> Config(main)]] >>

\* The first that is asked for is the only one.
Request(main) ==
    LET asked == {i \in DOMAIN Actions(main) : Actions(main)[i].asked}
    IN  IF main.usage \/ asked = {} THEN NoIoctl ELSE Actions(main)[Min(asked)].ioctl
=============================================================================
