---------------------------- MODULE MCCharDevice ----------------------------
(***************************************************************************)
(* CharDevice for TLC: what the tool is run with and what others call.     *)
(***************************************************************************)
EXTENDS CharDevice, TLC

Opt(letter, number) == [opt |-> letter, arg |-> number]

\* Each action of the tool once, a rule on -1, a removal of -1, two actions at once, a
\* rule without its limit, and an unknown option.
Lines ==
    { <<Opt("s", 39), Opt("m", 1)>>, <<Opt("g", 39)>>, <<Opt("d", 0)>>, <<Opt("l", 0)>>,
      <<Opt("r", 39)>>, <<Opt("R", 39)>>,
      <<Opt("s", -1), Opt("m", 1)>>, <<Opt("r", -1)>>, <<Opt("g", 39), Opt("e", 0)>>,
      <<Opt("s", 39)>>, <<Opt("?", 0)>> }

\* A rule on every call, its removal, and a command the device does not have.
Requests ==
    { [cmd |-> "SET_THROTTLING_RULE",
       config |-> [target_uid |-> 1, comm |-> NoProgram, syscall_num |-> -1, max_calls |-> 0]],
      Ioctl("REMOVE_RULE", -1), Ioctl("UNKNOWN", 0) }
=============================================================================
