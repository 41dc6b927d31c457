----------------------------- MODULE MCStartup ------------------------------
(***************************************************************************)
(* Model-checking instances of Startup: the unit's own command line, and   *)
(* command lines an operator may start beside it.                          *)
(***************************************************************************)
EXTENDS Startup, TLC

CONSTANTS unit, hand

None == [tier2 |-> Unset, depth |-> Unset, max_depth |-> NotGiven]
Plain == [path |-> "real", interval |-> [n |-> 0, unit |-> "s"], enable_ebpf |-> FALSE,
          mode |-> "disabled", cli |-> None, config |-> "omitted", file |-> Default]

\* The unit: refresh once a minute, block mode, the depth of the file.
UnitCommand ==
    [Plain EXCEPT !.interval = [n |-> 1, unit |-> "m"], !.mode = "block", !.config = "loaded",
                  !.file = [tier2 |-> Unset, depth |-> "ancestry", max_depth |-> 0]]

ByHand == {
    [Plain EXCEPT !.path = "dir_alias", !.enable_ebpf = TRUE],
    [Plain EXCEPT !.enable_ebpf = TRUE, !.mode = "warn"],
    [Plain EXCEPT !.interval = [n |-> 69, unit |-> "m"], !.cli.tier2 = "onnx"],
    [Plain EXCEPT !.interval = [n |-> 2, unit |-> "h"]],
    [Plain EXCEPT !.interval = [n |-> 59, unit |-> "s"]],
    [Plain EXCEPT !.interval = [n |-> 61, unit |-> "s"], !.config = "loaded",
                  !.file = [tier2 |-> "onnx", depth |-> "one_level", max_depth |-> 8]],
    [Plain EXCEPT !.config = "rejected"],
    [Plain EXCEPT !.cli.tier2 = "invalid"],
    [Plain EXCEPT !.mode = "block", !.config = "loaded",
                  !.file = [tier2 |-> "heuristic", depth |-> "invalid", max_depth |-> 8]]}

UnitAndHand == unit :> {UnitCommand} @@ hand :> ByHand

=============================================================================
