------------------------- MODULE MCTargetHasherPair -------------------------
EXTENDS TargetHasherPair

MCBytes == <<"/", "1", "2", "\\", "a", "b", "m", "r", "t">>

MCNodeVersion == <<"1">>

AB == <<"a", "/", "b">>
ABWin == <<"a", "\\", "b">>

NoPackage == [dependencies |-> <<>>, dev_dependencies |-> <<>>, peer_dependencies |-> <<>>]
NoOptions == [module |-> <<>>, module_resolution |-> <<>>, target |-> <<>>]

(* hash_inputs, hash_package_json and hash_tsconfig_json calls: the same  *)
(* file under both separators, one key with two values, two maps.          *)
MergeCalls ==
    {[op |-> "inputs", arg |-> (AB :> <<"1">>)],
     [op |-> "inputs", arg |-> (ABWin :> <<"1">>)],
     [op |-> "inputs", arg |-> (AB :> <<"2">>)],
     [op |-> "inputs", arg |-> (<<"b">> :> <<"1">>)],
     [op |-> "package", arg |-> [NoPackage EXCEPT !.dependencies = <<(<<"a">> :> <<"1">>)>>]],
     [op |-> "package", arg |-> [NoPackage EXCEPT !.dependencies = <<(<<"a">> :> <<"2">>)>>]],
     [op |-> "package", arg |-> [NoPackage EXCEPT !.dev_dependencies = <<(<<"b">> :> <<"1">>)>>]],
     [op |-> "package", arg |-> [NoPackage EXCEPT !.peer_dependencies = <<(<<"a">> :> <<"1">>)>>]],
     [op |-> "tsconfig", arg |-> [compiler_options |-> <<[NoOptions EXCEPT !.module = <<<<"a">>>>]>>]],
     [op |-> "tsconfig", arg |-> [compiler_options |-> <<[NoOptions EXCEPT !.target = <<<<"b">>>>]>>]],
     [op |-> "tsconfig", arg |-> [compiler_options |-> <<>>]]}

Task(args) == [command |-> <<"a">>, args |-> args, deps |-> <<<<"b">>, <<"a">>>>, target |-> <<"a">>]

(* hash_task with its argument list in either order, passthrough args     *)
(* (none, or one), and hash_project.                                       *)
TaskCalls ==
    {[op |-> "task", arg |-> Task(<<<<"b">>, <<"a">>>>)],
     [op |-> "task", arg |-> Task(<<<<"a">>, <<"b">>>>)],
     [op |-> "args", arg |-> <<<<"b">>, <<"a">>>>],
     [op |-> "args", arg |-> <<<<"a">>, <<"b">>>>],
     [op |-> "args", arg |-> <<>>],
     [op |-> "project", arg |-> [dependencies |-> <<<<"a">>, <<"b">>>>]]}

(* Every merge and task call, for hashers fed from both kinds.            *)
AllCalls == MergeCalls \cup TaskCalls

(* Two argument lists that concatenate to the same bytes.                 *)
SplitArgsCalls ==
    {[op |-> "args", arg |-> <<<<"a", "b">>>>],
     [op |-> "args", arg |-> <<<<"a">>, <<"b">>>>]}

(* A task and passthrough arguments, for either call order.               *)
TaskAndArgsCalls ==
    {[op |-> "task", arg |-> Task(<<<<"a">>>>)],
     [op |-> "args", arg |-> <<<<"b">>>>]}
=============================================================================
