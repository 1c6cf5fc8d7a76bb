------------------------------ MODULE AtCommand ------------------------------
(***************************************************************************)
(* What at_obj_exec_cmd promises the threads that call it: commands are    *)
(* served one at a time, success and failure report the verdict the module *)
(* gave for that very command, and the lines handed back are exactly the   *)
(* lines the module said for it.  A timeout promises nothing about the     *)
(* module, and hands back no line.                                         *)
(***************************************************************************)
EXTENDS Integers, Sequences

CONSTANTS
    Callers,    \* the threads that execute commands
    None        \* nobody

VARIABLES
    phase,      \* phase[c]: "idle", "waiting", "serving" or "done"
    owner,      \* the caller whose command is being served
    said,       \* the lines the module has said for that command
    result,     \* result[c]: what the command of c that is done returned
    got         \* got[c]: the lines it handed back

vars == <<phase, owner, said, result, got>>

Finals == {"ok", "error"}

Concluded == said # <<>> /\ said[Len(said)] \in Finals

Init ==
    /\ phase = [c \in Callers |-> "idle"]
    /\ owner = None
    /\ said = <<>>
    /\ result = [c \in Callers |-> "SUCCESS"]
    /\ got = [c \in Callers |-> <<>>]

Call(c) ==
    /\ phase[c] = "idle"
    /\ phase' = [phase EXCEPT ![c] = "waiting"]
    /\ UNCHANGED <<owner, said, result, got>>

Start(c) ==
    /\ phase[c] = "waiting"
    /\ owner = None
    /\ owner' = c
    /\ phase' = [phase EXCEPT ![c] = "serving"]
    /\ UNCHANGED <<said, result, got>>

Say(kind) ==
    /\ owner # None
    /\ ~Concluded
    /\ said' = Append(said, kind)
    /\ UNCHANGED <<phase, owner, result, got>>

Finish(c) ==
    /\ owner = c
    /\ \/ /\ Concluded
          /\ result' = [result EXCEPT ![c] =
                           IF said[Len(said)] = "ok" THEN "SUCCESS" ELSE "FAILURE"]
          /\ got' = [got EXCEPT ![c] = said]
       \/ /\ result' = [result EXCEPT ![c] = "TIMEOUT"]
          /\ got' = [got EXCEPT ![c] = <<>>]
    /\ owner' = None
    /\ said' = <<>>
    /\ phase' = [phase EXCEPT ![c] = "done"]

Return(c) ==
    /\ phase[c] = "done"
    /\ phase' = [phase EXCEPT ![c] = "idle"]
    /\ result' = [result EXCEPT ![c] = "SUCCESS"]
    /\ got' = [got EXCEPT ![c] = <<>>]
    /\ UNCHANGED <<owner, said>>

Next ==
    \/ \E c \in Callers : Call(c) \/ Start(c) \/ Finish(c) \/ Return(c)
    \/ \E kind \in Finals \cup {"data"} : Say(kind)

Spec == Init /\ [][Next]_vars

=============================================================================
