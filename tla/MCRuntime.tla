----------------------------- MODULE MCRuntime ------------------------------
(* Small instances of Runtime for TLC. *)
EXTENDS RuntimeInvariants

\* A deployment with every handler and the defaults, and one that has dropped
\* a handler and treats panics and undecodable payloads as permanent.
FullConfig(reg) == [registry |-> reg, panic_policy |-> "retry", decode_error_strategy |-> "retry"]
StrictConfig(reg) == [registry |-> reg, panic_policy |-> "dead", decode_error_strategy |-> "abort"]

DropOne == {FullConfig(Handlers)} \cup {StrictConfig(Handlers \ {h}) : h \in Handlers}

NoPhases     == {}
LateHandler  == {"handler", "mark"}
EarlyPhase   == {"claimed"}
AllPhases    == Phases
AllCancels   == Phases \ {"report"}

NoFaults     == {}
LostReply    == {"lost"}
Passing      == {"transient", "lost"}
AllFaults    == FaultKinds

KeepAttempts == {"keep"}
AnyReaping   == ReapModes
=============================================================================
