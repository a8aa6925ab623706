-------------------------- MODULE MCFailureMemory --------------------------
(***************************************************************************)
(* Two causes that differ by a line number, and one with a secret in it    *)
(* (sk-KEY stands for a key of the length redaction.py looks for).         *)
(***************************************************************************)
EXTENDS FailureMemory, TLC
MCCauses == {"line 42 failed", "line 57 failed",
             "access denied for sk-KEY", "access denied for [REDACTED]"}
MCRedacted ==
    "access denied for sk-KEY" :> "access denied for [REDACTED]" @@ [c \in MCCauses |-> c]
MCSignature ==
    [c \in {"line 42 failed", "line 57 failed"} |-> "line # failed"]
    @@ "access denied for sk-KEY" :> "access denied for sk-key"
    @@ "access denied for [REDACTED]" :> "access denied for [redacted]"
MCKeywords ==
    "access denied for sk-KEY" :> {"access", "denied", "sk-key"}
    @@ "access denied for [REDACTED]" :> {"access", "denied", "redacted"}
    @@ [c \in MCCauses |-> {}]
MCMatches ==
    [c \in {"access denied for sk-KEY", "access denied for [REDACTED]"} |-> {"PERMISSION"}]
    @@ [c \in MCCauses |-> {}]
MCWords == UNION {MCKeywords[c] : c \in MCCauses}
MCSignatures == {MCSignature[c] : c \in MCCauses}
=============================================================================
