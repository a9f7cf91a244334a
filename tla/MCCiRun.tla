------------------------------ MODULE MCCiRun -------------------------------
(***************************************************************************)
(* A handler with a read nobody scoped and a query pasted together, a      *)
(* table without row-level security that the handler reads, and an agent   *)
(* defined in code.                                                        *)
(***************************************************************************)
EXTENDS CiRun

MCCandidate == {"read", "sort", "open", "agent"}
MCCheckOf == [c \in MCCandidate |->
    CASE c = "read" -> "bola" [] c = "sort" -> "classic_injection"
      [] c = "open" -> "rls" [] c = "agent" -> "agent_injection"]
MCSeverityOf == [c \in MCCandidate |-> CASE c = "open" -> 4 [] c = "agent" -> 1 [] OTHER -> 3]
MCFileOf == [c \in MCCandidate |->
    CASE c = "open" -> "schema.sql" [] c = "agent" -> "bot.py" [] OTHER -> "api.ts"]
MCTableOf == [c \in MCCandidate |-> "invoices"]
MCDiscovered == <<"open", "read", "sort", "agent">>
=============================================================================
