--------------------------- MODULE MCWebsiteGate ---------------------------
(***************************************************************************)
(* Two visitors, the machine itself, a name two of whose paths are targets *)
(* and an address somebody may hold a token for.                           *)
(***************************************************************************)
EXTENDS WebsiteGate, TLC

MCLocalHost == {"localhost"}
MCName == {"app"}
MCHost == MCLocalHost \cup MCName \cup {"192.0.2.1"}
MCHostOf == ("http://localhost" :> "localhost") @@ ("https://app" :> "app")
            @@ ("https://app/below" :> "app")
MCSite == DOMAIN MCHostOf
Perms == Permutations(Visitor)
=============================================================================
