--------------------------- MODULE MCConnections ----------------------------
(***************************************************************************)
(* Services that answer several requests at once, for TLC: the relay's     *)
(* permission checks, its flows, and the profile signer.  They share no    *)
(* state; scene chooses the one that a behaviour is about.  Handlers,      *)
(* entries and askers are interchangeable, and so are clients, callers and *)
(* well-formed credentials: the configuration gives them two sets of model *)
(* values, so that one small symmetry group serves all scenes.             *)
(***************************************************************************)
EXTENDS RelayAuth, RelayFlow, ProfileSigner, TLC

VARIABLE scene

connectionVars == <<vars, flowVars, signerVars, scene>>

ConnectionInit ==
    /\ scene \in {"permissions", "flows", "signer"}
    /\ Init /\ FlowInit /\ SignerInit
    /\ scene # "permissions" => \A t \in WellFormed : permitted[t]

ConnectionNext ==
    /\ \/ scene = "permissions" /\ Next /\ UNCHANGED <<flowVars, signerVars>>
       \/ scene = "flows" /\ FlowNext /\ UNCHANGED <<vars, signerVars>>
       \/ scene = "signer" /\ SignerNext /\ UNCHANGED <<vars, flowVars>>
       \/ scene = "signer" /\ UNCHANGED connectionVars      \* at a time bound
    /\ UNCHANGED scene

ConnectionSpec == ConnectionInit /\ [][ConnectionNext]_connectionVars

Symmetry == Permutations(Handler) \cup Permutations(Client)
=============================================================================
