----------------------- MODULE ECONIdentityRegistry ------------------------
(***************************************************************************)
(* contracts/ECONIdentityRegistry.sol: an account registers agents and     *)
(* controls those it registered.  A wallet that is mapped to an agent      *)
(* registers no other, unless the agent's id is 0: then the mapping says   *)
(* nothing.                                                                *)
(***************************************************************************)
EXTENDS Chain

CONSTANTS
    AgentIds,    \* the ids agents are registered with
    ZeroAgent,   \* bytes32(0): what walletToAgent says of any other wallet
    Metadata     \* hashes of metadata

ASSUME RegistryAssumption == ZeroAgent \notin AgentIds /\ Metadata # {}

VARIABLES
    identities,     \* agent id -> the Identity struct
    walletToAgent   \* account -> the agent it registered, or ZeroAgent

registryVars == <<identities, walletToAgent>>

Ids == AgentIds \cup {ZeroAgent}

Identity ==
    [controller : Accounts, metadataHash : Metadata, active : BOOLEAN]

\* Never written: its registeredAt is 0.
NoIdentity == [controller |-> NoAddress]

RegistryInit ==
    /\ identities = [a \in Ids |-> NoIdentity]
    /\ walletToAgent = [u \in Accounts |-> ZeroAgent]

RegistryTypeOK ==
    /\ identities \in [Ids -> Identity \cup {NoIdentity}]
    /\ walletToAgent \in [Accounts -> Ids]

-----------------------------------------------------------------------------

IsRegistered(a) == identities[a].controller # NoAddress

\* registerAgent, and registerAgentWithURI.
MayRegisterAny(caller, a) == ~IsRegistered(a)
MayRegister(caller, a) == ~IsRegistered(a) /\ walletToAgent[caller] = ZeroAgent

registerAgentWithURI(caller, a, metadataHash) ==
    /\ MayRegister(caller, a)
    /\ identities' = [identities EXCEPT
           ![a] = [controller |-> caller, metadataHash |-> metadataHash,
                   active |-> TRUE]]
    /\ walletToAgent' = [walletToAgent EXCEPT ![caller] = a]

\* onlyController: nobody controls what was never registered.
OnlyController(caller, a) == identities[a].controller = caller

setStatusOf(caller, a, active) ==
    /\ OnlyController(caller, a)
    /\ identities' = [identities EXCEPT ![a].active = active]
    /\ UNCHANGED walletToAgent

\* updateMetadata, and updateMetadataWithURI.
updateMetadata(caller, a, newHash) ==
    /\ OnlyController(caller, a)
    /\ identities' = [identities EXCEPT ![a].metadataHash = newHash]
    /\ UNCHANGED walletToAgent

RegistryNext ==
    \/ /\ \E caller \in Accounts, a \in Ids, metadataHash \in Metadata,
             active \in BOOLEAN :
             \/ registerAgentWithURI(caller, a, metadataHash)
             \/ setStatusOf(caller, a, active)
             \/ updateMetadata(caller, a, metadataHash)
       /\ UNCHANGED <<wallets, blockTime>>
    \/ Advance /\ UNCHANGED registryVars

RegistrySpec ==
    /\ ChainInit /\ RegistryInit
    /\ [][RegistryNext]_<<wallets, blockTime, registryVars>>

-----------------------------------------------------------------------------
(* Properties                                                              *)

\* One wallet, one agent, for every id but 0: the two mappings are each
\* other's inverse whatever is registered in which order, so an agent is found
\* by its wallet for ever (getAgentByWallet), and no wallet speaks for two.
OneWalletOneAgent ==
    /\ \A u \in Accounts :
          walletToAgent[u] # ZeroAgent =>
              identities[walletToAgent[u]].controller = u
    /\ \A a \in AgentIds :
          IsRegistered(a) => walletToAgent[identities[a].controller] = a

=============================================================================
