------------------------------- MODULE Session -------------------------------
(***************************************************************************)
(* Who controls the application, and who signs what it settles: passkey    *)
(* sessions (src/integrations/mera), Dynamic's wallet, the settlement mode *)
(* and adapter that src/App.tsx keeps in step with them, and the views     *)
(* that make agents (PasskeyModal, AgentBuilder).                          *)
(*                                                                         *)
(* A session is numbered; it is live until session.end() wipes its keys.   *)
(* WebAuthn runs one ceremony at a time.                                   *)
(***************************************************************************)
EXTENDS DynamicWallet

CONSTANTS
    Credentials,      \* passkeys
    Known,            \* those a user has from earlier visits
    MaxIdentities,    \* bound: the ceremonies that succeed
    MaxPublications   \* bound: the registrations that are tried

Nobody == "nobody"

ASSUME SessionAssumption ==
    /\ Known \subseteq Credentials /\ Nobody \notin Credentials
    /\ MaxIdentities \in Nat /\ MaxPublications \in Nat

VARIABLES
    activeIdentity,   \* MeraSessionManager.activeIdentity
    live,             \* the sessions that were not ended
    credentialOf,     \* session -> its credential
    ceremony,         \* the ceremony that is awaited
    builderIdentity,  \* AgentBuilder's passkeyIdentity
    mode,             \* the settlement mode of the store
    adapter,          \* the settlement adapter in use
    signer,           \* the account of its wallet client
    asked,            \* wallets whose client the application awaits
    agents,           \* the agents made, by what they were made from
    publication,      \* MonadAgentPublisher.publishAgent
    registrations     \* transactions of it: sent, or mined

meraVars == <<activeIdentity, live, credentialOf, ceremony>>
appVars == <<mode, adapter, signer, asked>>
viewVars == <<builderIdentity, agents, publication, registrations>>
sessionVars == <<walletVars, meraVars, appVars, viewVars>>

NoSigner == <<"none">>
NoIdentity == 0
Identities == 1..MaxIdentities
Made == {n \in Identities : credentialOf[n] # Nobody}
Passkeys == Known \cup {credentialOf[n] : n \in Made}

SessionInit ==
    /\ WalletInit
    /\ activeIdentity = NoIdentity /\ live = {} /\ ceremony = "none"
    /\ credentialOf = [n \in Identities |-> Nobody]
    /\ builderIdentity = NoIdentity
    /\ mode = "LOCAL_SIMULATION" /\ adapter = "local"
    /\ signer = NoSigner /\ asked = {}
    /\ agents = {} /\ publication = "idle"
    /\ registrations = [n \in 1..MaxPublications |-> "none"]

-----------------------------------------------------------------------------
(* The settlement adapter                                                  *)

\* setMeraAccount and setWalletClient replace each other's signer.
MeraSigner(n) == <<"mera", n>>
DynamicSigner(w) == <<"dynamic", w>>

\* The Monad adapter in use, or a new one, signs with a session.
SignWithSession(n) ==
    /\ signer' = MeraSigner(n)
    /\ adapter' = "monad" /\ mode' = "MONAD_TESTNET"

\* handleToggleSettlement: a new adapter, with the passkey's signer or none.
handleToggleSettlement(to) ==
    /\ mode' = to
    /\ IF to = "MONAD_TESTNET"
       THEN /\ adapter' = "monad"
            /\ signer' = IF activeIdentity = NoIdentity THEN NoSigner
                         ELSE MeraSigner(activeIdentity)
       ELSE adapter' = "local" /\ signer' = NoSigner
    /\ UNCHANGED <<asked, walletVars, meraVars, viewVars>>

\* A wallet connects through AppKit: the mode says so, the adapter stays.
ControllerConnects ==
    /\ mode' = "MONAD_TESTNET"
    /\ UNCHANGED <<adapter, signer, asked, walletVars, meraVars, viewVars>>

-----------------------------------------------------------------------------
(* Dynamic                                                                 *)

\* The client of Dynamic's wallet becomes the signer of a Monad adapter.
Hand(client) == signer' = IF adapter = "monad" THEN DynamicSigner(client)
                                               ELSE signer

\* App's subscription is told of the wallet: the mode changes, and the client
\* is handed to the adapter, or asked for once more.
Notified(wallet, client) ==
    /\ IF wallet = NoWallet THEN UNCHANGED <<mode, signer, asked>>
       ELSE /\ mode' = "MONAD_TESTNET"
            /\ IF client # NoWallet THEN Hand(client) /\ UNCHANGED asked
               ELSE /\ asked' = asked \cup ({wallet} \cap Connecting)
                    /\ UNCHANGED signer
    /\ UNCHANGED adapter

\* DynamicContextSync: the primary wallet changed.
WalletConnects(w) ==
    /\ setActiveWallet(w)
    /\ IF w \in Connecting THEN UNCHANGED appVars
                           ELSE Notified(activeWallet', walletClient')
    /\ UNCHANGED <<meraVars, viewVars>>

\* The rest of setActiveWallet, told with the wallet that is active by now.
WalletReady(n) ==
    /\ ClientOpened(n)
    /\ Notified(activeWallet', walletClient')
    /\ UNCHANGED <<meraVars, viewVars>>

\* getWalletClient answers the application: a client, or none.
ClientAnswered(w) ==
    /\ w \in asked /\ asked' = asked \ {w}
    /\ \/ walletClient' = w /\ Hand(w)
       \/ UNCHANGED <<walletClient, signer>>
    /\ UNCHANGED <<activeWallet, openings, opened, mode, adapter, meraVars,
                   viewVars>>

\* The adapter keeps the client.
handleDisconnectDynamic ==
    /\ disconnect
    /\ UNCHANGED <<appVars, meraVars, viewVars>>

-----------------------------------------------------------------------------
(* Passkeys                                                                *)

\* MeraSessionManager.setActiveIdentity: a new session; the one before it
\* ends.
setActiveIdentityBeside(n, credential) ==
    /\ activeIdentity' = n
    /\ live' = live \cup {n}
    /\ credentialOf' = [credentialOf EXCEPT ![n] = credential]
setActiveIdentity(n, credential) ==
    /\ activeIdentity' = n
    /\ live' = (live \ {activeIdentity}) \cup {n}
    /\ credentialOf' = [credentialOf EXCEPT ![n] = credential]

\* MeraClient: the prompt is shown, and it is cancelled.
Ceremonies == {"create", "sign in", "builder", "builder's agent"}
Prompt(kind) ==
    /\ ceremony = "none"
    /\ kind = "builder's agent" => builderIdentity = NoIdentity
    /\ ceremony' = kind
    /\ UNCHANGED <<activeIdentity, live, credentialOf, walletVars, appVars,
                   viewVars>>
Cancelled ==
    /\ ceremony # "none"
    /\ ceremony' = "none"
    /\ UNCHANGED <<activeIdentity, live, credentialOf, walletVars, appVars,
                   viewVars>>

\* A new passkey, or the one the user picks; the accounts follow from it.
Offered == IF ceremony = "sign in" THEN Passkeys ELSE Credentials \ Passkeys

PasskeyAgent(credential) == [from |-> "passkey", which |-> credential]

\* The ceremony succeeds: the session is the active one, App's subscription
\* gives its operating account to the adapter, and the view that prompted
\* finds or makes its agent; the builder's first prompt only keeps it.
CeremonySucceeds(n, credential) ==
    /\ ceremony # "none" /\ ceremony' = "none"
    /\ n \notin Made /\ \A k \in 1..(n - 1) : k \in Made
    /\ credential \in Offered
    /\ setActiveIdentity(n, credential)
    /\ SignWithSession(n)
    /\ agents' = IF ceremony = "builder" THEN agents
                 ELSE agents \cup {PasskeyAgent(credential)}
    /\ builderIdentity' = IF ceremony \in {"builder", "builder's agent"}
                          THEN n ELSE builderIdentity
    /\ UNCHANGED <<asked, walletVars, publication, registrations>>

\* MeraSessionManager.disconnect: the adapter keeps the account, which can
\* sign no more.
handleDisconnectPasskey ==
    /\ activeIdentity # NoIdentity
    /\ live' = live \ {activeIdentity}
    /\ activeIdentity' = NoIdentity
    /\ UNCHANGED <<credentialOf, ceremony, walletVars, appVars, viewVars>>

\* Control is switched away from what has it.
handleSwitchControl ==
    \/ handleDisconnectPasskey
    \/ activeIdentity = NoIdentity /\ handleDisconnectDynamic

-----------------------------------------------------------------------------
(* AgentBuilder                                                            *)

\* The builder is opened: it takes the session of this moment, for good.
OpenBuilder ==
    /\ builderIdentity' = activeIdentity
    /\ UNCHANGED <<agents, publication, registrations, walletVars, meraVars,
                   appVars>>

\* handleCreateNativeAgent, controlled by the passkey the builder has.
CreatePasskeyAgent ==
    /\ builderIdentity # NoIdentity
    /\ agents' = agents \cup {PasskeyAgent(credentialOf[builderIdentity])}
    /\ SignWithSession(builderIdentity)
    /\ UNCHANGED <<asked, builderIdentity, publication, registrations,
                   walletVars, meraVars>>

\* Controlled by Dynamic's wallet; without one, by the zero address.
CreateDynamicAgent ==
    /\ agents' = agents \cup {[from |-> "wallet", which |-> activeWallet]}
    /\ IF walletClient # NoWallet THEN Hand(walletClient) /\ UNCHANGED asked
       ELSE asked' = asked \cup ({activeWallet} \cap Connecting)
            /\ UNCHANGED signer
    /\ UNCHANGED <<mode, adapter, builderIdentity, publication, registrations,
                   walletVars, meraVars>>

\* handlePublishOnMonad up to the transaction: network, account, the
\* registry's code, simulation; each may end it.
publishAgent ==
    /\ \/ publication = "idle" /\ publication' = "connecting"
       \/ publication = "connecting" /\ publication' = "idle"
    /\ UNCHANGED <<builderIdentity, agents, registrations, walletVars,
                   meraVars, appVars>>

writeContract(n) ==
    /\ publication = "connecting" /\ publication' = "sent"
    /\ registrations[n] = "none"
    /\ \A k \in 1..(n - 1) : registrations[k] # "none"
    /\ registrations' = [registrations EXCEPT ![n] = "sent"]
    /\ UNCHANGED <<builderIdentity, agents, walletVars, meraVars, appVars>>

\* Mined, and its receipt read: the agent is made.  Or reverted; or mined, and
\* the wait for the receipt fails: then nothing of it is kept.
ReceiptSays(fate, receipt) == receipt /\ fate = "mined"

Published(n) ==
    /\ registrations[n] = "sent" /\ publication' = "idle"
    /\ \E fate \in {"mined", "reverted"}, receipt \in BOOLEAN :
          /\ registrations' = [registrations EXCEPT ![n] = fate]
          /\ agents' = IF ReceiptSays(fate, receipt)
                       THEN agents \cup {[from |-> "registry", which |-> n]}
                       ELSE agents
    /\ UNCHANGED <<builderIdentity, walletVars, meraVars, appVars>>

SessionNext ==
    \/ \E to \in {"LOCAL_SIMULATION", "MONAD_TESTNET"} :
          handleToggleSettlement(to)
    \/ ControllerConnects
    \/ \E w \in Wallets : WalletConnects(w) \/ ClientAnswered(w)
    \/ \E n \in Openings : WalletReady(n)
    \/ handleDisconnectDynamic
    \/ \E kind \in Ceremonies : Prompt(kind)
    \/ Cancelled
    \/ \E n \in Identities, credential \in Credentials :
          CeremonySucceeds(n, credential)
    \/ handleSwitchControl
    \/ OpenBuilder
    \/ CreatePasskeyAgent
    \/ CreateDynamicAgent
    \/ publishAgent
    \/ \E n \in 1..MaxPublications : writeContract(n) \/ Published(n)

SessionSpec == SessionInit /\ [][SessionNext]_sessionVars

-----------------------------------------------------------------------------
(* Properties                                                              *)

\* Keys live in memory only for the session that is the active one: whichever
\* ceremonies follow each other and whoever disconnects, the session before
\* was ended (meraSession.ts:31, :78).
OnlyActiveSessionLives ==
    /\ live \subseteq {activeIdentity}
    /\ activeIdentity # NoIdentity => activeIdentity \in live

\* While the console shows the local simulation no call can reach the chain:
\* no late answer of a wallet, no ceremony and no view leaves the Monad
\* adapter in use under that mode (App.tsx:61-153).
LocalModeIsLocal == mode = "LOCAL_SIMULATION" => adapter = "local"

\* An agent that was made from a passkey has one that some ceremony showed, and
\* one that was published has a registration that was mined; an agent of
\* Dynamic's wallet may have none, and no address but zero
\* (PasskeyModal.tsx:97, MonadAgentPublisher.ts).
AgentsAreFounded ==
    \A agent \in agents :
        /\ agent.from = "passkey" => agent.which \in Passkeys
        /\ agent.from = "registry" => registrations[agent.which] = "mined"

=============================================================================
